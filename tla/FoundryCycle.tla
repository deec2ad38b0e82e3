---------------------------- MODULE FoundryCycle ----------------------------
(***************************************************************************)
(* The governance loop of a Foundry Cycle: forge, refine, quench,          *)
(* appraisal, the HITL nodes and the Sort gate (src/nodes), each writing   *)
(* the Archivist's records of one artefact in calls of its own and then    *)
(* routing the Workitem on.                                                *)
(*                                                                         *)
(* The Workitem is at one node and the operator runs one handler for it,   *)
(* again from the start when it fails.  A handler may outlive its          *)
(* assignment, when the operator restarted or gave up the call: it goes on *)
(* late, beside its successor, with what it has read.  What a model, a     *)
(* child review or a human answers is any answer.                          *)
(***************************************************************************)
EXTENDS Archivist, FiniteSets, Functions

CONSTANTS
  Flows,           \* deployed cycles, each with bounds of its own (see Flow)
  Valid,           \* the contents that pass quench's check
  ReviewsArrive,   \* BOOLEAN: a review that did not fail is there when appraisal collects
  MaxFaults        \* bound: handlers that fail or outlive their assignment

Reviewing == {"appraisal", "quench"}
Human == {"hitl-arbiter", "hitl-approval"}
Handler == {"forge", "sort", "refine"} \cup Reviewing \cup Human

\* "exit" and "cancelling": Complete was called and the exit contract is due.
Node == Handler \cup {"exit", "cancelling", "done", "cancelled"}

\* Sort's nodeOrder and the laws of PlainLaws in force; the bounds on the
\* feedback items and on the nodes whose handlers may outlive an assignment.
Flow == [order : Seq(Handler), plain : SUBSET PlainLaws,
         maxItems : 0..MaxItems, outliving : SUBSET Handler]

ASSUME FlowsAssumption ==
  Flows \subseteq Flow /\ \A f \in Flows : "appraisal" \in Range(f.order)
ASSUME ValidAssumption == Valid \subseteq Contents
ASSUME ReviewsArriveAssumption == ReviewsArrive \in BOOLEAN
ASSUME MaxFaultsAssumption == MaxFaults \in Nat

VARIABLES
  flow,        \* the deployed cycle
  node,        \* where the Workitem is
  work,        \* the handler the operator waits for and the one that outlived its assignment
  faults,      \* failures so far
  outlived,    \* a handler outlived its assignment
  reviewed     \* <<content, law>>: a review of the content found nothing against the law

vars == <<head, stamps, items, flow, node, work, faults, outlived, reviewed>>

Slot == {"live", "late"}
Step == {"idle", "store", "triage", "review", "judge", "check", "decide", "human", "rule", "route"}

\* The items a handler has still to treat, by their number, as it read them.
ToTreat == UNION {[S -> Feedback] : S \in SUBSET (1..MaxItems)}

\* A handler: the content and the items it read when it began, whether refine
\* actioned one, the findings to raise, the stamps to put, the ruling it
\* links or the node it routes to.
Work == [node : Handler, step : Step, read : Contents \cup {None}, todo : ToTreat,
         acted : BOOLEAN, found : SUBSET SUBSET Laws, earn : SUBSET Stamp, to : Node \cup State]

Nothing == [i \in {} |-> None]

Idle == [node |-> "sort", step |-> "idle", read |-> None, todo |-> Nothing,
         acted |-> FALSE, found |-> {}, earn |-> {}, to |-> "sort"]

TypeOK ==
  /\ ArchiveTypeOK /\ Len(items) <= MaxItems
  /\ flow \in Flows
  /\ node \in Node
  /\ work \in [Slot -> Work]
  /\ \A r \in Slot : work[r].step = "route" => work[r].to \in Node
  /\ faults \in 0..MaxFaults
  /\ outlived \in BOOLEAN
  /\ reviewed \subseteq (Contents \cup {None}) \X Laws

Init ==
  /\ ArchiveInit
  /\ flow \in Flows
  /\ node = "forge"
  /\ work = [r \in Slot |-> Idle]
  /\ faults = 0
  /\ outlived = FALSE
  /\ reviewed = {}

----------------------------------------------------------------------------
(* Handlers begin, go on and end.                                          *)

At(r, n, step) == work[r].node = n /\ work[r].step = step

Becomes(r, w) == work' = [work EXCEPT ![r] = w]

\* All that is left is to route.
Leaves(r, to) == Becomes(r, [Idle EXCEPT !.step = "route", !.to = to])

\* The states a handler's items are in when it reads them.
Concern(n) ==
  CASE n = "refine" -> {"NEW", "REJECTED"}
    [] n = "appraisal" -> {"ACTIONED", "WONT_FIX"}
    [] n = "quench" -> {"ACTIONED"}
    [] n = "hitl-arbiter" -> {"DEADLOCKED"}
    [] OTHER -> {}

Todo(n) == Restrict(items, {i \in DOMAIN items : items[i].state \in Concern(n)})

First(n) ==
  CASE n = "forge" -> "store"
    [] n = "refine" -> "triage"
    [] n = "appraisal" -> "review"
    [] n = "quench" -> "judge"
    [] n = "sort" -> "check"
    [] n = "hitl-approval" -> "human"
    [] n = "hitl-arbiter" -> IF DOMAIN Todo(n) = {} THEN "route" ELSE "human"
    [] OTHER -> "idle"

\* Quench's findings need no review: the check is made on what it reads.
Begin ==
  /\ work["live"].step = "idle" /\ node \in Handler
  /\ Becomes("live", [Idle EXCEPT
       !.node = node, !.step = First(node), !.todo = Todo(node),
       !.read = IF node \in Reviewing \cup {"refine"} THEN head ELSE None,
       !.found = IF node = "quench" /\ head \notin Valid THEN {{}} ELSE {},
       !.earn = IF node = "quench" THEN flow.plain ELSE {}])
  /\ UNCHANGED <<archive, flow, node, faults, outlived, reviewed>>

\* The item treated next: the oldest one left.
Oldest(r, i) == \A j \in DOMAIN work[r].todo : i <= j

Treated(r, i) == [work[r] EXCEPT !.todo = Restrict(@, DOMAIN @ \ {i})]

\* A transition the Archivist refuses ends the handler with an error.
Refuses(i, from) == items[i].state \notin from

Fault == faults < MaxFaults /\ faults' = faults + 1

\* The handler the operator waits for fails between two calls.
Fails ==
  /\ work["live"].step # "idle"
  /\ Fault
  /\ Becomes("live", Idle)
  /\ UNCHANGED <<archive, flow, node, outlived, reviewed>>

\* The operator starts the node again while the handler is still running.
Outlives ==
  /\ work["live"].step # "idle" /\ work["late"].step = "idle"
  /\ node \in flow.outliving
  /\ Fault
  /\ work' = [work EXCEPT !["late"] = work["live"], !["live"] = Idle]
  /\ outlived' = TRUE
  /\ UNCHANGED <<archive, flow, node, reviewed>>

LateEnds ==
  /\ work["late"].step # "idle"
  /\ Becomes("late", Idle)
  /\ UNCHANGED <<archive, flow, node, faults, outlived, reviewed>>

\* RouteTo or Complete ends the handler.  SubmitResult checks neither phase
\* nor caller: a late one moves the Workitem too, wherever it is, unless a
\* handler runs, which will overwrite its result.  One handler is late at a
\* time: the running one is not left behind as well.
Routes(r) ==
  /\ work[r].step = "route"
  /\ node' = IF r = "live" \/ work["live"].step = "idle" THEN work[r].to ELSE node
  /\ Becomes(r, Idle)
  /\ UNCHANGED <<archive, flow, faults, outlived, reviewed>>

----------------------------------------------------------------------------
(* Forge and refine.                                                       *)

\* A failure to resolve what the new version supersedes is only logged.
Stores(content) ==
  \/ Store(content, TRUE) /\ UNCHANGED faults
  \/ Store(content, FALSE) /\ Fault

ForgeStores(r) ==
  /\ At(r, "forge", "store")
  /\ \E c \in Contents : Stores(c)
  /\ Leaves(r, "sort")
  /\ UNCHANGED <<flow, node, outlived, reviewed>>

\* Mutant: the model may refuse what a ruling binds.
MayRefuseRuled(item) == item.refusable

\* A ruled item is actioned without asking the model; the model may refuse
\* the others when they are refusable.
MayRefuse(item) == item.refusable /\ ~item.ruled

Triages(r) ==
  /\ At(r, "refine", "triage")
  /\ \E i \in DOMAIN work[r].todo :
       /\ Oldest(r, i)
       /\ \/ /\ Transition(i, {"NEW", "REJECTED"}, "ACTIONED")
             /\ Becomes(r, [Treated(r, i) EXCEPT !.acted = TRUE])
          \/ /\ MayRefuse(work[r].todo[i])
             /\ Transition(i, {"NEW", "REJECTED"}, "WONT_FIX")
             /\ Becomes(r, Treated(r, i))
          \/ /\ Refuses(i, {"NEW", "REJECTED"})
             /\ Becomes(r, Idle)
             /\ UNCHANGED items
  /\ UNCHANGED <<head, stamps, flow, node, faults, outlived, reviewed>>

\* The revision of what was actioned; the content as read when nothing was.
RefineStores(r) ==
  /\ At(r, "refine", "triage") /\ DOMAIN work[r].todo = {}
  /\ \E c \in (IF work[r].acted THEN Contents ELSE {work[r].read}) : Stores(c)
  /\ Leaves(r, "sort")
  /\ UNCHANGED <<flow, node, outlived, reviewed>>

----------------------------------------------------------------------------
(* Appraisal and quench.                                                   *)

\* Mutant: the laws whose review failed are not held back.
EarnedBlindly(found, failed) ==
  LET passed == Laws \ UNION found
  IN passed \cup (IF passed = Laws THEN {"group"} ELSE {})

\* applyAttestationStamps: every law whose review did not fail and that no
\* finding cites, and the group when that is all of them.
Earned(found, failed) ==
  LET passed == (Laws \ failed) \ UNION found
  IN passed \cup (IF passed = Laws THEN {"group"} ELSE {})

\* The fan-out: children review the content read, some fail, and one that
\* did not may have left nothing when the results are collected.  There
\* is one finding for each set of laws cited.
Reviews(r) ==
  /\ At(r, "appraisal", "review")
  /\ \E failed, silent \in SUBSET Laws, found \in SUBSET SUBSET Laws :
       /\ ReviewsArrive => silent = {}
       /\ Len(items) + Cardinality(found) <= flow.maxItems
       /\ reviewed' = reviewed \cup
            ({work[r].read} \X (((Laws \ failed) \ silent) \ UNION found))
       /\ Becomes(r, [work[r] EXCEPT !.step = "judge", !.found = found,
                                     !.earn = Earned(found, failed)])
  /\ UNCHANGED <<archive, flow, node, faults, outlived>>

\* Appraisal judges what was actioned or refused when it began; a verdict
\* the Archivist refuses ends it.
Appraises(r) ==
  /\ At(r, "appraisal", "judge")
  /\ \E i \in DOMAIN work[r].todo :
       /\ Oldest(r, i)
       /\ \/ /\ \E to \in {"RESOLVED", "REJECTED"} :
                  Transition(i, {work[r].todo[i].state}, to)
             /\ Becomes(r, Treated(r, i))
          \/ /\ Refuses(i, {work[r].todo[i].state})
             /\ Becomes(r, Idle)
             /\ UNCHANGED items
  /\ UNCHANGED <<head, stamps, flow, node, faults, outlived, reviewed>>

\* Quench accepts or rejects every fix at once, whoever asked for it, and
\* goes on when the Archivist denies it.
Checks(r) ==
  /\ At(r, "quench", "judge")
  /\ \E i \in DOMAIN work[r].todo :
       /\ Oldest(r, i)
       /\ Becomes(r, Treated(r, i))
       /\ \/ Transition(i, {"ACTIONED"}, IF work[r].read \in Valid THEN "RESOLVED" ELSE "REJECTED")
          \/ UNCHANGED items
  /\ UNCHANGED <<head, stamps, flow, node, faults, outlived, reviewed>>

Raises(r) ==
  /\ work[r].node \in Reviewing /\ work[r].step = "judge" /\ DOMAIN work[r].todo = {}
  /\ \E cites \in work[r].found :
       /\ Len(items) < flow.maxItems
       /\ items' = Raised(work[r].node, work[r].node = "appraisal", cites)
       /\ Becomes(r, [work[r] EXCEPT !.found = @ \ {cites}])
  /\ UNCHANGED <<head, stamps, flow, node, faults, outlived, reviewed>>

\* A law stamp the Archivist does not take ends quench and is only logged by
\* appraisal.
Attests(r) ==
  /\ work[r].node \in Reviewing /\ work[r].step = "judge"
  /\ DOMAIN work[r].todo = {} /\ work[r].found = {}
  /\ \E name \in work[r].earn :
       /\ Becomes(r, [work[r] EXCEPT !.earn = @ \ {name}])
       /\ \/ Stamped({name}) /\ UNCHANGED faults
          \/ work[r].node = "appraisal" /\ Fault /\ UNCHANGED stamps
  /\ UNCHANGED <<head, items, flow, node, outlived, reviewed>>

\* The stamp that says the node was there.
StaticStamp(n) ==
  CASE n = "appraisal" -> {"appraisal"} [] n = "hitl-approval" -> {"approval"} [] OTHER -> {}

Signs(r) ==
  /\ work[r].node \in Reviewing /\ work[r].step = "judge"
  /\ DOMAIN work[r].todo = {} /\ work[r].found = {} /\ work[r].earn = {}
  /\ Stamped(StaticStamp(work[r].node))
  /\ Leaves(r, "sort")
  /\ UNCHANGED <<head, items, flow, node, faults, outlived, reviewed>>

----------------------------------------------------------------------------
(* The HITL nodes.                                                         *)

Approves(r) ==
  /\ At(r, "hitl-approval", "human")
  /\ Stamped(StaticStamp("hitl-approval"))
  /\ Leaves(r, "sort")
  /\ UNCHANGED <<head, items, flow, node, faults, outlived, reviewed>>

Cancels(r) ==
  /\ work[r].step = "human"
  /\ Leaves(r, "cancelling")
  /\ UNCHANGED <<archive, flow, node, faults, outlived, reviewed>>

Decides(r) ==
  /\ At(r, "hitl-arbiter", "human")
  /\ \E to \in {"WONT_FIX", "REJECTED"} :
       Becomes(r, [work[r] EXCEPT !.step = "rule", !.to = to])
  /\ UNCHANGED <<archive, flow, node, faults, outlived, reviewed>>

\* The ruling is linked to every deadlocked item read; one that is refused
\* ends the handler.  The stamp of the arbiter is in no contract.
Rules(r) ==
  /\ At(r, "hitl-arbiter", "rule")
  /\ \/ \E i \in DOMAIN work[r].todo :
          /\ Oldest(r, i)
          /\ \/ LinkRuling(i, work[r].to) /\ Becomes(r, Treated(r, i))
             \/ ~MayLink(i) /\ Becomes(r, Idle) /\ UNCHANGED items
     \/ /\ DOMAIN work[r].todo = {}
        /\ Leaves(r, "sort")
        /\ UNCHANGED items
  /\ UNCHANGED <<head, stamps, flow, node, faults, outlived, reviewed>>

----------------------------------------------------------------------------
(* Sort: the gate.                                                         *)

\* Mutant: an item may be deepened once more than the threshold says.
DeadlockedLate(item) == item.state = "DEADLOCKED"

\* checkDeadlock passes over items that are resolved, refused or rejected.
Deadlocked(item) ==
  \/ item.state = "DEADLOCKED"
  \/ item.state \in {"NEW", "ACTIONED"} /\ item.depth >= Threshold

ChecksDeadlock(r) ==
  /\ At(r, "sort", "check")
  /\ \/ \E i \in DOMAIN items :
          /\ Deadlocked(items[i]) /\ \A j \in 1..(i - 1) : ~Deadlocked(items[j])
          /\ Leaves(r, "hitl-arbiter")
          /\ IF items[i].state = "DEADLOCKED" THEN UNCHANGED items
             ELSE Transition(i, State \ {"RESOLVED", "DEADLOCKED"}, "DEADLOCKED")
     \/ /\ \A i \in DOMAIN items : ~Deadlocked(items[i])
        /\ Becomes(r, [work[r] EXCEPT !.step = "decide"])
        /\ UNCHANGED items
  /\ UNCHANGED <<head, stamps, flow, node, faults, outlived, reviewed>>

Raisers == {items[i].source : i \in {j \in DOMAIN items : items[j].state \in {"NEW", "REJECTED"}}}

Unstamped(names) == {name \in names : ~HasStamp(name)}

\* A node of the order that provides a static stamp wants the Workitem when
\* the head lacks the stamp, or sends it to refine when feedback it raised
\* was not addressed.
Wants(n) == StaticStamp(n) # {} /\ (Unstamped(StaticStamp(n)) # {} \/ n \in Raisers)

\* The law stamps of all laws in force, and the provider of a missing one:
\* the first node of the order that may put it.
LawStampsDue == Unstamped(Laws \cup flow.plain)

Attester ==
  IF LawStampsDue # {} /\ "quench" \in Range(flow.order) THEN "quench" ELSE "appraisal"

\* Mutant: fixes and refusals nobody judged do not matter.
AddressedNever == FALSE
Addressed == \E i \in DOMAIN items : items[i].state \in {"ACTIONED", "WONT_FIX"}

\* The provider loop, the attestations, the adjudication, then Complete.
\* What it reads, in several calls, is one read here.
Directed(to) ==
  IF \E n \in Range(flow.order) : Wants(n)
    THEN \E k \in DOMAIN flow.order :
           /\ Wants(flow.order[k]) /\ \A j \in 1..(k - 1) : ~Wants(flow.order[j])
           /\ to = IF Unstamped(StaticStamp(flow.order[k])) # {} THEN flow.order[k] ELSE "refine"
  ELSE IF Unstamped({"group"}) # {} \/ LawStampsDue # {} THEN to = Attester
  ELSE IF Addressed THEN to = "appraisal"
  ELSE to = "exit"

DecidesRoute(r) ==
  /\ At(r, "sort", "decide")
  /\ \E to \in Node :
       /\ Directed(to)
       /\ Leaves(r, to)
  /\ UNCHANGED <<archive, flow, node, faults, outlived, reviewed>>

----------------------------------------------------------------------------
(* The operator's exit contract, which it tries for ever when it refuses.  *)

Required ==
  Laws \cup flow.plain \cup {"group"} \cup UNION {StaticStamp(n) : n \in Range(flow.order)}

\* Mutant: the law attestations are not part of the contract.
ContractHoldsWithoutLaws == Unstamped(Required \ LawStamps) = {}
ContractHolds == Unstamped(Required) = {}

Exits ==
  /\ node \in {"exit", "cancelling"} /\ work["live"].step = "idle"
  /\ ContractHolds
  /\ node' = IF node = "exit" THEN "done" ELSE "cancelled"
  /\ UNCHANGED <<archive, flow, work, faults, outlived, reviewed>>

----------------------------------------------------------------------------

\* What a handler does without waiting for a human.
Works(r) ==
  \/ ForgeStores(r) \/ Triages(r) \/ RefineStores(r)
  \/ Reviews(r) \/ Appraises(r) \/ Checks(r) \/ Raises(r) \/ Attests(r) \/ Signs(r)
  \/ Rules(r) \/ ChecksDeadlock(r) \/ DecidesRoute(r) \/ Routes(r)

Humans(r) == Approves(r) \/ Cancels(r) \/ Decides(r)

Next ==
  \/ Begin \/ Exits
  \/ \E r \in Slot : Works(r) \/ Humans(r)
  \/ Fails \/ Outlives \/ LateEnds

\* The operator dispatches and completes, and a handler that did not fail
\* goes on.  A late handler may be killed at any time and a human need not
\* answer.
Fairness == WF_vars(Begin) /\ WF_vars(Exits) /\ WF_vars(Works("live"))

Spec == Init /\ [][Next]_vars /\ Fairness

----------------------------------------------------------------------------
(* Properties.                                                             *)

\* A Workitem that left the flow, completed or cancelled, carries every stamp
\* of its exit contract on the artefact's head; one that completed leaves no
\* fix or refusal and nothing appraisal raised undecided (no handler outlived
\* its assignment).
CompletedIsReviewed ==
  ~outlived =>
    /\ node \in {"done", "cancelled"} => Unstamped(Required) = {}
    /\ node = "done" => \A i \in DOMAIN items :
         \/ items[i].state = "RESOLVED"
         \/ items[i].source = "quench" /\ items[i].state \in {"NEW", "REJECTED"}

\* A law stamp on a content was earned: a review of that content arrived and
\* found nothing against the law (no handler outlived its assignment).
AttestedWasReviewed ==
  ~outlived => \A s \in stamps : s[2] \in Laws => s \in reviewed

\* Resolved feedback stays resolved and keeps its ruling, whoever writes, on
\* whatever it read.
ResolvedStaysResolved ==
  [][\A i \in DOMAIN items : items[i].state = "RESOLVED" => items'[i] = items[i]]_items

\* What appraisal raised, or a ruling binds, is resolved by a verdict on a fix
\* or a refusal, never because a newer version superseded it.
ResolvedByVerdict ==
  [][\A i \in DOMAIN items :
       /\ items[i].refusable \/ items[i].ruled
       /\ items[i].state # "RESOLVED" /\ items'[i].state = "RESOLVED"
       => items[i].state \in {"ACTIONED", "WONT_FIX"} /\ head' = head]_items

\* What a ruling binds is never refused by a handler: it leaves REJECTED only
\* to be actioned or superseded (no handler outlived its assignment).
RuledIsObeyed ==
  [][\A i \in DOMAIN items : items[i].ruled /\ items[i].state = "REJECTED" /\ ~outlived
       => items'[i].state # "WONT_FIX"]_items

\* A fix is rejected by a review only below the deadlock threshold: from
\* there on a human decides (no handler outlived its assignment).
RejectionsAreBounded ==
  [][\A i \in DOMAIN items : items[i].state = "ACTIONED" /\ items'[i].state = "REJECTED"
       => items[i].depth < Threshold \/ outlived]_items

Unjudged(i) ==
  /\ "quench" \notin Range(flow.order)
  /\ i \in DOMAIN items
  /\ items[i].state = "ACTIONED"

\* A fix does not stay unjudged in a cycle without quench: it is accepted or
\* rejected, or the item deadlocks, unless the cycle waits for a human or was
\* cancelled by one.
FixIsJudged ==
  \A i \in 1..MaxItems :
    Unjudged(i) ~> (~Unjudged(i) \/ node \in Human \cup {"cancelling", "cancelled"} \/ outlived)

=============================================================================
