------------------------------ MODULE Workitem ------------------------------
(***************************************************************************)
(* The operator's control of Workitems: the reconciler                     *)
(* (platform/operator/internal/controller/workitem_controller.go), the     *)
(* scheduler it calls and the OperatorService RPCs that write the same     *)
(* objects (platform/operator/internal/rpc/operator_server.go).            *)
(*                                                                         *)
(* Every read goes through the manager's informer cache, which lags the    *)
(* API server; every write is Status().Update, which the API server        *)
(* refuses unless it is based on the latest version.  So a handler that    *)
(* reads and then writes one object is one action here: whatever other     *)
(* writers do between its read and its write has the effect of a read from *)
(* a cache that lags.  A refused write changes nothing and is a stutter.   *)
(* Decisions taken on one read and applied after a second one (fail,       *)
(* resume, apply a route) are two actions with a plan kept between them.   *)
(***************************************************************************)
EXTENDS Naturals, FiniteSets

CONSTANTS
  Workitems,      \* names of Workitem objects, absent until created
  Nodes,          \* FoundryNodes
  EntryNodes,     \* nodes with Spec.Entry, which may create root Workitems
  ExitNodes,      \* nodes with Spec.Exit, which may complete a root Workitem
  Outputs,        \* Outputs[n]: the targets of n's declared outputs
  None,           \* no node / no Workitem
  Submittable,    \* the instructions handlers submit
  Routable,       \* the instructions parents route their children with
  MaxVisits,      \* governancePolicy.maxVisits
  Workers,        \* MaxConcurrentReconciles
  TimeoutOn,      \* some timeout is configured (timeout > 0)
  Obedient,       \* handlers submit once and stop when their call is cancelled
  MaxFaults       \* bound: operator crashes and failed creates

Phase == {"Absent", "", "Pending", "Running", "Routing", "Suspended",
          "Completed", "Failed"}
Terminal == {"Completed", "Failed"}

Instruction == [type : {"none", "complete", "route_to", "route_to_output", "suspend"},
                target : Nodes \cup {None}, cond : BOOLEAN, timed : BOOLEAN]
NoInstruction == [type |-> "none", target |-> None, cond |-> FALSE, timed |-> FALSE]

Reason == {"", "THRASH_BUDGET_EXCEEDED", "TIMEOUT_EXCEEDED", "SUSPEND_TIMEOUT_EXCEEDED"}

\* WorkitemStatus.  visits is the sum of thrashCounters, the only thing ever
\* read of it; assigned is AssignedAt # nil; cond and timed say whether
\* ResumeCondition and ResumeTimeout are set.
Item == [phase : Phase, assignee : Nodes \cup {None}, parent : Workitems \cup {None},
         ri : Instruction, visits : Nat, assigned : BOOLEAN,
         cond : BOOLEAN, timed : BOOLEAN, reason : Reason]
Absent == [phase |-> "Absent", assignee |-> None, parent |-> None,
           ri |-> NoInstruction, visits |-> 0, assigned |-> FALSE,
           cond |-> FALSE, timed |-> FALSE, reason |-> ""]

\* What a reconcile that is under way will do when it writes.
Plan == [phase : Phase, assignee : Nodes \cup {None}, cond : BOOLEAN,
         timed : BOOLEAN, reason : Reason]
NoPlan == [phase |-> "Absent", assignee |-> None, cond |-> FALSE,
           timed |-> FALSE, reason |-> ""]

Step == {"idle", "dispatch", "process", "await", "revert", "apply", "fail", "resume"}

ASSUME ConstantsAssumption ==
  /\ None \notin Nodes /\ None \notin Workitems
  /\ EntryNodes \subseteq Nodes /\ ExitNodes \subseteq Nodes
  /\ Outputs \in [Nodes -> SUBSET Nodes]
  /\ Submittable \cup Routable \subseteq Instruction
  /\ \A ri \in Submittable \cup Routable : ri.type # "none"
  /\ \A ri \in Routable : ri.type # "suspend"
  /\ MaxVisits \in Nat /\ Workers \in Nat /\ MaxFaults \in Nat
  /\ TimeoutOn \in BOOLEAN /\ Obedient \in BOOLEAN

VARIABLES
  store,      \* the API server's copy of every Workitem
  cache,      \* the operator's informer copy
  pc,         \* pc[w]: where w's reconcile is; one per key at a time
  plan,       \* plan[w]: what it decided
  zombies,    \* items with a handler still running after its session ended
  creating,   \* items whose Create is done and whose status write is pending
  faults      \* faults so far (bound)

vars == <<store, cache, pc, plan, zombies, creating, faults>>

TypeOK ==
  /\ store \in [Workitems -> Item]
  /\ cache \in [Workitems -> Item]
  /\ pc \in [Workitems -> Step]
  /\ plan \in [Workitems -> Plan]
  /\ zombies \subseteq Workitems
  /\ creating \subseteq Workitems
  /\ faults \in 0..MaxFaults

Init ==
  /\ store = [w \in Workitems |-> Absent]
  /\ cache = store
  /\ pc = [w \in Workitems |-> "idle"]
  /\ plan = [w \in Workitems |-> NoPlan]
  /\ zombies = {} /\ creating = {} /\ faults = 0

-----------------------------------------------------------------------------
(* Reading and writing objects *)

\* The cached copy is the latest version: an Update based on it is accepted.
InSync(w) == cache[w] = store[w]

\* Mutant: a write that carries no resource version.
UpdateBlind(w, item) == store' = [store EXCEPT ![w] = item]

Update(w, item) ==
  /\ InSync(w)
  /\ store' = [store EXCEPT ![w] = item]

\* The watch delivers the latest version to the cache.
Informer(w) ==
  /\ ~InSync(w)
  /\ cache' = [cache EXCEPT ![w] = store[w]]
  /\ UNCHANGED <<store, pc, plan, zombies, creating, faults>>

\* Children as the parent label lists them; a child whose status was never
\* written counts as non-terminal.
Children(objs, w) == {c \in Workitems : objs[c].phase # "Absent" /\ objs[c].parent = w}
\* Mutant: a failed child still counts as active.
HasUnfinishedChildren(objs, w) == \E c \in Children(objs, w) : objs[c].phase # "Completed"

HasNonTerminalChildren(objs, w) == \E c \in Children(objs, w) : objs[c].phase \notin Terminal

-----------------------------------------------------------------------------
(* The reconciler: a key is reconciled by one worker at a time *)

Busy == {w \in Workitems : pc[w] # "idle"}
CanStart(w) == pc[w] = "idle" /\ Cardinality(Busy) < Workers

Begin(w, step, p) ==
  /\ pc' = [pc EXCEPT ![w] = step]
  /\ plan' = [plan EXCEPT ![w] = p]
End(w) == Begin(w, "idle", NoPlan)
Goto(w, step) == pc' = [pc EXCEPT ![w] = step] /\ UNCHANGED plan

FailPlan(why) == [NoPlan EXCEPT !.phase = "Failed", !.reason = why]

\* Mutant: AssignedAt is not stamped.
ClaimedUnstamped(item) == [item EXCEPT !.phase = "Running", !.visits = @ + 1]

Claimed(item) == [item EXCEPT !.phase = "Running", !.assigned = TRUE, !.visits = @ + 1]

\* reconcilePending: count the visit and claim the item before dispatching.
Claim(w) ==
  /\ CanStart(w)
  /\ cache[w].phase = "Pending" /\ cache[w].assignee # None
  /\ cache[w].visits + 1 <= MaxVisits
  /\ Update(w, Claimed(cache[w]))
  /\ Begin(w, "dispatch", [NoPlan EXCEPT !.assignee = cache[w].assignee])
  /\ UNCHANGED <<cache, zombies, creating, faults>>

\* reconcilePending: one visit more than the budget fails the item instead.
\* The count itself is not persisted.
ClaimOverBudget(w) ==
  /\ CanStart(w)
  /\ cache[w].phase = "Pending" /\ cache[w].assignee # None
  /\ cache[w].visits + 1 > MaxVisits
  /\ Begin(w, "fail", FailPlan("THRASH_BUDGET_EXCEEDED"))
  /\ UNCHANGED <<store, cache, zombies, creating, faults>>

\* Assign finds a ready pod and its sidecar starts the handler ...
Assign(w) ==
  /\ pc[w] = "dispatch" /\ Goto(w, "process")
  /\ UNCHANGED <<store, cache, zombies, creating, faults>>

\* ... or fails: no ready pod, no connection, a session still registered.
AssignFails(w) ==
  /\ pc[w] = "dispatch" /\ Goto(w, "revert")
  /\ UNCHANGED <<store, cache, zombies, creating, faults>>

\* The handler returned and AssignWork acknowledged it.
HandlerReturns(w) ==
  /\ pc[w] = "process" /\ End(w)
  /\ UNCHANGED <<store, cache, zombies, creating, faults>>

HandlerErrs(w) ==
  /\ pc[w] = "process" /\ Goto(w, "revert")
  /\ UNCHANGED <<store, cache, zombies, creating, faults>>

\* The sidecar's inactivity timer cancels the call; the handler's own code may
\* go on, since the SDK's calls do not use the cancelled context.
InactivityTimeout(w) ==
  /\ pc[w] = "process" /\ Goto(w, "revert")
  /\ zombies' = IF Obedient THEN zombies ELSE zombies \cup {w}
  /\ UNCHANGED <<store, cache, creating, faults>>

ZombieExits(w) ==
  /\ w \in zombies /\ zombies' = zombies \ {w}
  /\ UNCHANGED <<store, cache, pc, plan, creating, faults>>

\* reconcilePending after a failed Assign: put the item back in Pending if the
\* cache still says Running; the result of the write is ignored.
Revert(w) ==
  /\ pc[w] = "revert" /\ End(w)
  /\ IF cache[w].phase = "Running" /\ InSync(w)
       THEN Update(w, [cache[w] EXCEPT !.phase = "Pending", !.assigned = FALSE])
       ELSE UNCHANGED store
  /\ UNCHANGED <<cache, zombies, creating, faults>>

\* reconcileRunning: the assignment is older than the timeout and no child is
\* active.  The item is failed later, on a second read.
RunningTimeout(w) ==
  /\ CanStart(w) /\ TimeoutOn
  /\ cache[w].phase = "Running" /\ cache[w].assigned
  /\ ~HasNonTerminalChildren(cache, w)
  /\ Begin(w, "fail", FailPlan("TIMEOUT_EXCEEDED"))
  /\ UNCHANGED <<store, cache, zombies, creating, faults>>

\* The same when the children cannot be listed: the timeout applies anyway.
TimeoutUnchecked(w) ==
  /\ CanStart(w) /\ TimeoutOn
  /\ cache[w].phase = "Running" /\ cache[w].assigned
  /\ HasNonTerminalChildren(cache, w)
  /\ Begin(w, "fail", FailPlan("TIMEOUT_EXCEEDED"))
  /\ UNCHANGED <<store, cache, zombies, creating, faults>>

\* Mutant: the budget's last visit may still route.
ThrashOffByOne(item) == item.visits > MaxVisits

ThrashExceeded(item) == item.visits >= MaxVisits

\* Mutant: the exit binding of a root's node is not looked at.
MayCompleteAnywhere(item) == item.assignee \in Nodes

\* handleComplete: a child reports to its parent, a root needs an exit contract.
MayComplete(item) ==
  /\ item.assignee \in Nodes
  /\ item.parent = None => item.assignee \in ExitNodes

\* scheduler.CalculateNextStep: the plans the guards allow for an item in
\* Routing.  None: the instruction is refused and retried.  Whether a root's
\* artefacts and stamps meet its exit contract is the Archivist's and the
\* Librarian's answer, so a completing root may also be refused.
Moves(item) ==
  IF \/ item.ri.type = "route_to" /\ item.ri.target \in Nodes
     \/ /\ item.ri.type = "route_to_output" /\ item.assignee \in Nodes
        /\ item.ri.target \in Outputs[item.assignee]
    THEN {[NoPlan EXCEPT !.phase = "Pending", !.assignee = item.ri.target]} ELSE {}

Completions(item) ==
  IF item.ri.type = "complete" /\ MayComplete(item)
    THEN {[NoPlan EXCEPT !.phase = "Completed",
                         !.assignee = IF item.parent = None THEN None ELSE item.assignee]}
    ELSE {}

Suspensions(item) ==
  IF item.ri.type = "suspend" /\ item.assignee \in Nodes
    THEN {[NoPlan EXCEPT !.phase = "Suspended", !.cond = item.ri.cond, !.timed = item.ri.timed]}
    ELSE {}

\* checkThrashGuard, which suspension does not pass through
Guarded(item, p) == IF ThrashExceeded(item) THEN FailPlan("THRASH_BUDGET_EXCEEDED") ELSE p

NextSteps(item) ==
  Suspensions(item) \cup {Guarded(item, p) : p \in Moves(item) \cup Completions(item)}

\* reconcileRouting, first read: run the guards on this version of the item.
Decide(w) ==
  /\ CanStart(w)
  /\ cache[w].phase = "Routing" /\ cache[w].ri # NoInstruction
  /\ \E p \in NextSteps(cache[w]) :
       Begin(w, IF p.phase = "Failed" THEN "fail" ELSE "apply", p)
  /\ UNCHANGED <<store, cache, zombies, creating, faults>>

\* Mutant of Routed: a known assignee is kept.
RoutedStays(item, p) ==
  [item EXCEPT !.ri = NoInstruction, !.assigned = FALSE, !.phase = p.phase,
               !.assignee = IF @ = None THEN p.assignee ELSE @]

\* reconcileRouting, second read: apply the result if the item is still in
\* Routing, whatever instruction it holds by now.
Routed(item, p) ==
  LET cleared == [item EXCEPT !.ri = NoInstruction, !.assigned = FALSE, !.phase = p.phase]
  IN  IF p.phase = "Suspended"
        THEN [cleared EXCEPT !.cond = p.cond, !.timed = p.timed]
        ELSE [cleared EXCEPT !.assignee = p.assignee]

Apply(w) ==
  /\ pc[w] = "apply" /\ End(w)
  /\ IF cache[w].phase = "Routing" /\ InSync(w)
       THEN Update(w, Routed(cache[w], plan[w]))
       ELSE UNCHANGED store
  /\ UNCHANGED <<cache, zombies, creating, faults>>

\* reconcileSuspended: past its timeout, or unreadable.
SuspendTimeout(w) ==
  /\ CanStart(w)
  /\ cache[w].phase = "Suspended" /\ cache[w].timed
  /\ Begin(w, "fail", FailPlan("SUSPEND_TIMEOUT_EXCEEDED"))
  /\ UNCHANGED <<store, cache, zombies, creating, faults>>

\* reconcileSuspended: any resume condition is met once no child is active.
SuspendMet(w) ==
  /\ CanStart(w)
  /\ cache[w].phase = "Suspended" /\ cache[w].cond
  /\ ~HasNonTerminalChildren(cache, w)
  /\ Begin(w, "resume", NoPlan)
  /\ UNCHANGED <<store, cache, zombies, creating, faults>>

\* resumeWorkitem
Resume(w) ==
  /\ pc[w] = "resume" /\ End(w)
  /\ IF cache[w].phase = "Suspended" /\ InSync(w)
       THEN Update(w, [cache[w] EXCEPT !.phase = "Pending", !.cond = FALSE, !.timed = FALSE])
       ELSE UNCHANGED store
  /\ UNCHANGED <<cache, zombies, creating, faults>>

CanFail(item) == item.phase \notin Terminal

\* failWorkitem
Fail(w) ==
  /\ pc[w] = "fail" /\ End(w)
  /\ IF CanFail(cache[w]) /\ InSync(w)
       THEN Update(w, [cache[w] EXCEPT !.phase = "Failed", !.reason = plan[w].reason,
                                       !.ri = NoInstruction, !.assigned = FALSE])
       ELSE UNCHANGED store
  /\ UNCHANGED <<cache, zombies, creating, faults>>

-----------------------------------------------------------------------------
(* OperatorService: calls of handlers and of clients *)

\* A handler with a live session, or one that outlived it: the sidecar's
\* interceptor forwards the Workitem ID its caller sends in both cases.
MayCall(w) == pc[w] = "process" \/ w \in zombies

\* SubmitResult.  Neither the phase nor the caller's node is checked.
SubmitResult(w, ri) ==
  /\ MayCall(w) /\ (Obedient => store[w].phase = "Running")
  /\ cache[w].phase # "Absent"
  /\ ri.type = "complete" => ~HasNonTerminalChildren(cache, w)
  /\ Update(w, [cache[w] EXCEPT !.ri = ri, !.phase = "Routing"])
  /\ UNCHANGED <<cache, pc, plan, zombies, creating, faults>>

\* CreateWorkitem and CreateChildWorkitem create the object first ...
Create(c, parent) ==
  /\ store[c].phase = "Absent"
  /\ store' = [store EXCEPT ![c] = [Absent EXCEPT !.phase = "", !.parent = parent]]
  /\ creating' = creating \cup {c}
  /\ UNCHANGED <<cache, pc, plan, zombies, faults>>

CreateWorkitem(c) == EntryNodes # {} /\ Create(c, None)
CreateChild(w, c) == MayCall(w) /\ cache[w].phase # "Absent" /\ Create(c, w)

\* ... and write its status second, a root's with the entry node as assignee.
InitStatus(c) ==
  /\ c \in creating /\ creating' = creating \ {c}
  /\ \E n \in IF store[c].parent = None THEN EntryNodes ELSE {None} :
       store' = [store EXCEPT ![c] = [@ EXCEPT !.phase = "Pending", !.assignee = n]]
  /\ UNCHANGED <<cache, pc, plan, zombies, faults>>

\* The second write fails: nothing rolls the first one back.
CreateFails(c) ==
  /\ c \in creating /\ creating' = creating \ {c}
  /\ faults < MaxFaults /\ faults' = faults + 1
  /\ UNCHANGED <<store, cache, pc, plan, zombies>>

\* RouteChild
RouteChild(w, c, ri) ==
  /\ MayCall(w)
  /\ cache[c].parent = w /\ cache[c].phase = "Pending"
  /\ ri.type = "route_to" => ri.target \in Nodes
  /\ Update(c, [cache[c] EXCEPT !.ri = ri, !.phase = "Routing"])
  /\ UNCHANGED <<cache, pc, plan, zombies, creating, faults>>

\* Mutant: any item is resumed.
ResumeAnyWorkitem(w) ==
  /\ cache[w].phase # "Absent"
  /\ Update(w, [cache[w] EXCEPT !.phase = "Pending", !.cond = FALSE, !.timed = FALSE,
                                !.ri = NoInstruction])
  /\ UNCHANGED <<cache, pc, plan, zombies, creating, faults>>

\* ResumeWorkitem, the explicit resume.
ResumeWorkitem(w) ==
  /\ cache[w].phase = "Suspended"
  /\ Update(w, [cache[w] EXCEPT !.phase = "Pending", !.cond = FALSE, !.timed = FALSE,
                                !.ri = NoInstruction])
  /\ UNCHANGED <<cache, pc, plan, zombies, creating, faults>>

\* AwaitAll after FanOut: the handler pauses its timer and blocks until the
\* children it routed are terminal.
Unrouted(c) == store[c].phase = "" \/ (store[c].phase = "Pending" /\ store[c].assignee = None)

BeginAwait(w) ==
  /\ pc[w] = "process" /\ Children(store, w) # {}
  /\ \A c \in Children(store, w) : ~Unrouted(c)
  /\ Goto(w, "await")
  /\ UNCHANGED <<store, cache, zombies, creating, faults>>

EndAwait(w) ==
  /\ pc[w] = "await" /\ Children(cache, w) # {}
  /\ ~HasNonTerminalChildren(cache, w)
  /\ Goto(w, "process")
  /\ UNCHANGED <<store, cache, zombies, creating, faults>>

\* The operator process dies and restarts with a fresh cache.  The calls it
\* served and the assignments it had under way are cancelled.
Crash ==
  /\ faults < MaxFaults /\ faults' = faults + 1
  /\ pc' = [w \in Workitems |-> "idle"]
  /\ plan' = [w \in Workitems |-> NoPlan]
  /\ zombies' = IF Obedient THEN zombies
                ELSE zombies \cup {w \in Workitems : pc[w] \in {"process", "await"}}
  /\ creating' = {} /\ cache' = store
  /\ UNCHANGED store

-----------------------------------------------------------------------------
Progress(w) ==
  \/ Claim(w) \/ ClaimOverBudget(w) \/ RunningTimeout(w)
  \/ Decide(w) \/ SuspendTimeout(w) \/ SuspendMet(w)

Reconcile(w) == Progress(w) \/ TimeoutUnchecked(w)

Write(w) == Revert(w) \/ Apply(w) \/ Resume(w) \/ Fail(w)

Handler(w) ==
  \/ Assign(w) \/ AssignFails(w)
  \/ HandlerReturns(w) \/ HandlerErrs(w) \/ InactivityTimeout(w)
  \/ BeginAwait(w) \/ EndAwait(w) \/ ZombieExits(w)

Call(w) ==
  \/ \E ri \in Submittable : SubmitResult(w, ri)
  \/ ResumeWorkitem(w)
  \/ CreateWorkitem(w) \/ InitStatus(w) \/ CreateFails(w)
  \/ \E c \in Workitems : CreateChild(w, c) \/ \E ri \in Routable : RouteChild(w, c, ri)

Next == Crash \/ \E w \in Workitems : Informer(w) \/ Reconcile(w) \/ Write(w) \/ Handler(w) \/ Call(w)

Spec == Init /\ [][Next]_vars

\* Fairness.  A key that keeps needing a reconcile gets a worker (the
\* controller's queue is first in, first out and failed keys are requeued); a
\* write, a watch event, a dispatch and an accepted create end; a handler
\* returns, or falls silent and is timed out by its sidecar; AwaitAll polls.
\* No failure is owed: not the list's that TimeoutUnchecked needs.
Fairness == \A w \in Workitems :
  /\ WF_vars(Informer(w)) /\ SF_vars(Progress(w)) /\ WF_vars(Write(w))
  /\ WF_vars(Assign(w) \/ AssignFails(w)) /\ WF_vars(InitStatus(w))
  /\ WF_vars(HandlerReturns(w) \/ HandlerErrs(w) \/ InactivityTimeout(w))
  /\ WF_vars(EndAwait(w))

FairSpec == Spec /\ Fairness

-----------------------------------------------------------------------------
(* Safety *)

\* No item is dispatched more often than the thrash budget allows, and an item
\* that completes has a visit to spare, whatever stale version the guards saw:
\* reconcilePending counts before it claims, the scheduler checks again.
WithinBudget == \A w \in Workitems :
  /\ store[w].visits <= MaxVisits
  /\ store[w].phase = "Completed" => store[w].visits < MaxVisits

\* While an assignment is under way its item stays with the node it was
\* assigned to, waiting for a result or holding one: no timeout, resume, route
\* or second claim moves it away from a handler the operator waits for.
HandlerOwnsItem == \A w \in Workitems :
  pc[w] \in {"dispatch", "process", "await", "revert"} =>
    /\ store[w].phase \in {"Running", "Routing"}
    /\ store[w].assignee = plan[w].assignee

\* An item holds an instruction exactly while it is in Routing: one in Routing
\* without one is never requeued (reconcileRouting's first guard), one that
\* leaves Routing with one would have it processed again.
RoutingIffInstruction == \A w \in Workitems :
  store[w].phase = "Routing" <=> store[w].ri # NoInstruction

-----------------------------------------------------------------------------
(* Action properties *)

\* No writer rolls an item back to a version it read earlier: visits are never
\* uncounted and a child never changes its parent.
NoLostUpdate == [][\A w \in Workitems :
  /\ store'[w].visits >= store[w].visits
  /\ store[w].phase # "Absent" => store'[w].parent = store[w].parent]_store

\* A root item leaves Routing the way its last accepted instruction says, or
\* fails.  The reconciler decides on one version and writes on another; for a
\* child the parent's RouteChild may come in between.
FollowsInstruction == [][\A w \in Workitems :
  LET old == store[w]  new == store'[w]
  IN  (old.parent = None /\ old.phase = "Routing" /\ new.phase # "Routing") =>
        \/ new.phase = "Failed"
        \/ new.phase = "Completed" /\ old.ri.type = "complete"
        \/ new.phase = "Suspended" /\ old.ri.type = "suspend"
        \/ new.phase = "Pending" /\ new.assignee = old.ri.target]_store

\* Completed and Failed are final.  SubmitResult does not look at the phase, so
\* this rests on no handler outliving its assignment.
TerminalIsFinal == [][\A w \in Workitems :
  store[w].phase \in Terminal => store'[w].phase = store[w].phase]_store

\* A root Workitem completes only out of an exit-bound node.
RootCompletesAtExit == [][\A w \in Workitems :
  (store[w].phase # "Completed" /\ store'[w].phase = "Completed" /\ store[w].parent = None) =>
    store[w].assignee \in ExitNodes]_store

-----------------------------------------------------------------------------
(* Liveness *)

\* With a timeout configured no item stays Running for ever, even when the
\* operator dies between the claim and the dispatch, or a failed dispatch
\* cannot be reverted because the cache lags.  workitem_controller.go:444 exempts
\* parents, since "A parent waiting for children to complete is not stuck".
RunningEnds == \A w \in Workitems : store[w].phase = "Running" ~> store[w].phase # "Running"

\* AwaitAll ends: the children a handler waits for get a worker and finish.
AwaitEnds == \A w \in Workitems : pc[w] = "await" ~> pc[w] # "await"
=============================================================================
