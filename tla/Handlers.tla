------------------------------ MODULE Handlers ------------------------------
(***************************************************************************)
(* Handlers behind their sidecar: the sessions of a Workitem with the two  *)
(* handlers that suspend their timer, and the claim that the whole is to   *)
(* the operator what Assignment says.                                      *)
(***************************************************************************)
EXTENDS HumanDecision, AwaitChildren

VARIABLE kind       \* what the node's handler does: "human" or "parent"

vars == <<call, holder, timer, paused, timedOut, cancelled, gone, pc, faults,
          item, minted, news, live, inbox, missed,
          phase, shown, creator, childIDs, stream, events, seen, listed, kind>>

TypeOK ==
  /\ SessionTypeOK /\ HumanTypeOK /\ AwaitTypeOK
  /\ kind \in {"human", "parent"}

Init ==
  /\ SessionInit /\ HumanInit /\ AwaitInit
  /\ kind \in {"human", "parent"}

\* What the sidecar's own steps leave alone.
Beside == Forget /\ UNCHANGED <<humanVars, phase, shown, creator, waitVars>>

Human == kind = "human" /\ (Outside \/ \E c \in Calls : HumanHandler(c)) /\ UNCHANGED awaitVars
Parent == kind = "parent" /\ (Around \/ \E c \in Calls : ParentHandler(c)) /\ UNCHANGED humanVars

Next ==
  /\ \/ (\E c \in Calls : Sidecar(c)) /\ Beside
     \/ Human
     \/ Parent
  /\ UNCHANGED kind

Spec == Init /\ [][Next]_vars

\* The sidecar's goroutines and a handler's own steps go on; the publisher, the
\* bus and the operator's informers deliver.  No one need decide, and no child
\* need end.
Fairness ==
  /\ \A c \in Calls :
       /\ WF_vars(Fires(c) /\ Beside /\ UNCHANGED kind)
       /\ WF_vars(Expires(c) /\ Beside /\ UNCHANGED kind)
       /\ WF_vars((Replies(c) \/ (c \in cancelled /\ ProcessFails(c))) /\ Beside /\ UNCHANGED kind)
       /\ WF_vars(kind = "human" /\ Steps(c) /\ UNCHANGED <<awaitVars, kind>>)
       /\ WF_vars(kind = "parent" /\ ParentStep(c) /\ UNCHANGED <<humanVars, kind>>)
  /\ WF_vars(kind = "human" /\ Publish /\ Outside /\ UNCHANGED <<awaitVars, kind>>)
  /\ WF_vars(kind = "parent" /\ Around /\ (\E k \in Children : Shows(k)) /\ UNCHANGED <<humanVars, kind>>)

FairSpec == Spec /\ Fairness

-----------------------------------------------------------------------------
(* The abstract assignment.                                                *)

AbstractAnswer == [c \in Calls |-> IF call[c] \in {"deadline", "internal"} THEN "failed" ELSE call[c]]
AbstractOutcome ==
  [c \in Calls |-> IF pc[c] \in {"none", "returned", "erred", "dead"} THEN pc[c] ELSE "working"]

A == INSTANCE Assignment WITH answer <- AbstractAnswer, outcome <- AbstractOutcome

\* To the operator, whatever timers, cancellations and late handlers do inside,
\* a sidecar is an Assignment: one open call at a time, one answer each, and
\* an answer in the handler's name only after that handler returned.
ImplementsAssignment == A!Spec

-----------------------------------------------------------------------------
(* Properties.                                                             *)

\* A call cannot stay open with its timer running: it is answered, or someone
\* suspended the timer (session.go, AssignWork).
UnpausedCallEnds ==
  \A c \in Calls : (call[c] = "open") ~> (call[c] # "open" \/ c \in paused)

\* A handler whose Workitem is no longer parked stops waiting, unless no decision
\* was published while its stream was registered (WaitForDecision).
DecidedWaitEnds ==
  \A c \in Calls : (Waiting(c) /\ item = 0) ~> (~Waiting(c) \/ c \in missed)

\* AwaitAll answers without an error only when every child has ended, unless
\* its event stream closed or the operator's list lacked a child.
Informed(c) == List = Existing
               /\ (pc[c] = "streaming" => stream[c] # "closed" /\ listed[c] = Existing)

AwaitSeesAll ==
  [][\A c \in Calls : (pc[c] # pc'[c] /\ pc'[c] = "collect" /\ Informed(c))
                      => \A k \in Existing : phase[k] = "terminal"]_vars

\* AwaitAll ends once the children have, whatever events were lost on the way.
Awaits(c) == pc[c] \in {"snapshot", "streaming", "polling"}
AwaitEnds ==
  \A c \in Calls : (Awaits(c) /\ \A k \in Existing : phase[k] = "terminal")
                   ~> (~Awaits(c) \/ \E k \in Existing : phase[k] # "terminal")

\* A handler whose session lasts is never refused a child it created itself: the
\* session has recorded them all (TrackChild, AuthorizeChildAccess).
OwnChildrenKnown == \A c \in Calls : call[c] = "open" => Own(c) \subseteq childIDs
=============================================================================
