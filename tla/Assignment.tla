---------------------------- MODULE Assignment ----------------------------
(***************************************************************************)
(* What the operator may rely on when it pushes one Workitem to one        *)
(* sidecar with AssignWork: every call is answered at most once, at most   *)
(* one call has the Workitem at a time, a call that is refused reaches no  *)
(* handler, and an answer that speaks for the handler is given only after  *)
(* that handler returned.  An answer that a call failed promises nothing:  *)
(* its handler may go on.                                                  *)
(***************************************************************************)
EXTENDS Integers

CONSTANT Calls     \* the AssignWork calls for the Workitem, in their order

VARIABLES
  answer,    \* "none" before the call, "open" until it is answered
  outcome    \* what the handler of a call is doing or returned

Answers == {"none", "open", "accepted", "rejected", "exists", "failed"}
Outcomes == {"none", "working", "returned", "erred", "dead"}

Init ==
  /\ answer = [c \in Calls |-> "none"]
  /\ outcome = [c \in Calls |-> "none"]

Taken == \E c \in Calls : answer[c] = "open"

Accept(c) ==
  /\ answer[c] = "none" /\ ~Taken
  /\ answer' = [answer EXCEPT ![c] = "open"]
  /\ outcome' = [outcome EXCEPT ![c] = "working"]

Refuse(c) ==
  /\ answer[c] = "none" /\ Taken
  /\ answer' = [answer EXCEPT ![c] = "exists"]
  /\ UNCHANGED outcome

\* A handler ends whether or not someone still waits for it.
End(c) ==
  /\ outcome[c] = "working"
  /\ \E o \in {"returned", "erred"} : outcome' = [outcome EXCEPT ![c] = o]
  /\ UNCHANGED answer

Return(c) ==
  /\ answer[c] = "open"
  /\ \/ outcome[c] = "returned" /\ answer' = [answer EXCEPT ![c] = "accepted"]
     \/ outcome[c] = "erred" /\ answer' = [answer EXCEPT ![c] = "rejected"]
  /\ UNCHANGED outcome

\* The call fails; with it, perhaps, the process its handler runs in.
Fail(c) ==
  /\ answer[c] = "open"
  /\ answer' = [answer EXCEPT ![c] = "failed"]
  /\ outcome' \in {outcome, [outcome EXCEPT ![c] = "dead"]}

Next == \E c \in Calls : Accept(c) \/ Refuse(c) \/ End(c) \/ Return(c) \/ Fail(c)

Spec == Init /\ [][Next]_<<answer, outcome>>
=============================================================================
