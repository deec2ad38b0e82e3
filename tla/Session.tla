------------------------------ MODULE Session ------------------------------
(***************************************************************************)
(* The assignment sessions of one Workitem in one sidecar.  AssignWork     *)
(* registers a session, forwards the assignment to the user code and       *)
(* answers with what the handler returned, or fails when the session's     *)
(* context is cancelled: by the inactivity timer, or because the caller    *)
(* is gone.  The handler's process is not told more than that: a handler   *)
(* that does not look at its context goes on, and its calls to Heartbeat,  *)
(* PauseTimer and ResumeTimer name the Workitem, not the assignment.       *)
(*                                                                         *)
(* What a handler does is the business of the modules that extend this     *)
(* one; here it only begins, and ends at "returned" or "erred".            *)
(***************************************************************************)
EXTENDS Integers, FiniteSets

CONSTANTS
  Calls,        \* the operator's AssignWork calls, in their order
  Places,       \* where a handler can be between its begin and its end
  MaxFaults     \* callers that go away, lost messages and dead user code

ASSUME SessionAssumption ==
  /\ Calls \subseteq Nat /\ 0 \notin Calls
  /\ "begin" \in Places /\ Places \cap {"none", "returned", "erred", "dead"} = {}
  /\ MaxFaults \in Nat

VARIABLES
  call,        \* the answer to each call, "open" until it is given
  holder,      \* the call whose session is registered for the Workitem, or 0
  timer,       \* per session: armed, and fired with its goroutine still to run
  paused,      \* sessions whose timer is suspended
  timedOut,    \* sessions that timed out
  cancelled,   \* sessions whose context is cancelled
  gone,        \* calls whose caller no longer waits
  pc,          \* where the handler of each call is
  faults

timerVars == <<timer, paused>>
callVars == <<call, holder, timedOut, cancelled, gone>>

Answers == {"none", "open", "accepted", "rejected", "exists", "deadline", "internal"}

SessionTypeOK ==
  /\ call \in [Calls -> Answers]
  /\ holder \in Calls \cup {0}
  /\ timer \in [Calls -> SUBSET {"armed", "fired"}]
  /\ {paused, timedOut, cancelled, gone} \subseteq SUBSET Calls
  /\ pc \in [Calls -> Places \cup {"none", "returned", "erred", "dead"}]
  /\ faults \in 0..MaxFaults

SessionInit ==
  /\ call = [c \in Calls |-> "none"]
  /\ holder = 0
  /\ timer = [c \in Calls |-> {}]
  /\ paused = {} /\ timedOut = {} /\ cancelled = {} /\ gone = {}
  /\ pc = [c \in Calls |-> "none"]
  /\ faults = 0

Fault == faults < MaxFaults /\ faults' = faults + 1
Goto(c, place) == pc' = [pc EXCEPT ![c] = place]

-----------------------------------------------------------------------------
(* AssignWork.                                                             *)

\* The operator has one call at a time for a Workitem, unless it restarted.
MayAssign(c) ==
  /\ call[c] = "none"
  /\ \A d \in Calls : d < c => call[d] # "none" /\ (call[d] = "open" => d \in gone)

\* Mutant of Register: a second assignment replaces the first.
RegisterAlways(c) == TRUE
Register(c) == holder = 0

Assign(c) ==
  /\ MayAssign(c)
  /\ IF Register(c)
     THEN /\ call' = [call EXCEPT ![c] = "open"]
          /\ holder' = c
          /\ timer' = [timer EXCEPT ![c] = {"armed"}]
          /\ Goto(c, "begin")
     ELSE /\ call' = [call EXCEPT ![c] = "exists"]
          /\ UNCHANGED <<holder, timer, pc>>
  /\ UNCHANGED <<paused, timedOut, cancelled, gone, faults>>

\* The caller's context ends: the operator restarts.
GivesUp(c) ==
  /\ call[c] = "open" /\ c \notin gone
  /\ Fault
  /\ gone' = gone \cup {c}
  /\ cancelled' = cancelled \cup {c}
  /\ UNCHANGED <<call, holder, timer, paused, timedOut, pc>>

\* The timer elapses; its goroutine waits for the session's mutex.
Fires(c) ==
  /\ "armed" \in timer[c]
  /\ timer' = [timer EXCEPT ![c] = {"fired"}]
  /\ UNCHANGED <<call, holder, paused, timedOut, cancelled, gone, pc, faults>>

\* Mutant of Expired: the session is marked, its context goes on.
ExpiredQuietly(c) == cancelled
Expired(c) == cancelled \cup {c}

\* The goroutine asks neither whether the session was paused meanwhile nor
\* whether a heartbeat was acknowledged.
Expires(c) ==
  /\ "fired" \in timer[c]
  /\ timer' = [timer EXCEPT ![c] = @ \ {"fired"}]
  /\ timedOut' = timedOut \cup {c}
  /\ cancelled' = Expired(c)
  /\ UNCHANGED <<call, holder, paused, gone, pc, faults>>

\* The deferred cleanup: stop the timer, remove the own session only.  With the
\* call its context ends.
Answered(c, answer) ==
  /\ call' = [call EXCEPT ![c] = answer]
  /\ timer' = [timer EXCEPT ![c] = @ \ {"armed"}]
  /\ holder' = IF holder = c THEN 0 ELSE holder
  /\ cancelled' = cancelled \cup {c}
  /\ UNCHANGED <<paused, timedOut, gone>>

Spoken(c) == IF pc[c] = "returned" THEN "accepted" ELSE "rejected"

\* Mutant of Ended: the handler runs in the background, the answer does not wait.
EndedEarly(c) == pc[c] # "none"
Ended(c) == pc[c] \in {"returned", "erred"}

Replies(c) ==
  /\ call[c] = "open" /\ Ended(c)
  /\ Answered(c, Spoken(c))
  /\ UNCHANGED <<pc, faults>>

Failure(c) == IF c \in timedOut THEN "deadline" ELSE "internal"

\* Process returns an error: the context is cancelled, the connection to the
\* user code cannot be made or breaks, or the user code dies.
ProcessFails(c) ==
  /\ call[c] = "open"
  /\ \/ c \in cancelled /\ UNCHANGED <<pc, faults>>
     \/ Fault /\ (UNCHANGED pc \/ Goto(c, "dead"))
  /\ Answered(c, Failure(c))

-----------------------------------------------------------------------------
(* The timer operations a handler calls.  They reach the session that is   *)
(* registered for the Workitem now.                                        *)

MayPause == holder # 0 /\ holder \notin paused \cup timedOut
Pause ==
  /\ paused' = paused \cup {holder}
  /\ timer' = [timer EXCEPT ![holder] = @ \ {"armed"}]

MayResume == holder # 0 /\ holder \in paused \ timedOut

\* Mutant of Rearmed: the pause ends and the timer stays off.
RearmedNever == timer
Rearmed == [timer EXCEPT ![holder] = @ \cup {"armed"}]

Resume ==
  /\ paused' = paused \ {holder}
  /\ timer' = Rearmed

\* A heartbeat is acknowledged whether or not it has an effect.
Heartbeat(c) ==
  /\ pc[c] = "begin"
  /\ holder # 0 /\ holder \notin paused \cup timedOut
  /\ timer' = Rearmed
  /\ UNCHANGED <<callVars, paused, pc, faults>>

Sidecar(c) == Assign(c) \/ GivesUp(c) \/ Fires(c) \/ Expires(c) \/ Replies(c) \/ ProcessFails(c) \/ Heartbeat(c)
=============================================================================
