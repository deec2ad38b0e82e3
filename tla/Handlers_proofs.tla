-------------------------- MODULE Handlers_proofs --------------------------
(***************************************************************************)
(* Proofs about Handlers: to the operator a sidecar is an Assignment,      *)
(* whatever the handler and the timers do, a session knows the children    *)
(* that its handler created, and AwaitAll answers when all have ended.     *)
(***************************************************************************)
EXTENDS Handlers, FiniteSetTheorems, TLAPS

Idle == {"none", "returned", "erred", "dead"}
Busy == HumanPlaces \cup AwaitPlaces \cup {"begin"}

\* The session that is registered is that of the one open call, and a handler
\* was started exactly by the calls that were not refused.
Sessions ==
  /\ call \in [Calls -> Answers] /\ pc \in [Calls -> Busy \cup Idle]
  /\ holder \in Calls \cup {0}
  /\ \A c \in Calls : call[c] = "open" <=> holder = c
  /\ \A c \in Calls : call[c] \in {"none", "exists"} => pc[c] = "none"

-----------------------------------------------------------------------------
(* What the parts do to the state the operator sees.                       *)

\* The steps of handlers and of what surrounds them.
Inner == Human \/ Parent \/ ((\E c \in Calls : Heartbeat(c)) /\ Beside)

\* A step of a handler keeps the calls and takes one handler, that was at work,
\* to another place.
Works ==
  /\ UNCHANGED <<call, holder>>
  /\ \/ UNCHANGED pc
     \/ \E c \in Calls : \E place \in Busy \cup {"erred", "returned"} : pc[c] \notin Idle /\ Goto(c, place)

LEMMA HumanWorks == ASSUME Human PROVE Works
<1>1. CASE Outside
  BY <1>1 DEF Outside, callVars, Works
<1>2. ASSUME NEW c \in Calls, HumanHandler(c) PROVE Works
  <2>1. UNCHANGED <<call, holder>>
    BY <1>2 DEF HumanHandler, Enqueue, PauseTimer, GetItem, Subscribe, Receive, StreamDrops,
                ResumeTimer, Dispatch, Quiet, callVars
  <2>2. pc[c] \notin Idle
    BY <1>2 DEF HumanHandler, Enqueue, PauseTimer, GetItem, Subscribe, Receive, StreamDrops,
                ResumeTimer, Dispatch, Idle
  <2>3. \E place \in HumanPlaces \cup {"erred", "returned"} : Goto(c, place)
    BY <1>2 DEF HumanHandler, Enqueue, PauseTimer, GetItem, Subscribe, Receive, StreamDrops,
                ResumeTimer, Dispatch, Errs, HumanPlaces
  <2> QED BY <2>1, <2>2, <2>3 DEF Works, Busy
<1> QED BY <1>1, <1>2 DEF Human, Works

LEMMA ParentWorks == ASSUME Parent PROVE Works
<1>1. CASE Around
  BY <1>1 DEF Around, callVars, Works
<1>2. ASSUME NEW c \in Calls, ParentHandler(c) PROVE Works
  <2>1. UNCHANGED <<call, holder>>
    BY <1>2 DEF ParentHandler, ParentStep, CreateChild, Event, Attach, Await, Registers, Snapshot,
                Closed, Poll, Collect, FanOutFails, PollFails, callVars
  <2>2. UNCHANGED pc \/ pc[c] \notin Idle
    BY <1>2 DEF ParentHandler, ParentStep, CreateChild, Event, Attach, Await, Registers, Snapshot,
                Closed, Poll, Tick, Collect, FanOutFails, PollFails, Idle
  <2>3. UNCHANGED pc \/ \E place \in AwaitPlaces \cup {"begin", "erred", "returned"} : Goto(c, place)
    BY <1>2 DEF ParentHandler, ParentStep, CreateChild, Event, Attach, Await, Registers, Snapshot,
                Closed, Poll, Collect, FanOutFails, PollFails, Leaves, AwaitPlaces
  <2> QED BY <2>1, <2>2, <2>3 DEF Works, Busy
<1> QED BY <1>1, <1>2 DEF Parent

LEMMA InnerWorks == ASSUME Inner PROVE Works
<1>1. CASE \E c \in Calls : Heartbeat(c)
  BY <1>1 DEF Heartbeat, callVars, Works
<1> QED BY <1>1, HumanWorks, ParentWorks, Zenon DEF Inner

\* The steps of the sidecar that are left.
Call(c) == Assign(c) \/ GivesUp(c) \/ Fires(c) \/ Expires(c) \/ Replies(c) \/ ProcessFails(c)

LEMMA NextSplits == ASSUME Next PROVE Inner \/ \E c \in Calls : Call(c) /\ Beside
<1>1. ASSUME NEW c \in Calls, Sidecar(c), Beside PROVE Inner \/ (Call(c) /\ Beside)
  <2>1. Heartbeat(c) \/ Call(c)
    BY <1>1, Zenon DEF Sidecar, Call
  <2>2. Heartbeat(c) => Inner
    BY <1>1, Zenon DEF Inner
  <2> QED BY <1>1, <2>1, <2>2, Zenon
<1>2. Human \/ Parent \/ ((\E c \in Calls : Sidecar(c)) /\ Beside)
  BY DEF Next
<1>3. CASE Human \/ Parent
  BY <1>3, Zenon DEF Inner
<1>4. CASE (\E c \in Calls : Sidecar(c)) /\ Beside
  BY <1>1, <1>4, Zenon
<1> QED BY <1>2, <1>3, <1>4, Zenon

-----------------------------------------------------------------------------
(* The calls and the sessions.                                             *)

LEMMA SessionsInit == ASSUME Init PROVE Sessions
BY SessionAssumption DEF Init, SessionInit, Sessions, Answers, Idle

LEMMA SessionsNext == ASSUME Sessions, [Next]_vars PROVE Sessions'
<1> USE DEF Sessions
<1>1. CASE UNCHANGED vars
  BY <1>1 DEF vars
<1>2. CASE Inner
  BY <1>2, InnerWorks DEF Works, Goto, Idle
<1>3. ASSUME NEW c \in Calls, Call(c) PROVE Sessions'
  <2>1. CASE Assign(c)
    BY <2>1, SessionAssumption DEF Assign, MayAssign, Register, Goto, Answers, Busy
  <2>2. CASE GivesUp(c) \/ Fires(c) \/ Expires(c)
    BY <2>2 DEF GivesUp, Fires, Expires
  <2>3. CASE Replies(c)
    BY <2>3, SessionAssumption DEF Replies, Answered, Spoken, Answers
  <2>4. CASE ProcessFails(c)
    BY <2>4, SessionAssumption DEF ProcessFails, Answered, Failure, Answers, Goto, Idle, Fault
  <2> QED BY <1>3, <2>1, <2>2, <2>3, <2>4 DEF Call
<1> QED BY <1>1, <1>2, <1>3, NextSplits

\* Sessions is an invariant: the sidecar has one session at a time, that of the
\* open call (AssignWork's check of s.sessions under its mutex).
THEOREM OneSession == Spec => []Sessions
<1> QED BY SessionsInit, SessionsNext, PTL DEF Spec

-----------------------------------------------------------------------------
(* The refinement.                                                         *)

LEMMA InitMaps == ASSUME Init PROVE A!Init
BY DEF Init, SessionInit, A!Init, AbstractAnswer, AbstractOutcome

LEMMA InnerMaps ==
  ASSUME Sessions, Inner PROVE [A!Next]_<<AbstractAnswer, AbstractOutcome>>
<1>1. AbstractAnswer' = AbstractAnswer
  BY InnerWorks DEF Works, AbstractAnswer
<1>2. CASE UNCHANGED pc
  BY <1>1, <1>2 DEF AbstractOutcome
<1>3. ASSUME NEW c \in Calls, NEW place \in Busy \cup {"erred", "returned"},
             pc[c] \notin Idle, Goto(c, place)
      PROVE  [A!Next]_<<AbstractAnswer, AbstractOutcome>>
  <2>1. pc' = [pc EXCEPT ![c] = place] /\ DOMAIN pc = Calls
    BY <1>3 DEF Goto, Sessions
  <2>2. CASE place \in Busy
    <3>1. AbstractOutcome' = AbstractOutcome
      BY <1>3, <2>1, <2>2 DEF AbstractOutcome, Busy, HumanPlaces, AwaitPlaces, Idle
    <3> QED BY <1>1, <3>1
  <2>3. CASE place \in {"erred", "returned"}
    <3>1. AbstractOutcome[c] = "working"
      BY <1>3 DEF AbstractOutcome, Idle
    <3>2. AbstractOutcome' = [AbstractOutcome EXCEPT ![c] = place]
      BY <2>1, <2>3 DEF AbstractOutcome
    <3>3. A!End(c)
      BY <1>1, <2>3, <3>1, <3>2 DEF A!End
    <3> QED BY <3>3 DEF A!Next
  <2> QED BY <1>3, <2>2, <2>3
<1> QED BY <1>2, <1>3, InnerWorks DEF Works

LEMMA AssignMaps ==
  ASSUME Sessions, NEW c \in Calls, Assign(c) PROVE A!Accept(c) \/ A!Refuse(c)
<1>1. AbstractAnswer[c] = "none"
  BY DEF Assign, MayAssign, AbstractAnswer
<1>2. A!Taken <=> holder # 0
  BY SessionAssumption DEF Sessions, A!Taken, AbstractAnswer
<1>3. CASE holder = 0
  <2>1. AbstractAnswer' = [AbstractAnswer EXCEPT ![c] = "open"]
    BY <1>3 DEF Assign, Register, AbstractAnswer, Sessions
  <2>2. AbstractOutcome' = [AbstractOutcome EXCEPT ![c] = "working"]
    BY <1>3 DEF Assign, Register, Goto, AbstractOutcome, Sessions
  <2> QED BY <1>1, <1>2, <1>3, <2>1, <2>2 DEF A!Accept
<1>4. CASE holder # 0
  <2>1. AbstractAnswer' = [AbstractAnswer EXCEPT ![c] = "exists"]
    BY <1>4 DEF Assign, Register, AbstractAnswer, Sessions
  <2>2. AbstractOutcome' = AbstractOutcome
    BY <1>4 DEF Assign, Register, AbstractOutcome
  <2> QED BY <1>1, <1>2, <1>4, <2>1, <2>2 DEF A!Refuse
<1> QED BY <1>3, <1>4

LEMMA ReplyMaps == ASSUME Sessions, NEW c \in Calls, Replies(c) PROVE A!Return(c)
<1>1. AbstractAnswer[c] = "open" /\ UNCHANGED AbstractOutcome
  BY DEF Replies, AbstractAnswer, AbstractOutcome
<1>2. AbstractAnswer' = [AbstractAnswer EXCEPT ![c] = Spoken(c)]
  BY DEF Replies, Answered, Spoken, AbstractAnswer, Sessions
<1>3. AbstractOutcome[c] = pc[c] /\ pc[c] \in {"returned", "erred"}
  BY DEF Replies, Ended, AbstractOutcome
<1> QED BY <1>1, <1>2, <1>3 DEF Spoken, A!Return

LEMMA FailureMaps == ASSUME Sessions, NEW c \in Calls, ProcessFails(c) PROVE A!Fail(c)
<1>1. AbstractAnswer[c] = "open"
  BY DEF ProcessFails, AbstractAnswer
<1>2. AbstractAnswer' = [AbstractAnswer EXCEPT ![c] = "failed"]
  BY DEF ProcessFails, Answered, Failure, AbstractAnswer, Sessions
<1>3. AbstractOutcome' \in {AbstractOutcome, [AbstractOutcome EXCEPT ![c] = "dead"]}
  BY DEF ProcessFails, Goto, AbstractOutcome, Sessions
<1> QED BY <1>1, <1>2, <1>3 DEF A!Fail

LEMMA StepMaps ==
  ASSUME Sessions, [Next]_vars PROVE [A!Next]_<<AbstractAnswer, AbstractOutcome>>
<1>1. CASE UNCHANGED vars
  BY <1>1 DEF vars, AbstractAnswer, AbstractOutcome
<1>2. CASE Inner
  BY <1>2, InnerMaps
<1>3. ASSUME NEW c \in Calls, Call(c) PROVE [A!Next]_<<AbstractAnswer, AbstractOutcome>>
  <2>1. CASE Assign(c)
    BY <2>1, AssignMaps DEF A!Next
  <2>2. CASE GivesUp(c) \/ Fires(c) \/ Expires(c)
    BY <2>2 DEF GivesUp, Fires, Expires, AbstractAnswer, AbstractOutcome
  <2>3. CASE Replies(c)
    BY <2>3, ReplyMaps DEF A!Next
  <2>4. CASE ProcessFails(c)
    BY <2>4, FailureMaps DEF A!Next
  <2> QED BY <1>3, <2>1, <2>2, <2>3, <2>4 DEF Call
<1> QED BY <1>1, <1>2, <1>3, NextSplits

\* The sidecar implements Assignment, for any number of calls, children and
\* faults: whatever timers, cancellations and late handlers do inside.
THEOREM SidecarImplementsAssignment == Spec => ImplementsAssignment
<1> QED BY InitMaps, StepMaps, OneSession, PTL DEF Spec, ImplementsAssignment, A!Spec

-----------------------------------------------------------------------------
(* The children a session knows.                                           *)

\* A handler created children only after it was started, and the session that
\* is registered has recorded all those of its handler.
Recorded ==
  /\ creator \in [Children -> Calls \cup {0}]
  /\ \A c \in Calls : pc[c] = "none" => Own(c) = {}
  /\ OwnChildrenKnown

LEMMA RecordedInit == ASSUME Init PROVE Recorded
BY SessionAssumption DEF Init, SessionInit, AwaitInit, Recorded, OwnChildrenKnown, Own

LEMMA RecordedNext == ASSUME Sessions, Recorded, [Next]_vars PROVE Recorded'
<1> USE DEF Recorded, OwnChildrenKnown, Own
<1>1. CASE UNCHANGED vars
  BY <1>1 DEF vars
<1>2. CASE Inner
  <2>1. call' = call /\ \A c \in Calls : pc'[c] = "none" => pc[c] = "none"
    BY <1>2, InnerWorks DEF Works, Goto, Sessions, Busy, HumanPlaces, AwaitPlaces, Idle
  <2>2. CASE UNCHANGED <<creator, childIDs>>
    BY <2>1, <2>2
  <2>3. ASSUME NEW c \in Calls, NEW k \in Children, CreateChild(c, k) PROVE Recorded'
    <3>1. creator' = [creator EXCEPT ![k] = c] /\ pc[c] = "begin" /\ childIDs' = Tracked(k)
      BY <2>3 DEF CreateChild
    <3>2. \A d \in Calls : pc'[d] = "none" => Own(d)' = {}
      BY <2>1, <3>1
    <3>3. \A d \in Calls : call'[d] = "open" => Own(d)' \subseteq childIDs'
      BY <2>1, <3>1, SessionAssumption DEF Tracked, Sessions
    <3> QED BY <3>1, <3>2, <3>3
  <2>4. UNCHANGED <<creator, childIDs>> \/ \E c \in Calls, k \in Children : CreateChild(c, k)
    <3>1. CASE Human
      BY <3>1 DEF Human, awaitVars
    <3>2. CASE Around
      BY <3>2 DEF Around, Finishes, Shows, Closes, childVars
    <3>3. ASSUME NEW c \in Calls, ParentHandler(c)
          PROVE  UNCHANGED <<creator, childIDs>> \/ \E k \in Children : CreateChild(c, k)
      BY <3>3 DEF ParentHandler, ParentStep, Event, Attach, Await, Registers, Snapshot, Closed,
                  Poll, Collect, FanOutFails, PollFails, childVars, awaitVars
    <3>4. CASE (\E c \in Calls : Heartbeat(c)) /\ Beside
      BY <3>4, SessionAssumption DEF Heartbeat, callVars, Beside, Forget
    <3> QED BY <1>2, <3>1, <3>2, <3>3, <3>4 DEF Inner, Parent
  <2> QED BY <2>2, <2>3, <2>4
<1>3. ASSUME NEW c \in Calls, Call(c), Beside PROVE Recorded'
  <2>1. creator' = creator /\ childIDs' = IF holder' = holder THEN childIDs ELSE {}
    BY <1>3 DEF Beside, Forget
  <2>2. CASE Assign(c)
    BY <2>1, <2>2, SessionAssumption DEF Assign, MayAssign, Register, Goto, Sessions
  <2>3. CASE GivesUp(c) \/ Fires(c) \/ Expires(c)
    BY <2>1, <2>3 DEF GivesUp, Fires, Expires
  <2>4. CASE Replies(c) \/ ProcessFails(c)
    BY <2>1, <2>4, SessionAssumption
    DEF Replies, ProcessFails, Answered, Spoken, Failure, Goto, Sessions, Fault
  <2> QED BY <1>3, <2>2, <2>3, <2>4 DEF Call
<1> QED BY <1>1, <1>2, <1>3, NextSplits

\* A handler whose session lasts is never refused a child it created, however
\* many calls, late handlers and children there are.
THEOREM OwnChildrenAreKnown == Spec => []OwnChildrenKnown
<1>1. Spec => []Recorded
  BY RecordedInit, RecordedNext, OneSession, PTL DEF Spec
<1> QED BY <1>1, PTL DEF Recorded

-----------------------------------------------------------------------------
(* What AwaitAll knows.                                                    *)

\* The operator's list runs behind but invents nothing, and what a handler has
\* read of its stream or its polls did end.
Truthful ==
  /\ phase \in [Children -> {"absent", "active", "terminal"}]
  /\ shown \in [Children -> {"absent", "active", "terminal"}]
  /\ \A k \in Children : shown[k] \in {"absent", phase[k]} \/ phase[k] = "terminal"
  /\ events \in [Calls -> SUBSET Children] /\ seen \in [Calls -> SUBSET Children]
  /\ \A c \in Calls : \A k \in events[c] \cup seen[c] : phase[k] = "terminal"

LEMMA TruthfulInit == ASSUME Init PROVE Truthful
BY DEF Init, AwaitInit, None4Each, Truthful

LEMMA TruthfulNext == ASSUME Truthful, [Next]_vars PROVE Truthful'
<1> USE DEF Truthful
<1>1. CASE UNCHANGED <<phase, shown, waitVars>>
  BY <1>1 DEF waitVars
<1>2. ASSUME NEW k \in Children, Finishes(k) PROVE Truthful'
  BY <1>2 DEF Finishes
<1>3. ASSUME NEW k \in Children, Shows(k) PROVE Truthful'
  BY <1>3 DEF Shows, waitVars
<1>4. ASSUME NEW c \in Calls, Closes(c) PROVE Truthful'
  BY <1>4 DEF Closes, childVars
<1>5. ASSUME NEW c \in Calls, ParentHandler(c) PROVE Truthful'
  <2>1. ASSUME NEW k \in Children, CreateChild(c, k) PROVE Truthful'
    BY <2>1 DEF CreateChild, waitVars
  <2>2. CASE UNCHANGED <<phase, shown>> /\ Stops(c)
    BY <2>2 DEF Stops
  <2>3. ASSUME NEW k \in Children, Event(c, k) PROVE Truthful'
    BY <2>2, <2>3 DEF Event, Leaves, childVars
  <2>4. CASE Snapshot(c)
    BY <2>2, <2>4 DEF Snapshot, Leaves, childVars, List, Unfinished
  <2>5. CASE Poll(c)
    BY <2>2, <2>5 DEF Poll, Leaves, childVars, List, Unfinished
  <2>6. CASE Closed(c) \/ PollFails(c)
    BY <2>2, <2>6 DEF Closed, PollFails, Leaves, childVars
  <2>7. CASE Attach(c) \/ Await(c) \/ Registers(c) \/ Collect(c) \/ FanOutFails(c)
    BY <2>7 DEF Attach, Await, Registers, Collect, FanOutFails, childVars, awaitVars
  <2> QED BY <1>5, <2>1, <2>3, <2>4, <2>5, <2>6, <2>7 DEF ParentHandler, ParentStep
<1>6. CASE Next
  <2>1. CASE (\E c \in Calls : Sidecar(c)) /\ Beside
    BY <1>1, <2>1 DEF Beside, waitVars
  <2>2. CASE Human
    BY <1>1, <2>2 DEF Human, awaitVars, waitVars
  <2>3. CASE Parent
    BY <1>2, <1>3, <1>4, <1>5, <2>3 DEF Parent, Around
  <2> QED BY <1>6, <2>1, <2>2, <2>3 DEF Next
<1>7. CASE UNCHANGED vars
  BY <1>1, <1>7 DEF vars, waitVars
<1> QED BY <1>6, <1>7

\* Only AwaitAll leads to the collection of the results.
LEMMA OnlyAwaitAllAnswers ==
  ASSUME Sessions, Next, NEW c \in Calls, pc[c] # pc'[c], pc'[c] = "collect"
  PROVE  Snapshot(c) \/ Closed(c) \/ Poll(c) \/ \E k \in Children : Event(c, k)
<1>1. ASSUME NEW d \in Calls, Sidecar(d) PROVE FALSE
  BY <1>1 DEF Sidecar, Assign, GivesUp, Fires, Expires, Replies, ProcessFails, Heartbeat,
              Goto, Sessions
<1>2. CASE Human
  <2>1. ~Outside
    BY DEF Outside
  <2>2. ASSUME NEW d \in Calls, HumanHandler(d) PROVE FALSE
    BY <2>2 DEF HumanHandler, Enqueue, PauseTimer, GetItem, Subscribe, Receive, StreamDrops,
                ResumeTimer, Dispatch, Errs, Goto, Sessions
  <2> QED BY <1>2, <2>1, <2>2 DEF Human
<1>3. CASE Parent
  <2>1. ~Around
    BY DEF Around
  <2>2. ASSUME NEW d \in Calls, ParentHandler(d), d # c PROVE FALSE
    BY <2>2 DEF ParentHandler, ParentStep, CreateChild, Event, Attach, Await, Registers, Snapshot,
                Closed, Poll, Collect, FanOutFails, PollFails, Leaves, Goto, Sessions
  <2>3. ~\E k \in Children : CreateChild(c, k)
    BY DEF CreateChild, Goto, Sessions
  <2>4. ~(Attach(c) \/ Await(c) \/ Registers(c) \/ Collect(c) \/ FanOutFails(c) \/ PollFails(c))
    BY DEF Attach, Await, Registers, Collect, FanOutFails, PollFails, Goto, Sessions
  <2> QED BY <1>3, <2>1, <2>2, <2>3, <2>4 DEF Parent, ParentHandler, ParentStep
<1> QED BY <1>1, <1>2, <1>3 DEF Next

\* When the operator's list is complete and the stream is open, AwaitAll answers
\* only after every child ended: as many distinct children ended as there are.
LEMMA AnswersLate ==
  ASSUME Sessions, Truthful, Next, NEW c \in Calls, pc[c] # pc'[c], pc'[c] = "collect", Informed(c)
  PROVE  \A k \in Existing : phase[k] = "terminal"
<1>1. CASE List = Existing /\ AllTerminal
  BY <1>1 DEF AllTerminal, Unfinished, List, Existing, Truthful
<1>2. ASSUME NEW k \in Children, Event(c, k) PROVE \A j \in Existing : phase[j] = "terminal"
  <2> DEFINE ended == seen[c] \cup {k}
  <2>1. Enough(c, ended) /\ listed[c] = Existing
    BY <1>2 DEF Event, Informed
  <2>2. ended \subseteq Existing /\ \A j \in ended : phase[j] = "terminal"
    BY <1>2 DEF Event, Truthful, Existing
  <2>3. IsFiniteSet(Existing)
    BY ChildrenAssumption, FS_Subset DEF Existing
  <2>4. Cardinality(ended) >= Cardinality(Existing)
    BY <2>1 DEF Enough
  <2>5. ended = Existing
    BY <2>2, <2>3, <2>4, FS_Subset, FS_CardinalityType
  <2> QED BY <2>2, <2>5
<1>3. ~Closed(c)
  BY DEF Closed, Informed
<1>4. Snapshot(c) \/ Poll(c) => AllTerminal
  BY DEF Snapshot, Poll, Goto, Sessions
<1> QED BY <1>1, <1>2, <1>3, <1>4, OnlyAwaitAllAnswers DEF Informed

\* AwaitAll sees all: for any number of children, calls and faults.
THEOREM AwaitAllSeesAll == Spec => AwaitSeesAll
<1>1. Spec => []Truthful
  BY TruthfulInit, TruthfulNext, PTL DEF Spec
<1>2. ASSUME Sessions, Truthful, [Next]_vars
      PROVE  [\A c \in Calls : (pc[c] # pc'[c] /\ pc'[c] = "collect" /\ Informed(c))
                               => \A k \in Existing : phase[k] = "terminal"]_vars
  BY <1>2, AnswersLate
<1> QED BY <1>1, <1>2, OneSession, PTL DEF Spec, AwaitSeesAll
-----------------------------------------------------------------------------
(* The types.                                                              *)

\* What TypeOK says of the timers, the callers and the faults.
TimersFit ==
  /\ timer \in [Calls -> SUBSET {"armed", "fired"}]
  /\ paused \subseteq Calls /\ timedOut \subseteq Calls
  /\ cancelled \subseteq Calls /\ gone \subseteq Calls
  /\ faults \in 0..MaxFaults

\* What it says of the queue and its decisions: none is of a generation that
\* was not minted.
QueueFits ==
  /\ minted \in Nat /\ item \in 0..minted
  /\ news \in Seq(1..minted) /\ inbox \in [Calls -> Seq(1..minted)]
  /\ live \subseteq Calls /\ missed \subseteq Calls

\* What it says of a wait, besides what Truthful does.
WaitsFit ==
  /\ childIDs \subseteq Children
  /\ listed \in [Calls -> SUBSET Children]
  /\ stream \in [Calls -> {"none", "opening", "open", "closed"}]

\* A handler enqueues as its first step and at most once: there are no more
\* generations than handlers that are past it.
Begun == {c \in Calls : pc[c] \notin {"none", "begin"}}
MintedOnce ==
  /\ kind \in {"human", "parent"}
  /\ kind = "parent" => minted = 0
  /\ kind = "human" => minted <= Cardinality(Begun)

LEMMA FitInit == ASSUME Init PROVE TimersFit /\ QueueFits /\ WaitsFit
BY SessionAssumption DEF Init, SessionInit, HumanInit, AwaitInit, None4Each, TimersFit, QueueFits, WaitsFit

LEMMA TimersFitNext == ASSUME Sessions, TimersFit, [Next]_vars PROVE TimersFit'
<1> USE SessionAssumption DEF TimersFit, Sessions
<1>1. CASE UNCHANGED <<timerVars, callVars, faults>>
  BY <1>1 DEF timerVars, callVars
<1>2. ASSUME NEW c \in Calls, Sidecar(c) PROVE TimersFit'
  <2>1. CASE Assign(c)
    BY <2>1 DEF Assign
  <2>2. CASE GivesUp(c)
    BY <2>2 DEF GivesUp, Fault
  <2>3. CASE Fires(c) \/ Expires(c)
    <3>1. timer' \in [Calls -> SUBSET {"armed", "fired"}]
      BY <2>3 DEF Fires, Expires
    <3> QED BY <2>3, <3>1 DEF Fires, Expires, Expired
  <2>4. CASE Replies(c) \/ ProcessFails(c)
    <3>1. \E answer \in Answers : Answered(c, answer)
      BY <2>4 DEF Replies, Spoken, ProcessFails, Failure, Answers
    <3>2. timer' \in [Calls -> SUBSET {"armed", "fired"}]
      BY <3>1 DEF Answered
    <3>3. faults' \in 0..MaxFaults
      BY <2>4 DEF Replies, ProcessFails, Fault
    <3> QED BY <3>1, <3>2, <3>3 DEF Answered
  <2>5. CASE Heartbeat(c)
    BY <2>5 DEF Heartbeat, Rearmed, callVars
  <2> QED BY <1>2, <2>1, <2>2, <2>3, <2>4, <2>5 DEF Sidecar
\* A handler suspends a timer, lets one go on, or leaves them.
<1>3. ASSUME UNCHANGED callVars, UNCHANGED faults \/ Fault, UNCHANGED timerVars \/ (MayPause /\ Pause) \/ (MayResume /\ Resume)
      PROVE  TimersFit'
  <2>1. faults' \in 0..MaxFaults
    BY <1>3 DEF Fault
  <2>2. timer' \in [Calls -> SUBSET {"armed", "fired"}] /\ paused' \subseteq Calls
    <3>1. CASE UNCHANGED timerVars
      BY <3>1 DEF timerVars
    <3>2. CASE MayPause /\ Pause
      BY <3>2 DEF MayPause, Pause
    <3>3. CASE MayResume /\ Resume
      BY <3>3 DEF MayResume, Resume, Rearmed
    <3> QED BY <1>3, <3>1, <3>2, <3>3
  <2> QED BY <1>3, <2>1, <2>2 DEF callVars
<1>4. ASSUME NEW c \in Calls, HumanHandler(c) PROVE TimersFit'
  BY <1>3, <1>4 DEF HumanHandler, Enqueue, PauseTimer, GetItem, Subscribe, Receive, StreamDrops,
                    ResumeTimer, Dispatch, Quiet
<1>5. CASE Outside
  BY <1>3, <1>5 DEF Outside, Vanishes, PublisherDrops
<1>6. ASSUME NEW c \in Calls, ParentHandler(c) PROVE TimersFit'
  <2>1. Leaves(c) => UNCHANGED timerVars \/ (MayResume /\ Resume)
    BY DEF Leaves, ResumeOnce
  <2>2. CASE \E k \in Children : CreateChild(c, k) \/ Event(c, k)
    BY <1>3, <2>1, <2>2 DEF CreateChild, Event, timerVars
  <2>3. CASE Attach(c) \/ Await(c) \/ Registers(c) \/ Collect(c) \/ FanOutFails(c)
    BY <1>3, <2>3 DEF Attach, Await, Registers, Collect, FanOutFails
  <2>4. CASE Snapshot(c) \/ Closed(c) \/ Poll(c) \/ PollFails(c)
    BY <1>3, <2>1, <2>4 DEF Snapshot, Closed, Poll, PollFails, ResumeOnce, timerVars
  <2> QED BY <1>6, <2>2, <2>3, <2>4 DEF ParentHandler, ParentStep
<1>7. CASE Around
  BY <1>3, <1>7 DEF Around, Finishes, Shows, Closes
<1>8. CASE UNCHANGED vars
  BY <1>1, <1>8 DEF vars, timerVars, callVars
<1> QED BY <1>2, <1>4, <1>5, <1>6, <1>7, <1>8 DEF Next, Human, Parent

LEMMA WaitsFitNext == ASSUME WaitsFit, [Next]_vars PROVE WaitsFit'
<1> USE DEF WaitsFit
<1>1. CASE UNCHANGED <<childIDs, listed, stream>>
  BY <1>1
<1>2. CASE Beside
  BY <1>2 DEF Beside, Forget, waitVars
<1>3. CASE Human
  BY <1>1, <1>3 DEF Human, awaitVars
<1>4. CASE Around
  BY <1>4 DEF Around, Finishes, Shows, Closes, childVars, waitVars
<1>5. ASSUME NEW c \in Calls, ParentHandler(c) PROVE WaitsFit'
  <2>1. ASSUME NEW k \in Children, CreateChild(c, k) PROVE WaitsFit'
    BY <2>1 DEF CreateChild, Tracked, waitVars
  <2>2. CASE UNCHANGED childIDs /\ Stops(c)
    BY <2>2 DEF Stops
  <2>3. CASE (\E k \in Children : Event(c, k)) \/ Closed(c) \/ Poll(c) \/ PollFails(c)
    BY <1>1, <2>2, <2>3 DEF Event, Closed, Poll, PollFails, Leaves, childVars
  <2>4. CASE Snapshot(c)
    BY <2>2, <2>4 DEF Snapshot, Leaves, childVars, List
  <2>5. CASE Attach(c) \/ Await(c) \/ Registers(c) \/ Collect(c) \/ FanOutFails(c)
    BY <2>5 DEF Attach, Await, Registers, Collect, FanOutFails, childVars, awaitVars
  <2> QED BY <1>5, <2>1, <2>3, <2>4, <2>5 DEF ParentHandler, ParentStep
<1>6. CASE UNCHANGED vars
  BY <1>1, <1>6 DEF vars
<1> QED BY <1>2, <1>3, <1>4, <1>5, <1>6 DEF Next, Parent

LEMMA MoreGenerations ==
  ASSUME NEW m \in Nat, NEW s \in Seq(1..m) PROVE s \in Seq(1..(m+1))
OBVIOUS

LEMMA QueueFitsNext == ASSUME QueueFits, [Next]_vars PROVE QueueFits'
<1> USE DEF QueueFits
<1>1. CASE UNCHANGED humanVars
  BY <1>1 DEF humanVars
<1>2. ASSUME NEW c \in Calls, HumanHandler(c) PROVE QueueFits'
  <2>1. CASE Enqueue(c)
    <3>1. live' \subseteq Calls /\ UNCHANGED <<missed, news, inbox>>
      BY <2>1 DEF Enqueue, Errs, streamVars
    <3>2. CASE UNCHANGED <<item, minted>>
      BY <3>1, <3>2
    <3>3. CASE minted' = minted + 1 /\ item' = minted + 1
      BY <3>1, <3>3, MoreGenerations
    <3> QED BY <2>1, <3>2, <3>3 DEF Enqueue
  <2>2. CASE PauseTimer(c) \/ GetItem(c) \/ Subscribe(c) \/ ResumeTimer(c) \/ Dispatch(c)
    BY <2>2 DEF PauseTimer, GetItem, Subscribe, ResumeTimer, Dispatch, Errs, queueVars, streamVars, humanVars
  <2>3. CASE Receive(c) \/ StreamDrops(c)
    <3>1. UNCHANGED <<item, minted, news>> /\ live' \subseteq Calls /\ missed' \subseteq Calls
      BY <2>3 DEF Receive, StreamDrops, Errs, queueVars
    <3>2. inbox' = inbox \/ inbox' = [inbox EXCEPT ![c] = <<>>]
      BY <2>3 DEF Receive, StreamDrops, Errs
    <3>3. <<>> \in Seq(1..minted)
      OBVIOUS
    <3>4. inbox' \in [Calls -> Seq(1..minted)]
      BY <3>2, <3>3, Zenon
    <3> QED BY <3>1, <3>4
  <2> QED BY <1>2, <2>1, <2>2, <2>3 DEF HumanHandler
<1>3. CASE Outside
  <2>1. UNCHANGED minted
    BY <1>3 DEF Outside
  <2>2. CASE Decide /\ UNCHANGED streamVars
    BY <2>1, <2>2 DEF Decide, Published, streamVars
  <2>3. CASE Vanishes /\ UNCHANGED streamVars
    BY <2>1, <2>3 DEF Vanishes, Unheard, streamVars
  <2>4. CASE Publish
    <3>1. Head(news) \in 1..minted /\ Tail(news) \in Seq(1..minted)
      BY <2>4 DEF Publish
    <3>2. inbox' \in [Calls -> Seq(1..minted)]
      <4>1. \A c \in Calls : Append(inbox[c], Head(news)) \in Seq(1..minted)
        BY <3>1
      <4> QED BY <2>4, <4>1 DEF Publish
    <3> QED BY <2>1, <2>4, <3>1, <3>2 DEF Publish
  <2>5. CASE PublisherDrops
    BY <2>1, <2>5 DEF PublisherDrops, Unheard, streamVars
  <2> QED BY <1>3, <2>2, <2>3, <2>4, <2>5 DEF Outside
<1>4. CASE UNCHANGED vars
  BY <1>1, <1>4 DEF vars, humanVars
<1> QED BY <1>1, <1>2, <1>3, <1>4 DEF Next, Human, Parent, Beside

LEMMA MintedOnceInit == ASSUME Init, IsFiniteSet(Calls) PROVE MintedOnce
<1>1. Begun = {}
  BY DEF Init, SessionInit, Begun
<1> QED BY <1>1, FS_EmptySet DEF Init, HumanInit, MintedOnce

LEMMA MintedOnceNext ==
  ASSUME Sessions, QueueFits, MintedOnce, IsFiniteSet(Calls), [Next]_vars PROVE MintedOnce'
<1>1. IsFiniteSet(Begun') /\ IsFiniteSet(Begun)
  BY FS_Subset DEF Begun
<1>2. kind' = kind
  BY DEF Next, vars
\* No handler that is past its first step gets back there, unless it fans out.
<1>3. CASE UNCHANGED minted
  <2>1. kind = "human" => Begun \subseteq Begun'
    <3>1. CASE UNCHANGED pc
      BY <3>1 DEF Begun
    <3>2. ASSUME NEW c \in Calls, Sidecar(c) PROVE Begun \subseteq Begun'
      BY <3>2 DEF Sidecar, Assign, MayAssign, GivesUp, Fires, Expires, Replies, ProcessFails, Heartbeat,
                  Goto, Begun, Sessions
    <3>3. ASSUME NEW c \in Calls, HumanHandler(c) PROVE Begun \subseteq Begun'
      BY <3>3 DEF HumanHandler, Enqueue, PauseTimer, GetItem, Subscribe, Receive, StreamDrops,
                  ResumeTimer, Dispatch, Errs, Goto, Begun, Sessions
    <3> QED BY <3>1, <3>2, <3>3 DEF Next, Human, Parent, Outside, vars
  <2>2. kind = "human" => Cardinality(Begun) <= Cardinality(Begun')
    BY <1>1, <2>1, FS_Subset
  <2>3. Cardinality(Begun) \in Nat /\ Cardinality(Begun') \in Nat
    BY <1>1, FS_CardinalityType
  <2> QED BY <1>2, <1>3, <2>2, <2>3 DEF MintedOnce, QueueFits
<1>4. ASSUME NEW c \in Calls, Enqueue(c), kind = "human", minted' = minted + 1 PROVE MintedOnce'
  <2>1. c \notin Begun /\ Begun' = Begun \cup {c}
    BY <1>4 DEF Enqueue, Errs, Goto, Begun, Sessions
  <2>2. Cardinality(Begun') = Cardinality(Begun) + 1
    BY <1>1, <2>1, FS_AddElement
  <2>3. Cardinality(Begun) \in Nat
    BY <1>1, FS_CardinalityType
  <2> QED BY <1>2, <1>4, <2>2, <2>3 DEF MintedOnce, QueueFits
<1>5. UNCHANGED minted \/ (kind = "human" /\ \E c \in Calls : Enqueue(c) /\ minted' = minted + 1)
  <2>1. ASSUME NEW c \in Calls, HumanHandler(c), kind = "human"
        PROVE  UNCHANGED minted \/ (kind = "human" /\ \E d \in Calls : Enqueue(d) /\ minted' = minted + 1)
    <3>1. CASE Enqueue(c)
      <4>1. UNCHANGED minted \/ minted' = minted + 1
        BY <3>1 DEF Enqueue
      <4> QED BY <2>1, <3>1, <4>1
    <3>2. Enqueue(c) \/ UNCHANGED minted
      BY <2>1 DEF HumanHandler, PauseTimer, GetItem, Subscribe, Receive, StreamDrops,
                  ResumeTimer, Dispatch, queueVars, humanVars
    <3> QED BY <3>1, <3>2
  <2>2. Outside => UNCHANGED minted
    BY DEF Outside
  <2>3. Beside \/ Parent \/ UNCHANGED vars => UNCHANGED minted
    BY DEF Beside, Parent, vars, humanVars
  <2> QED BY <2>1, <2>2, <2>3 DEF Next, Human
<1> QED BY <1>3, <1>4, <1>5

\* The types hold, however many calls, children and faults there are: in
\* particular a decision is of a generation some handler was given, and no
\* handler is given two (Enqueue in the HITL handlers).
THEOREM TypesHold ==
  ASSUME IsFiniteSet(Calls), HumanPlaces \cup AwaitPlaces \subseteq Places
  PROVE  Spec => []TypeOK
<1>1. Init => MintedOnce
  BY MintedOnceInit
<1>2. Sessions /\ QueueFits /\ MintedOnce /\ [Next]_vars => MintedOnce'
  BY MintedOnceNext
<1>3. ASSUME Sessions, Recorded, Truthful, TimersFit, QueueFits, WaitsFit, MintedOnce PROVE TypeOK
  <2>1. SessionTypeOK
    BY <1>3, SessionAssumption DEF Sessions, TimersFit, SessionTypeOK, Busy, Idle
  <2>2. AwaitTypeOK
    BY <1>3 DEF Recorded, Truthful, WaitsFit, AwaitTypeOK
  <2>3. minted <= Cardinality(Calls)
    <3>1. Cardinality(Calls) \in Nat /\ Cardinality(Begun) \in Nat /\ Cardinality(Begun) <= Cardinality(Calls)
      BY FS_Subset, FS_CardinalityType DEF Begun
    <3> QED BY <1>3, <3>1 DEF MintedOnce, QueueFits
  <2>4. HumanTypeOK
    <3>1. Cardinality(Calls) \in Nat
      BY FS_CardinalityType
    <3> QED BY <1>3, <2>3, <3>1 DEF QueueFits, HumanTypeOK
  <2> QED BY <1>3, <2>1, <2>2, <2>4 DEF MintedOnce, TypeOK
<1>4. Spec => []Recorded
  BY RecordedInit, RecordedNext, OneSession, PTL DEF Spec
<1>5. Spec => []Truthful
  BY TruthfulInit, TruthfulNext, PTL DEF Spec
<1>6. Spec => [](TimersFit /\ QueueFits /\ WaitsFit)
  BY FitInit, TimersFitNext, WaitsFitNext, QueueFitsNext, OneSession, PTL DEF Spec
<1>7. Spec => []MintedOnce
  BY <1>1, <1>2, <1>6, OneSession, PTL DEF Spec
<1> QED BY <1>3, <1>4, <1>5, <1>6, <1>7, OneSession, PTL
=============================================================================
