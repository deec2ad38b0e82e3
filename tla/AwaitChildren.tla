--------------------------- MODULE AwaitChildren ---------------------------
(***************************************************************************)
(* A handler that fans out children and waits for them: FanOut, AwaitAll,  *)
(* and the collection of the children's artefacts through the sidecar,     *)
(* which remembers per session whose children it has seen created.  The    *)
(* list of children is the operator's cached one; the events come from the *)
(* Event Bus, replay nothing, and are helped by a poll.  None of this      *)
(* looks at the handler's context.                                         *)
(***************************************************************************)
EXTENDS Session

CONSTANTS Children      \* the children the Workitem can have

ASSUME ChildrenAssumption == IsFiniteSet(Children)

VARIABLES
  phase,      \* of each child: absent, active or terminal
  shown,      \* the phase the operator's cache shows
  creator,    \* the call whose handler created the child, or 0
  childIDs,   \* the children the registered session has recorded
  stream,     \* per handler: none, opening, open or closed
  events,     \* children whose end waits in the stream of each handler
  seen,       \* awaitStreaming: the children known to have ended
  listed      \* the children of the first snapshot

childVars == <<phase, shown, creator, childIDs>>
waitVars == <<stream, events, seen, listed>>
awaitVars == <<phase, shown, creator, childIDs, stream, events, seen, listed>>

AwaitPlaces == {"attach", "await", "snapshot", "streaming", "polling", "collect"}

AwaitTypeOK ==
  /\ {phase, shown} \subseteq [Children -> {"absent", "active", "terminal"}]
  /\ creator \in [Children -> Calls \cup {0}]
  /\ childIDs \subseteq Children
  /\ {events, seen, listed} \subseteq [Calls -> SUBSET Children]
  /\ stream \in [Calls -> {"none", "opening", "open", "closed"}]

None4Each == [c \in Calls |-> {}]

AwaitInit ==
  /\ phase = [k \in Children |-> "absent"] /\ shown = phase
  /\ creator = [k \in Children |-> 0]
  /\ childIDs = {}
  /\ events = None4Each /\ seen = None4Each /\ listed = None4Each
  /\ stream = [c \in Calls |-> "none"]

Existing == {k \in Children : phase[k] # "absent"}
List == {k \in Children : shown[k] # "absent"}
Unfinished == {k \in List : shown[k] # "terminal"}
Own(c) == {k \in Children : creator[k] = c}

\* allTerminal: no child at all is not an end.
AllTerminal == List # {} /\ Unfinished = {}

\* TrackChild: a no-op without a session.  The key is the Workitem.
Tracked(k) == IF holder = 0 THEN childIDs ELSE childIDs \cup {k}

\* What a session recorded goes with it.
Forget == childIDs' = IF holder' = holder THEN childIDs ELSE {}

\* The deferred ResumeTimer of AwaitAll, whose error is ignored.
ResumeOnce == IF MayResume THEN Resume ELSE UNCHANGED timerVars

-----------------------------------------------------------------------------
(* FanOut.                                                                 *)

CreateChild(c, k) ==
  /\ pc[c] = "begin" /\ phase[k] = "absent"
  /\ phase' = [phase EXCEPT ![k] = "active"]
  /\ creator' = [creator EXCEPT ![k] = c]
  /\ childIDs' = Tracked(k)
  /\ Goto(c, "attach")
  /\ UNCHANGED <<callVars, timerVars, faults, shown, waitVars>>

\* StoreArtefact on the child: a write needs a session that recorded it.  The
\* last task ends the fan-out, a failure of any step ends the handler.
Attach(c) ==
  /\ pc[c] = "attach"
  /\ \/ holder # 0 /\ Own(c) \subseteq childIDs /\ UNCHANGED faults
        /\ \/ Existing # Children /\ Goto(c, "begin")
           \/ Goto(c, "await")
     \/ (holder = 0 \/ ~Own(c) \subseteq childIDs) /\ Goto(c, "erred") /\ UNCHANGED faults
     \/ Fault /\ Goto(c, "erred")
  /\ UNCHANGED <<callVars, timerVars, awaitVars>>

\* A create fails, or the handler has other reasons to give up.
FanOutFails(c) ==
  /\ pc[c] = "begin"
  /\ Fault
  /\ Goto(c, "erred")
  /\ UNCHANGED <<callVars, timerVars, awaitVars>>

-----------------------------------------------------------------------------
(* AwaitAll.                                                               *)

\* PauseTimer, then the watch: Subscribe returns before the bus has registered
\* the subscriber, or fails and leaves the poll alone.
Await(c) ==
  /\ pc[c] = "await"
  /\ \/ /\ MayPause /\ Pause
        /\ \/ stream' = [stream EXCEPT ![c] = "opening"] /\ Goto(c, "snapshot") /\ UNCHANGED faults
           \/ Fault /\ Goto(c, "polling") /\ UNCHANGED stream
     \/ /\ ~MayPause /\ Goto(c, "erred")
        /\ UNCHANGED <<timerVars, stream, faults>>
  /\ UNCHANGED <<callVars, childVars, events, seen, listed>>

Registers(c) ==
  /\ stream[c] = "opening"
  /\ stream' = [stream EXCEPT ![c] = "open"]
  /\ UNCHANGED <<callVars, timerVars, pc, faults, childVars, events, seen, listed>>

Stops(c) ==
  /\ stream' = [stream EXCEPT ![c] = "none"]
  /\ events' = [events EXCEPT ![c] = {}]
  /\ seen' = [seen EXCEPT ![c] = {}]
  /\ listed' = [listed EXCEPT ![c] = {}]

\* AwaitAll returns the list as the cache shows it and stops the watcher.
Leaves(c) == Goto(c, "collect") /\ ResumeOnce /\ Stops(c)

Snapshot(c) ==
  /\ pc[c] = "snapshot"
  /\ \/ AllTerminal /\ Leaves(c) /\ UNCHANGED faults
     \/ ~AllTerminal
        /\ seen' = [seen EXCEPT ![c] = List \ Unfinished]
        /\ listed' = [listed EXCEPT ![c] = List]
        /\ Goto(c, "streaming")
        /\ UNCHANGED <<timerVars, stream, events, faults>>
     \/ Fault /\ Goto(c, "polling") /\ Stops(c) /\ UNCHANGED timerVars
  /\ UNCHANGED <<callVars, childVars>>

\* Mutant of Enough: one child short.
EnoughButOne(c, ended) == Cardinality(ended) + 1 >= Cardinality(listed[c])
Enough(c, ended) == Cardinality(ended) >= Cardinality(listed[c])

Event(c, k) ==
  /\ pc[c] = "streaming" /\ k \in events[c]
  /\ IF Enough(c, seen[c] \cup {k})
     THEN Leaves(c)
     ELSE /\ seen' = [seen EXCEPT ![c] = @ \cup {k}]
          /\ events' = [events EXCEPT ![c] = @ \ {k}]
          /\ UNCHANGED <<timerVars, pc, stream, listed>>
  /\ UNCHANGED <<callVars, faults, childVars>>

\* The channel is closed: whatever the children are doing, AwaitAll answers.
Closed(c) ==
  /\ pc[c] = "streaming" /\ stream[c] = "closed" /\ events[c] = {}
  /\ Leaves(c)
  /\ UNCHANGED <<callVars, faults, childVars>>

\* Mutant of Tick: the ticker is forgotten.
TickNever(c) == FALSE
Tick(c) == pc[c] \in {"streaming", "polling"}

Poll(c) ==
  /\ Tick(c)
  /\ IF AllTerminal
     THEN Leaves(c)
     ELSE /\ pc[c] = "streaming"
          /\ seen' = [seen EXCEPT ![c] = @ \cup (List \ Unfinished)]
          /\ UNCHANGED <<timerVars, pc, stream, events, listed>>
  /\ UNCHANGED <<callVars, faults, childVars>>

\* GetChildren fails: streaming falls back to polling, polling gives up.
PollFails(c) ==
  /\ pc[c] \in {"streaming", "polling"}
  /\ Fault
  /\ Stops(c)
  /\ IF pc[c] = "streaming" THEN Goto(c, "polling") /\ UNCHANGED timerVars
                            ELSE Goto(c, "erred") /\ ResumeOnce
  /\ UNCHANGED <<callVars, childVars>>

-----------------------------------------------------------------------------
(* After the wait: read the children's artefacts, then submit a result.  A  *)
(* read of a child the session has not recorded is refused once it recorded *)
(* another; the handlers log that and leave the child out.                  *)

Collect(c) ==
  /\ pc[c] = "collect"
  /\ Goto(c, "returned") \/ Goto(c, "erred")
  /\ UNCHANGED <<callVars, timerVars, faults, awaitVars>>

-----------------------------------------------------------------------------
(* The operator and the bus.                                               *)

\* The operator publishes the end of a child; the event reaches the registered
\* streams, or is lost on its way.
Finishes(k) ==
  /\ phase[k] = "active"
  /\ phase' = [phase EXCEPT ![k] = "terminal"]
  /\ \/ events' = [c \in Calls |-> IF stream[c] = "open" THEN events[c] \cup {k} ELSE events[c]]
        /\ UNCHANGED faults
     \/ Fault /\ UNCHANGED events
  /\ UNCHANGED <<shown, creator, childIDs, stream, seen, listed>>

Shows(k) ==
  /\ shown[k] # phase[k]
  /\ shown' = [shown EXCEPT ![k] = phase[k]]
  /\ UNCHANGED <<phase, creator, childIDs, waitVars, faults>>

Closes(c) ==
  /\ stream[c] \in {"opening", "open"}
  /\ Fault
  /\ stream' = [stream EXCEPT ![c] = "closed"]
  /\ UNCHANGED <<childVars, events, seen, listed>>

Around ==
  /\ \/ \E k \in Children : Finishes(k) \/ Shows(k)
     \/ \E c \in Calls : Closes(c)
  /\ UNCHANGED <<callVars, timerVars, pc>>

ParentStep(c) ==
  \/ \E k \in Children : CreateChild(c, k) \/ Event(c, k)
  \/ Attach(c) \/ Await(c) \/ Registers(c) \/ Snapshot(c) \/ Closed(c) \/ Poll(c) \/ Collect(c)

ParentHandler(c) == ParentStep(c) \/ FanOutFails(c) \/ PollFails(c)
=============================================================================
