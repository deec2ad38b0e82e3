--------------------------- MODULE HumanDecision ---------------------------
(***************************************************************************)
(* A handler of the HITL nodes: it parks its Workitem in the queue, pauses *)
(* its timer, waits for the decision on the Event Bus and routes by it.    *)
(* The queue is what QueueMirror promises of it: an item is parked under a *)
(* new generation, and a decision takes it out and is published after.     *)
(* The bus replays nothing to these subscribers (they ask for no           *)
(* sequence).                                                              *)
(***************************************************************************)
EXTENDS Session, Sequences

CONSTANTS
  Wired      \* the QueueManager was given a client of the Event Bus

ASSUME WiredAssumption == Wired \in BOOLEAN

VARIABLES
  item,      \* the generation under which the Workitem is parked, or 0
  minted,    \* generations minted
  news,      \* decisions submitted to the publisher and not yet published
  live,      \* handlers whose subscription is registered with the bus
  inbox,     \* decisions in the stream of each handler
  missed     \* history: handlers that a decision of their wait never reaches

queueVars == <<item, minted, news>>
streamVars == <<live, inbox>>
humanVars == <<item, minted, news, live, inbox, missed>>

HumanPlaces == {"pause", "look", "subscribe", "receive", "resume", "route"}

HumanTypeOK ==
  /\ {item, minted} \subseteq 0..Cardinality(Calls)
  /\ news \in Seq(1..minted)
  /\ {live, missed} \subseteq SUBSET Calls
  /\ inbox \in [Calls -> Seq(1..minted)]

HumanInit ==
  /\ item = 0 /\ minted = 0 /\ news = <<>>
  /\ live = {} /\ missed = {}
  /\ inbox = [c \in Calls |-> <<>>]

\* The handler returns an error; what it paused or parked stays.
Errs(c) == Goto(c, "erred") /\ live' = live \ {c} /\ UNCHANGED inbox

Quiet == UNCHANGED <<callVars, timerVars, faults>>

\* Enqueue: the item is parked, under a new generation if it was parked before.
Enqueue(c) ==
  /\ pc[c] = "begin"
  /\ \/ c \notin cancelled
        /\ minted' = minted + 1 /\ item' = minted + 1
        /\ Goto(c, "pause") /\ UNCHANGED <<streamVars, faults>>
     \/ c \in cancelled /\ Errs(c) /\ UNCHANGED <<item, minted, faults>>
     \/ Fault /\ Errs(c)   \* no majority, or the answer is lost
        /\ \/ UNCHANGED <<item, minted>>
           \/ minted' = minted + 1 /\ item' = minted + 1
  /\ UNCHANGED <<callVars, timerVars, news, missed>>

PauseTimer(c) ==
  /\ pc[c] = "pause"
  /\ IF MayPause THEN Pause /\ Goto(c, "look") /\ UNCHANGED streamVars
                 ELSE Errs(c) /\ UNCHANGED timerVars
  /\ UNCHANGED <<callVars, faults, queueVars, missed>>

\* WaitForDecision: GetItem first.
GetItem(c) ==
  /\ pc[c] = "look"
  /\ IF c \notin cancelled /\ item # 0 /\ Wired
     THEN Goto(c, "subscribe") /\ UNCHANGED streamVars
     ELSE Errs(c)
  /\ Quiet /\ UNCHANGED <<queueVars, missed>>

\* ReconnectStream: until it succeeds; the stream begins with what is
\* published after the bus registered it.
Subscribe(c) ==
  /\ pc[c] = "subscribe"
  /\ IF c \in cancelled
     THEN Errs(c)
     ELSE live' = live \cup {c} /\ Goto(c, "receive") /\ UNCHANGED inbox
  /\ Quiet /\ UNCHANGED <<queueVars, missed>>

\* The first event about the Workitem is the decision.
Receive(c) ==
  /\ pc[c] = "receive"
  /\ \/ inbox[c] # <<>>
        /\ live' = live \ {c}
        /\ inbox' = [inbox EXCEPT ![c] = <<>>]
        /\ Goto(c, "resume")
     \/ c \in cancelled /\ Errs(c)
  /\ Quiet /\ UNCHANGED <<queueVars, missed>>

StreamDrops(c) ==
  /\ pc[c] = "receive"
  /\ Fault
  /\ live' = live \ {c}
  /\ inbox' = [inbox EXCEPT ![c] = <<>>]
  /\ missed' = IF inbox[c] # <<>> THEN missed \cup {c} ELSE missed
  /\ Goto(c, "subscribe")
  /\ UNCHANGED <<callVars, timerVars, queueVars>>

\* A choice that is not among the valid ones fails before the timer is resumed.
ResumeTimer(c) ==
  /\ pc[c] = "resume"
  /\ IF MayResume
     THEN \/ Resume /\ Goto(c, "route") /\ UNCHANGED streamVars
          \/ Errs(c) /\ UNCHANGED timerVars
     ELSE Errs(c) /\ UNCHANGED timerVars
  /\ UNCHANGED <<callVars, faults, queueVars, missed>>

\* StampAndRoute and CompleteCancelled use a context of their own.
Dispatch(c) ==
  /\ pc[c] = "route"
  /\ Goto(c, "returned") \/ Goto(c, "erred")
  /\ Quiet /\ UNCHANGED humanVars

-----------------------------------------------------------------------------
(* The people and the publisher of the queue-service.                      *)

Waiting(c) == pc[c] \in {"subscribe", "receive"}
Unheard == {c \in Calls : Waiting(c)}

\* Mutant of Published: the decision is announced to no one.
PublishedNever(gen) == news
Published(gen) == Append(news, gen)

\* Every decide portal publishes after the item was removed by a majority.
Decide ==
  /\ item # 0
  /\ item' = 0
  /\ news' = Published(item)
  /\ UNCHANGED missed

\* CancelQueuedItem publishes nothing, nor does a decision without a majority,
\* although the item may be gone from every shard that answered.
Vanishes ==
  /\ item # 0
  /\ Fault
  /\ item' = 0
  /\ missed' = missed \cup Unheard
  /\ UNCHANGED news

\* Whoever is not registered when the bus fans the event out does not get it.
Publish ==
  /\ news # <<>>
  /\ news' = Tail(news)
  /\ inbox' = [c \in Calls |-> IF c \in live THEN Append(inbox[c], Head(news)) ELSE inbox[c]]
  /\ missed' = missed \cup {c \in Calls : pc[c] = "subscribe"}
  /\ UNCHANGED <<item, live>>

\* The buffer is full, or the service stops.
PublisherDrops ==
  /\ news # <<>>
  /\ Fault
  /\ news' = Tail(news)
  /\ missed' = missed \cup Unheard
  /\ UNCHANGED <<item, streamVars>>

Outside ==
  /\ \/ (Decide /\ UNCHANGED <<streamVars, faults>>) \/ (Vanishes /\ UNCHANGED streamVars)
     \/ (Publish /\ UNCHANGED faults) \/ PublisherDrops
  /\ UNCHANGED <<callVars, timerVars, pc, minted>>

HumanHandler(c) ==
  Enqueue(c) \/ PauseTimer(c) \/ GetItem(c) \/ Subscribe(c) \/ Receive(c)
  \/ StreamDrops(c) \/ ResumeTimer(c) \/ Dispatch(c)

\* Mutant of Steps: nobody reads the stream.
StepsDeaf(c) == Enqueue(c) \/ PauseTimer(c) \/ GetItem(c) \/ Subscribe(c) \/ ResumeTimer(c) \/ Dispatch(c)
Steps(c) == Enqueue(c) \/ PauseTimer(c) \/ GetItem(c) \/ Subscribe(c)
            \/ Receive(c) \/ ResumeTimer(c) \/ Dispatch(c)
=============================================================================
