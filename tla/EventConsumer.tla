---------------------------- MODULE EventConsumer ----------------------------
(***************************************************************************)
(* The consumer that the Friction Ledger (runSubscription) and the Monitor *)
(* (channelSubscriber.run) run against the Event Bus: subscribe from the   *)
(* saved checkpoint, handle an event, save its sequence, reconnect after   *)
(* any error.  The Ledger's handling stores the event's friction and       *)
(* announces the tiers a law's friction has reached; every event here is   *)
(* about one law, with magnitude 1.  The Monitor has no tiers.             *)
(***************************************************************************)
EXTENDS EventBus

CONSTANTS
  Poison,     \* events whose handling fails (a magnitude that does not parse)
  Tiers       \* ThresholdConfig: the friction at which each tier is crossed

ASSUME ConsumerAssumption == Poison \subseteq 1..MaxEvents /\ Tiers \subseteq Nat

VARIABLES
  at,          \* at[c]: "away", "reading", "evaluating" or "saving"
  current,     \* current[c]: the sequence to save
  checkpoint,  \* checkpoint[c]: the saved sequence
  counted,     \* counted[c][id]: how often the event was stored, each time as new
  crossed,     \* crossed[c]: crossedLaws, in memory
  announced,   \* history: the tiers whose crossing was published
  refused,     \* history: the tiers the last evaluation left unpublished: it
               \* failed, or died on an event that will not come again
  rejected     \* history: events the consumer's own store refused

ledgerVars == <<crossed, announced, refused, rejected>>
consumerVars == <<at, current, checkpoint, counted, crossed, announced, refused, rejected>>
vars == <<busVars, consumerVars>>

TypeOK ==
  /\ BusTypeOK
  /\ at \in [Consumers -> {"away", "reading", "evaluating", "saving"}]
  /\ current \in [Consumers -> Nat]
  /\ checkpoint \in [Consumers -> Nat]
  /\ counted \in [Consumers -> [1..MaxEvents -> Nat]]
  /\ {crossed, announced, refused} \subseteq [Consumers -> SUBSET Tiers]
  /\ rejected \in [Consumers -> SUBSET (1..MaxEvents)]

Init ==
  /\ BusInit
  /\ at = [c \in Consumers |-> "away"]
  /\ current = [c \in Consumers |-> 0]
  /\ checkpoint = [c \in Consumers |-> 0]
  /\ counted = [c \in Consumers |-> [e \in 1..MaxEvents |-> 0]]
  /\ crossed = [c \in Consumers |-> {}]
  /\ announced = crossed /\ refused = crossed /\ rejected = crossed

\* GetCheckpoint and Subscribe.  An expired checkpoint is an error that ends
\* the attempt; the loop tries again with the same checkpoint.
Connect(c) ==
  /\ at[c] = "away" /\ sub[c].mode = "none"
  /\ ~Expired(checkpoint[c])
  /\ OpenSession(c, checkpoint[c])
  /\ at' = [at EXCEPT ![c] = "reading"]
  /\ UNCHANGED <<log, counter, inserted, request, pending, late, abandoned, issued, faults>>
  /\ UNCHANGED <<current, checkpoint, counted, ledgerVars>>

\* Recv takes the next event off the stream.
Receives(c) ==
  /\ at[c] = "reading" /\ sub[c].wire # <<>>
  /\ sub' = [sub EXCEPT ![c].wire = Tail(@)]
  /\ UNCHANGED <<log, counter, inserted, request, pending, late, abandoned, issued>>
  /\ UNCHANGED <<checkpoint, crossed, announced, refused>>

\* AddFriction stores the event under a fresh id: what comes again counts again.
Stores(c, e) ==
  /\ at' = [at EXCEPT ![c] = "evaluating"]
  /\ current' = [current EXCEPT ![c] = e.seq]
  /\ counted' = [counted EXCEPT ![c][e.id] = @ + 1]
  /\ UNCHANGED <<faults, rejected>>

\* Mutant: the checkpoint also passes what could not be handled.
HandleSavesPoison(c) ==
  /\ Receives(c)
  /\ LET e == Head(sub[c].wire)
     IN  IF e.id \in Poison
           THEN /\ at' = [at EXCEPT ![c] = "saving"]
                /\ current' = [current EXCEPT ![c] = e.seq]
                /\ UNCHANGED <<counted, faults, rejected>>
           ELSE Stores(c, e)

\* Mutant: an event that cannot be handled is tried for ever.
HandleInsists(c) ==
  /\ Receives(c)
  /\ Head(sub[c].wire).id \notin Poison
  /\ Stores(c, Head(sub[c].wire))

\* Recv and processEvent.  An event that cannot be handled, or that the store
\* refuses, is skipped and its sequence is not saved.
Handle(c) ==
  /\ Receives(c)
  /\ LET e == Head(sub[c].wire)
     IN  \/ e.id \notin Poison /\ Stores(c, e)
         \/ e.id \in Poison /\ UNCHANGED <<at, current, counted, faults, rejected>>
         \/ /\ e.id \notin Poison /\ Fault
            /\ rejected' = [rejected EXCEPT ![c] = @ \cup {e.id}]
            /\ UNCHANGED <<at, current, counted>>

\* QueryFrictionByLaw: the friction stored so far, 1 for every stored event.
Friction(c) == Cardinality(UNION {{id} \X (1..counted[c][id]) : id \in 1..MaxEvents})

Due(c) == {t \in Tiers : t <= Friction(c)} \ crossed[c]

\* Mutant: a tier whose crossing could not be published stays marked.
KeptMarks(c, done) == crossed[c] \cup Due(c)

\* What evaluateThreshold leaves marked when it published for done.
Marks(c, done) == crossed[c] \cup done

\* evaluateThreshold: publish the crossing of every tier reached and not marked,
\* in any order.  The first failure ends it; its publish may have arrived.
Evaluate(c) ==
  /\ at[c] = "evaluating" /\ at' = [at EXCEPT ![c] = "saving"]
  /\ \E done \in SUBSET Due(c) :
       /\ \/ done = Due(c) /\ UNCHANGED faults
             /\ announced' = [announced EXCEPT ![c] = @ \cup done]
          \/ \E last \in Due(c) \ done :
               /\ Fault
               /\ \/ announced' = [announced EXCEPT ![c] = @ \cup done]
                  \/ announced' = [announced EXCEPT ![c] = @ \cup done \cup {last}]
       /\ crossed' = [crossed EXCEPT ![c] = Marks(c, done)]
       /\ refused' = [refused EXCEPT ![c] = Due(c) \ done]
  /\ UNCHANGED <<log, counter, inserted, request, pending, late, abandoned, issued, sub>>
  /\ UNCHANGED <<current, checkpoint, counted, rejected>>

\* SetCheckpoint; a failed save is only logged.
Save(c) ==
  /\ at[c] = "saving" /\ at' = [at EXCEPT ![c] = "reading"]
  /\ \/ checkpoint' = [checkpoint EXCEPT ![c] = current[c]] /\ UNCHANGED faults
     \/ Fault /\ UNCHANGED checkpoint
  /\ current' = [current EXCEPT ![c] = 0]
  /\ UNCHANGED <<log, counter, inserted, request, pending, late, abandoned, issued, sub, counted, ledgerVars>>

\* The stream broke under the reader, which notices at its next Recv.
Reconnect(c) ==
  /\ at[c] = "reading" /\ sub[c].mode = "none"
  /\ at' = [at EXCEPT ![c] = "away"]
  /\ UNCHANGED <<busVars, current, checkpoint, counted, ledgerVars>>

\* A lost connection, noticed at the next Recv, or a consumer that dies at any
\* step and starts again without its memory.
Disconnect(c) ==
  /\ at[c] # "away" /\ Fault
  /\ CloseSession(c)
  /\ \/ at[c] = "reading" /\ UNCHANGED crossed
     \/ crossed' = [crossed EXCEPT ![c] = {}]
  /\ refused' = IF at[c] = "evaluating" /\ current[c] <= checkpoint[c]
                  THEN [refused EXCEPT ![c] = Due(c)] ELSE refused
  /\ at' = [at EXCEPT ![c] = "away"]
  /\ current' = [current EXCEPT ![c] = 0]
  /\ UNCHANGED <<log, counter, inserted, request, pending, late, abandoned, issued>>
  /\ UNCHANGED <<checkpoint, counted, announced, rejected>>

ConsumerStep(c) ==
  Connect(c) \/ Handle(c) \/ Evaluate(c) \/ Save(c) \/ Reconnect(c) \/ Disconnect(c)

Next ==
  \/ BusStep /\ UNCHANGED consumerVars
  \/ \E c \in Consumers : ConsumerStep(c)

Spec == Init /\ [][Next]_vars

Fairness ==
  /\ \A p \in Publishers : WF_vars(Insert(p) /\ UNCHANGED consumerVars)
                           /\ WF_vars(FanOut(p) /\ UNCHANGED consumerVars)
  /\ \A c \in Consumers :
       /\ WF_vars((Replay(c) \/ Join(c)) /\ UNCHANGED consumerVars)
       /\ WF_vars(Forward(c) /\ UNCHANGED consumerVars)
       /\ WF_vars(Connect(c)) /\ WF_vars(Handle(c)) /\ WF_vars(Evaluate(c))
       /\ WF_vars(Save(c)) /\ WF_vars(Reconnect(c))

FairSpec == Spec /\ Fairness

-----------------------------------------------------------------------------

\* Checkpoints: the saved sequence is one the bus still counts, and the row that
\* has it was handled; resuming there skips nothing unhandled at that number.
\* The handler, the save and the stream's failure are separate steps.
CheckpointWasHandled == \A c \in Consumers :
  /\ checkpoint[c] <= counter
  /\ \A e \in log : e.seq = checkpoint[c] => counted[c][e.id] > 0

\* frictionledger_server.go:402: a crossing is published "best-effort and will be
\* retried on the next friction event".  A tier that the stored friction, once
\* there is some, has reached was announced, whatever dies in between, unless its
\* evaluation is under way, the last one failed or died on an event that a later
\* number had overtaken, or an event that was stored will be handled again.
CrossingIsAnnounced == \A c \in Consumers : \A t \in Tiers :
  (Friction(c) # 0 /\ Friction(c) >= t) =>
    \/ t \in announced[c] \cup refused[c]
    \/ at[c] = "evaluating"
    \/ \E e \in log : e.seq > checkpoint[c] /\ e.id \in Matching /\ counted[c][e.id] > 0

\* Subscribe and runSubscription: an event in a subscriber's buffer is handled,
\* or its stream is lost, or the consumer's store refuses it; an event that
\* cannot be handled holds up no other.
BufferedIsHandled == \A c \in Consumers : \A id \in (1..MaxEvents) \ Poison :
  (\E e \in Range(sub[c].buf) : e.id = id)
    ~> (counted[c][id] > 0 \/ id \in rejected[c] \/ sub[c].mode = "none")

\* frictionledger_server.go:170: "On disconnect, it retries with exponential
\* backoff, resuming from the persisted checkpoint".
Resumes == \A c \in Consumers : at[c] = "away" ~> at[c] = "reading"
=============================================================================
