-------------------------- MODULE EventBus_proofs --------------------------
(***************************************************************************)
(* The sequence numbers of the Event Bus, for any number of publishers,    *)
(* subscribers, evictions and restarts: no two rows share a number and the *)
(* counter is above all of them, although a restart reads it back from the *)
(* rows that retention left.                                               *)
(***************************************************************************)
EXTENDS EventConsumer, WellFoundedInduction, TLAPS

\* The part of the type invariant the argument needs.
NumbersTyped ==
  /\ log \subseteq Row
  /\ counter \in Nat
  /\ request \in [Publishers -> 0..MaxEvents]
  /\ issued \in 0..MaxEvents

\* Sequence numbers identify rows: the primary key of the events table.
NumbersAreUnique == \A e, f \in log : e.seq = f.seq => e = f

NumbersInv == NumbersTyped /\ CounterIsAhead /\ NumbersAreUnique

-----------------------------------------------------------------------------

\* A non-empty set of numbers has a smallest one.
LEMMA HasMin ==
  ASSUME NEW U, U \subseteq Nat, U # {}
  PROVE  \E m \in U : \A n \in U : ~(n < m)
<1> DEFINE R == OpToRel(<, Nat)
<1>1. IsWellFoundedOn(R, Nat)
  BY NatLessThanWellFounded
<1>2. \E m \in U : \A n \in U : ~(<<n, m>> \in R)
  <2> HIDE DEF R
  <2> QED BY <1>1, WFMin, Zenon
<1>3. \A n, m \in Nat : n < m => <<n, m>> \in R
  BY DEF OpToRel
<1> HIDE DEF R
<1> QED BY <1>2, <1>3

\* A bounded non-empty set of numbers has a largest one: its least bound.
LEMMA BoundedHasMax ==
  ASSUME NEW S \in SUBSET Nat, S # {}, NEW b \in Nat, \A x \in S : x <= b
  PROVE  \E m \in S : \A x \in S : m >= x
<1> DEFINE U == {n \in Nat : \A x \in S : x <= n}
<1>1. PICK m \in U : \A n \in U : ~(n < m)
  <2>1. U \subseteq Nat /\ b \in U
    OBVIOUS
  <2> HIDE DEF U
  <2> QED BY <2>1, HasMin
<1>2. m \in S
  <2> SUFFICES ASSUME m \notin S PROVE FALSE
    OBVIOUS
  <2>1. \A x \in S : x < m
    BY <1>1
  <2>2. m \in Nat /\ S \subseteq Nat
    BY <1>1
  <2>3. m > 0
    <3>1. PICK x \in S : TRUE
      OBVIOUS
    <3> QED BY <3>1, <2>1, <2>2
  <2>4. m - 1 \in Nat
    BY <2>2, <2>3
  <2>5. \A x \in S : x <= m - 1
    BY <2>1, <2>2
  <2>6. m - 1 \in U
    BY <2>4, <2>5
  <2> QED BY <2>2, <2>6, <1>1
<1> QED BY <1>1, <1>2

\* loadSequences: what a restart reads back is a number no row is above.
LEMMA MaxSequenceIsAhead ==
  ASSUME log \subseteq Row, counter \in Nat, CounterIsAhead
  PROVE  MaxSequence \in Nat /\ \A e \in log : e.seq <= MaxSequence
<1> DEFINE S == {e.seq : e \in log}
<1>1. CASE log = {}
  BY <1>1 DEF MaxSequence
<1>2. CASE log # {}
  <2>1. S \subseteq Nat /\ S # {} /\ \A x \in S : x <= counter
    BY <1>2 DEF Row, CounterIsAhead
  <2>2. \E m \in S : \A x \in S : m >= x
    <3> HIDE DEF S
    <3> QED BY <2>1, BoundedHasMax
  <2>3. MaxSequence \in S /\ \A x \in S : MaxSequence >= x
    BY <1>2, <2>2 DEF MaxSequence, Max
  <2> QED BY <2>1, <2>3
<1> QED BY <1>1, <1>2

LEMMA NumbersInit == ASSUME Init PROVE NumbersInv
BY BusAssumption DEF Init, BusInit, NumbersInv, NumbersTyped, CounterIsAhead, NumbersAreUnique

\* An insert takes a number above every row's.
LEMMA InsertKeeps ==
  ASSUME NumbersInv, NEW p \in Publishers, Insert(p)
  PROVE  NumbersInv'
<1>1. request[p] \in 1..MaxEvents
  BY BusAssumption DEF NumbersInv, NumbersTyped, Insert
<1>2. counter' = counter + 1 /\ log' = log \cup {[seq |-> counter + 1, id |-> request[p], by |-> p]}
  BY DEF Insert
<1>3. NumbersTyped'
  BY <1>1, <1>2 DEF Insert, NumbersInv, NumbersTyped, Row
<1>4. CounterIsAhead'
  BY <1>2 DEF NumbersInv, NumbersTyped, CounterIsAhead, Row
<1>5. NumbersAreUnique'
  <2>1. \A e \in log : e.seq \in Nat /\ e.seq < counter + 1
    BY DEF NumbersInv, NumbersTyped, CounterIsAhead, Row
  <2> QED BY <1>2, <2>1 DEF NumbersInv, NumbersAreUnique
<1> QED BY <1>3, <1>4, <1>5 DEF NumbersInv

LEMMA EvictKeeps == ASSUME NumbersInv, Evict PROVE NumbersInv'
BY DEF Evict, NumbersInv, NumbersTyped, CounterIsAhead, NumbersAreUnique

LEMMA RestartKeeps == ASSUME NumbersInv, Restart PROVE NumbersInv'
<1>1. counter' \in Nat /\ \A e \in log : e.seq <= counter'
  BY MaxSequenceIsAhead DEF Restart, NumbersInv, NumbersTyped
<1> QED BY <1>1 DEF Restart, NumbersInv, NumbersTyped, CounterIsAhead, NumbersAreUnique

\* Submitting and acknowledging change the requests, never the rows.
LEMMA PublisherKeeps ==
  ASSUME NumbersInv, NEW p \in Publishers, Submit(p) \/ FanOut(p)
  PROVE  NumbersInv'
<1>1. UNCHANGED <<log, counter>>
  BY DEF Submit, FanOut
<1>2. request' \in [Publishers -> 0..MaxEvents] /\ issued' \in 0..MaxEvents
  <2>1. CASE Submit(p)
    BY <2>1, BusAssumption DEF Submit, NumbersInv, NumbersTyped
  <2>2. CASE FanOut(p)
    BY <2>2, BusAssumption DEF FanOut, NumbersInv, NumbersTyped
  <2> QED BY <2>1, <2>2
<1> QED BY <1>1, <1>2 DEF NumbersInv, NumbersTyped, CounterIsAhead, NumbersAreUnique

\* Everything the subscribers and their streams do leaves the store alone.
LEMMA OthersKeep ==
  ASSUME NumbersInv, UNCHANGED <<log, counter, request, issued>>
  PROVE  NumbersInv'
BY DEF NumbersInv, NumbersTyped, CounterIsAhead, NumbersAreUnique

LEMMA NextKeepsNumbers == ASSUME NumbersInv, [Next]_vars PROVE NumbersInv'
<1>1. ASSUME NEW p \in Publishers, Submit(p) \/ FanOut(p) PROVE NumbersInv'
  BY <1>1, PublisherKeeps
<1>2. ASSUME NEW p \in Publishers, Insert(p) PROVE NumbersInv'
  BY <1>2, InsertKeeps
<1>3. ASSUME NEW c \in Consumers, Replay(c) \/ Join(c) \/ Forward(c) PROVE NumbersInv'
  BY <1>3, OthersKeep DEF Replay, Join, Forward
<1>8. ASSUME NEW p \in Publishers, GiveUp(p) PROVE NumbersInv'
  BY <1>8, OthersKeep DEF GiveUp
<1>9. ASSUME NEW e \in late, FanOutLate(e) PROVE NumbersInv'
  BY <1>9, OthersKeep DEF FanOutLate
<1>4. CASE Evict
  BY <1>4, EvictKeeps
<1>5. CASE Restart
  BY <1>5, RestartKeeps
<1>6. ASSUME NEW c \in Consumers, ConsumerStep(c) PROVE NumbersInv'
  <2>1. UNCHANGED <<log, counter, request, issued>>
    BY <1>6 DEF ConsumerStep, Connect, Handle, Receives, Evaluate, Save, Reconnect, Disconnect, busVars
  <2> QED BY <2>1, OthersKeep
<1>7. CASE UNCHANGED vars
  BY <1>7, OthersKeep DEF vars, busVars
<1> QED BY <1>1, <1>2, <1>3, <1>4, <1>5, <1>6, <1>7, <1>8, <1>9 DEF Next, BusStep

\* NumbersInv is inductive.
THEOREM NumbersInvariant == Spec => []NumbersInv
BY NumbersInit, NextKeepsNumbers, PTL DEF Spec

\* Store.Insert and loadSequences: the counter is at or above every row's
\* number, across evictions and restarts.
THEOREM CounterStaysAhead == Spec => []CounterIsAhead
<1>1. NumbersInv => CounterIsAhead
  BY DEF NumbersInv
<1> QED BY <1>1, NumbersInvariant, PTL

\* The events table never refuses an insert for its primary key.
THEOREM InsertNeverCollides == Spec => []NumbersAreUnique
<1>1. NumbersInv => NumbersAreUnique
  BY DEF NumbersInv
<1> QED BY <1>1, NumbersInvariant, PTL
=============================================================================
