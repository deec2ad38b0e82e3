------------------------ MODULE EventConsumer_proofs ------------------------
(***************************************************************************)
(* Proofs about the streams of the Event Bus and about its consumers, for  *)
(* any number of publishers, consumers, events and faults, every filter,   *)
(* batch and buffer size: what replay and live delivery owe a subscriber,  *)
(* in which order it gets it, and what a consumer's checkpoint stands for. *)
(***************************************************************************)
EXTENDS EventBus_proofs, FiniteSetTheorems, SequenceTheorems

-----------------------------------------------------------------------------
(* Sequences and sets of rows *)

LEMMA RangeOfOne ==
  ASSUME NEW S, NEW e \in S
  PROVE  <<e>> \in Seq(S) /\ Len(<<e>>) = 1 /\ Range(<<e>>) = {e}
<1> DEFINE t == <<e>>
<1>1. t \in Seq(S) /\ Len(t) = 1 /\ t[1] = e
  OBVIOUS
<1> HIDE DEF t
<1>2. Range(t) = {t[i] : i \in 1..Len(t)} /\ 1..Len(t) = {1}
  BY <1>1, RangeEquality
<1> QED BY <1>1, <1>2 DEF t

LEMMA RangeOfAppend ==
  ASSUME NEW S, NEW s \in Seq(S), NEW e \in S
  PROVE  Append(s, e) \in Seq(S) /\ Range(Append(s, e)) = Range(s) \cup {e}
<1> DEFINE t == Append(s, e)
<1>1. /\ t \in Seq(S) /\ Len(t) = Len(s) + 1 /\ t[Len(s) + 1] = e
      /\ \A i \in 1..Len(s) : t[i] = s[i]
  BY AppendProperties
<1>2. Range(t) = {t[i] : i \in 1..Len(t)} /\ Range(s) = {s[i] : i \in 1..Len(s)}
  BY <1>1, RangeEquality
<1>3. Len(s) \in Nat
  OBVIOUS
<1> HIDE DEF t
<1>4. 1..Len(t) = 1..Len(s) \cup {Len(s) + 1}
  BY <1>1, <1>3
<1>5. Range(t) = Range(s) \cup {e}
  BY <1>1, <1>2, <1>4
<1> QED BY <1>1, <1>5 DEF t

LEMMA RangeOfHeadAndTail ==
  ASSUME NEW S, NEW s \in Seq(S), s # <<>>
  PROVE  /\ Head(s) \in S /\ Tail(s) \in Seq(S)
         /\ Range(s) = {Head(s)} \cup Range(Tail(s))
         /\ s = <<Head(s)>> \o Tail(s)
<1>1. Head(s) \in S /\ Tail(s) \in Seq(S)
  BY HeadTailProperties
<1>2. <<Head(s)>> \in Seq(S) /\ Range(<<Head(s)>>) = {Head(s)}
  BY <1>1, RangeOfOne
<1>3. s = <<Head(s)>> \o Tail(s)
  <2>1. Len(s) \in Nat \ {0} /\ Len(Tail(s)) = Len(s) - 1 /\ s[1] = Head(s)
        /\ \A i \in 1..Len(Tail(s)) : Tail(s)[i] = s[i + 1]
    BY HeadTailProperties
  <2>2. /\ Len(<<Head(s)>> \o Tail(s)) = 1 + Len(Tail(s))
        /\ \A i \in 1 .. 1 + Len(Tail(s)) :
             (<<Head(s)>> \o Tail(s))[i] = IF i <= 1 THEN Head(s) ELSE Tail(s)[i - 1]
        /\ <<Head(s)>> \o Tail(s) \in Seq(S)
    BY <1>1, <1>2, ConcatProperties
  <2>3. \A i \in 1..Len(s) : s[i] = (<<Head(s)>> \o Tail(s))[i]
    BY <2>1, <2>2
  <2> QED BY <2>1, <2>2, <2>3, SeqEqual
<1>4. Range(<<Head(s)>> \o Tail(s)) = Range(<<Head(s)>>) \cup Range(Tail(s))
  <2> DEFINE h == <<Head(s)>>
  <2>1. h \in Seq(S)
    BY <1>2
  <2> HIDE DEF h
  <2>2. Range(h \o Tail(s)) = Range(h) \cup Range(Tail(s))
    BY <1>1, <2>1, RangeConcatenation
  <2> QED BY <2>2 DEF h
<1> QED BY <1>1, <1>2, <1>3, <1>4

LEMMA AppendAfter ==
  ASSUME NEW S, NEW a \in Seq(S), NEW b \in Seq(S), NEW r \in S
  PROVE  /\ a \o b \in Seq(S) /\ Range(a \o b) = Range(a) \cup Range(b)
         /\ a \o Append(b, r) = Append(a \o b, r)
<1> DEFINE k == <<r>>  ab == a \o b
<1>1. k \in Seq(S) /\ ab \in Seq(S)
  BY RangeOfOne, ConcatProperties
<1>2. Append(b, r) = b \o k /\ Append(ab, r) = ab \o k
  BY <1>1, AppendIsConcat
<1> HIDE DEF k
<1>3. ab \o k = a \o (b \o k)
  BY <1>1, ConcatAssociative
<1>4. Range(ab) = Range(a) \cup Range(b)
  BY RangeConcatenation
<1> QED BY <1>1, <1>2, <1>3, <1>4

\* One publisher's rows in the order of their numbers, but for those of the
\* attempts it gave up.
Ordered(s, gone) ==
  \A i, j \in 1..Len(s) : (i < j /\ s[i].by = s[j].by) => s[i].seq <= s[j].seq \/ s[j].seq \in gone

\* Two streams that may follow one another.
LEMMA OrderedConcat ==
  ASSUME NEW s \in Seq(Row), NEW t \in Seq(Row), NEW gone, Ordered(s, gone), Ordered(t, gone),
         \A e \in Range(s), f \in Range(t) : e.by = f.by => e.seq <= f.seq \/ f.seq \in gone
  PROVE  Ordered(s \o t, gone)
<1> DEFINE u == s \o t
<1>1. /\ Len(s) \in Nat /\ Len(t) \in Nat /\ Len(u) = Len(s) + Len(t)
      /\ \A i \in 1 .. Len(s) + Len(t) : u[i] = IF i <= Len(s) THEN s[i] ELSE t[i - Len(s)]
  BY ConcatProperties
<1>2. /\ \A i \in 1..Len(s) : s[i] \in Range(s)
      /\ \A i \in 1..Len(t) : t[i] \in Range(t)
  BY RangeEquality
<1> HIDE DEF u
<1>3. ASSUME NEW i \in 1..Len(u), NEW j \in 1..Len(u), i < j, u[i].by = u[j].by
      PROVE  u[i].seq <= u[j].seq \/ u[j].seq \in gone
  <2>1. CASE j <= Len(s)
    BY <1>1, <1>3, <2>1 DEF Ordered
  <2>2. CASE ~(j <= Len(s)) /\ i <= Len(s)
    <3>1. u[i] = s[i] /\ s[i] \in Range(s)
      BY <1>1, <1>2, <1>3, <2>2
    <3> DEFINE l == j - Len(s)
    <3>2. l \in 1..Len(t) /\ u[j] = t[l]
      BY <1>1, <1>3, <2>2
    <3> HIDE DEF l
    <3> QED BY <1>2, <1>3, <3>1, <3>2
  <2>3. CASE ~(i <= Len(s))
    <3> DEFINE k == i - Len(s)  l == j - Len(s)
    <3>1. k \in 1..Len(t) /\ l \in 1..Len(t) /\ k < l
      BY <1>1, <1>3, <2>3
    <3>2. u[i] = t[k] /\ u[j] = t[l]
      BY <1>1, <1>3, <2>3
    <3> HIDE DEF k, l
    <3> QED BY <1>3, <3>1, <3>2 DEF Ordered
  <2> QED BY <1>1, <1>3, <2>1, <2>2, <2>3
<1> QED BY <1>3 DEF Ordered, u

LEMMA OrderedAppend ==
  ASSUME NEW s \in Seq(Row), NEW e \in Row, NEW gone, Ordered(s, gone),
         \A f \in Range(s) : f.by = e.by => f.seq <= e.seq \/ e.seq \in gone
  PROVE  Ordered(Append(s, e), gone)
<1>1. <<e>> \in Seq(Row) /\ Len(<<e>>) = 1 /\ Range(<<e>>) = {e}
  BY RangeOfOne
<1>2. Ordered(<<e>>, gone)
  BY <1>1 DEF Ordered
<1>3. Append(s, e) = s \o <<e>>
  BY AppendIsConcat
<1> QED BY <1>1, <1>2, <1>3, OrderedConcat

\* A query's answer is a sequence of rows, ordered, with nothing left out.
LEMMA AscendingRows ==
  ASSUME NEW rows, rows \subseteq Row, IsFiniteSet(rows), NEW s \in Ascending(rows), NEW gone
  PROVE  s \in Seq(Row) /\ Range(s) = rows /\ Ordered(s, gone)
<1>1. Cardinality(rows) \in Nat
  BY FS_CardinalityType
<1> DEFINE n == Cardinality(rows)
<1>2. s \in [1..n -> Row] /\ Range(s) = rows
  BY DEF Ascending
<1>3. \A i, j \in 1..n : i < j => s[i].seq < s[j].seq
  BY <1>2 DEF Ascending
<1> HIDE DEF n
<1>4. s \in Seq(Row) /\ Len(s) = n
  BY <1>1, <1>2 DEF n
<1>5. \A i \in 1..n : s[i].seq \in Nat
  BY <1>2 DEF Row
<1>6. Ordered(s, gone)
  BY <1>3, <1>4, <1>5 DEF Ordered
<1> QED BY <1>2, <1>4, <1>6

\* GetSince skips no row below one it returns.
LEMMA BatchIsGapless ==
  ASSUME log \subseteq Row, IsFiniteSet(log), NEW last \in Nat,
         NEW e \in log, NEW f \in GetSince(last), last < e.seq, e.seq <= f.seq
  PROVE  e \in GetSince(last)
<1> DEFINE after == {x \in log : x.seq > last}
           Below(x) == {y \in after : y.seq < x.seq}
<1>1. f \in after /\ Cardinality(Below(f)) < ReplayBatch
  BY DEF GetSince
<1>2. e \in after /\ Below(e) \subseteq Below(f)
  <2>1. \A x \in log : x.seq \in Nat
    BY DEF Row
  <2> QED BY <1>1, <2>1
<1>3. IsFiniteSet(Below(f))
  <2>1. Below(f) \in SUBSET log
    OBVIOUS
  <2> HIDE DEF Below
  <2> QED BY <2>1, FS_Subset
<1>4. Cardinality(Below(e)) <= Cardinality(Below(f))
  BY <1>2, <1>3, FS_Subset
<1>5. Cardinality(Below(e)) \in Nat /\ Cardinality(Below(f)) \in Nat /\ ReplayBatch \in Nat
  BY <1>2, <1>3, FS_Subset, FS_CardinalityType, BusAssumption
<1>6. Cardinality(Below(e)) < ReplayBatch
  BY <1>1, <1>4, <1>5
<1> QED BY <1>2, <1>6 DEF GetSince

-----------------------------------------------------------------------------
(* Types *)

\* Whoever waits for a fan-out has its request.
RequestsStand == \A p \in Publishers : pending[p] # 0 => request[p] # 0

RowsInv == TypeOK /\ NumbersInv /\ IsFiniteSet(log) /\ RequestsStand

LEMMA NoSessionType == NoSession \in Session
BY DEF NoSession, Session

LEMMA InitRows == ASSUME Init PROVE RowsInv
<1>1. BusTypeOK
  BY BusAssumption, NoSessionType DEF Init, BusInit, BusTypeOK
<1>2. TypeOK
  BY <1>1 DEF Init, TypeOK
<1> QED BY <1>2, NumbersInit, FS_EmptySet DEF RowsInv, RequestsStand, Init, BusInit

LEMMA PublishedType ==
  ASSUME TypeOK, NEW p \in Publishers, request[p] # 0
  PROVE  Published(p) \in Row
BY BusAssumption DEF TypeOK, BusTypeOK, Published, Row

LEMMA OfferType ==
  ASSUME NEW s \in Session, NEW e \in Row
  PROVE  Offer(s, e) \in Session
<1>1. s.buf \in Seq(Row) /\ s.dropped \subseteq Row
  BY DEF Session
<1>2. Append(s.buf, e) \in Seq(Row) /\ s.dropped \cup {e} \subseteq Row
  BY <1>1
<1>3. [s EXCEPT !.buf = Append(s.buf, e)] \in Session
  BY <1>2 DEF Session
<1>4. [s EXCEPT !.dropped = s.dropped \cup {e}] \in Session
  BY <1>2 DEF Session
<1> QED BY <1>3, <1>4 DEF Offer

\* What a round of replay reads and sends.
LEMMA ReplayReads ==
  ASSUME RowsInv, NEW last \in Nat, GetSince(last) # {},
         NEW chosen \in Ascending({e \in GetSince(last) : e.id \in Matching})
  PROVE  /\ GetSince(last) \subseteq {e \in log : e.seq > last}
         /\ chosen \in Seq(Row) /\ Ordered(chosen, abandoned)
         /\ Range(chosen) = {e \in GetSince(last) : e.id \in Matching}
         /\ Max({e.seq : e \in GetSince(last)}) \in {e.seq : e \in GetSince(last)}
         /\ \A e \in GetSince(last) : e.seq <= Max({f.seq : f \in GetSince(last)})
<1> DEFINE batch == GetSince(last)
           S == {e.seq : e \in batch}
<1>1. batch \subseteq {e \in log : e.seq > last} /\ log \subseteq Row
  BY DEF GetSince, RowsInv, TypeOK, BusTypeOK
<1>2. IsFiniteSet({e \in batch : e.id \in Matching})
  <2>1. {e \in batch : e.id \in Matching} \in SUBSET log
    BY <1>1
  <2> QED BY <2>1, FS_Subset DEF RowsInv
<1>3. /\ chosen \in Seq(Row) /\ Ordered(chosen, abandoned)
      /\ Range(chosen) = {e \in batch : e.id \in Matching}
  BY <1>1, <1>2, AscendingRows
<1>4. S \subseteq Nat /\ S # {} /\ \A x \in S : x <= counter
  BY <1>1 DEF Row, RowsInv, NumbersInv, CounterIsAhead
<1>5. \E m \in S : \A x \in S : m >= x
  <2> HIDE DEF S
  <2> QED BY <1>4, BoundedHasMax DEF RowsInv, NumbersInv, NumbersTyped
<1>6. Max(S) \in S /\ \A x \in S : Max(S) >= x
  BY <1>5 DEF Max
<1>7. \A e \in batch : e.seq <= Max(S)
  BY <1>4, <1>6
<1> QED BY <1>1, <1>3, <1>6, <1>7

\* The bus's own steps keep its types; a restart reads back a number.
LEMMA BusTypes ==
  ASSUME RowsInv, BusStep
  PROVE  BusTypeOK' /\ IsFiniteSet(log')
<1> USE DEF BusTypeOK
<1>1. BusTypeOK /\ NumbersInv /\ IsFiniteSet(log)
  BY DEF RowsInv, TypeOK
<1>2. ASSUME NEW c \in Consumers, NEW s \in Session, sub' = [sub EXCEPT ![c] = s],
             UNCHANGED <<log, counter, inserted, request, pending, late, abandoned, issued, faults>>
      PROVE  BusTypeOK' /\ IsFiniteSet(log')
  BY <1>1, <1>2
<1>3. ASSUME NEW p \in Publishers, Submit(p) PROVE BusTypeOK' /\ IsFiniteSet(log')
  BY <1>1, <1>3, BusAssumption DEF Submit
<1>4. ASSUME NEW p \in Publishers, Insert(p) PROVE BusTypeOK' /\ IsFiniteSet(log')
  <2>1. [seq |-> counter + 1, id |-> request[p], by |-> p] \in Row
    BY <1>1, <1>4, BusAssumption DEF Insert, Row
  <2>2. IsFiniteSet(log')
    BY <1>1, <1>4, FS_AddElement DEF Insert
  <2> QED BY <1>1, <1>4, <2>1, <2>2, BusAssumption DEF Insert
<1>5. ASSUME NEW p \in Publishers, FanOut(p) PROVE BusTypeOK' /\ IsFiniteSet(log')
  <2>1. Published(p) \in Row
    BY <1>5, PublishedType DEF RowsInv, RequestsStand, FanOut
  <2>2. sub' = [c \in Consumers |-> Offer(sub[c], Published(p))]
    BY <1>5 DEF FanOut, OfferToAll
  <2>3. sub' \in [Consumers -> Session]
    BY <1>1, <2>1, <2>2, OfferType
  <2> QED BY <1>1, <1>5, <2>3, BusAssumption DEF FanOut
<1>11. ASSUME NEW p \in Publishers, GiveUp(p) PROVE BusTypeOK' /\ IsFiniteSet(log')
  <2>1. Published(p) \in Row
    BY <1>11, PublishedType DEF RowsInv, RequestsStand, GiveUp
  <2>2. late' \subseteq Row /\ abandoned' \subseteq Nat
    BY <1>1, <1>11, <2>1 DEF GiveUp
  <2> QED BY <1>1, <1>11, <2>2, BusAssumption DEF GiveUp, Fault
<1>12. ASSUME NEW e \in late, FanOutLate(e) PROVE BusTypeOK' /\ IsFiniteSet(log')
  <2>1. e \in Row
    BY <1>1
  <2>2. sub' = [c \in Consumers |-> Offer(sub[c], e)]
    BY <1>12 DEF FanOutLate, OfferToAll
  <2>3. sub' \in [Consumers -> Session]
    BY <1>1, <2>1, <2>2, OfferType
  <2> QED BY <1>1, <1>12, <2>3 DEF FanOutLate
<1>6. ASSUME NEW c \in Consumers, Replay(c) PROVE BusTypeOK' /\ IsFiniteSet(log')
  <2>1. sub[c] \in Session
    BY <1>1
  <2> DEFINE batch == GetSince(sub[c].cursor)
  <2>2. CASE batch = {}
    <3>1. [sub[c] EXCEPT !.mode = "joining"] \in Session
      BY <2>1 DEF Session
    <3> QED BY <1>2, <1>6, <2>2, <3>1 DEF Replay
  <2>3. CASE batch # {}
    <3>1. PICK chosen \in Ascending({e \in batch : e.id \in Matching}) :
            sub' = [sub EXCEPT ![c].cursor = Max({e.seq : e \in batch}),
                               ![c].sent = @ \o chosen, ![c].wire = @ \o chosen]
      BY <1>6, <2>3 DEF Replay
    <3>2. sub[c].cursor \in Nat /\ sub[c].sent \in Seq(Row) /\ sub[c].wire \in Seq(Row)
      BY <2>1 DEF Session
    <3>3. chosen \in Seq(Row) /\ Max({e.seq : e \in batch}) \in Nat
      <4>1. chosen \in Seq(Row) /\ Max({e.seq : e \in batch}) \in {e.seq : e \in batch}
            /\ batch \subseteq log
        BY <2>3, <3>2, ReplayReads
      <4> QED BY <1>1, <4>1 DEF Row
    <3> DEFINE m == Max({e.seq : e \in batch})
               t == [sub[c] EXCEPT !.cursor = m, !.sent = sub[c].sent \o chosen,
                                   !.wire = sub[c].wire \o chosen]
    <3>4. t \in Session
      <4> HIDE DEF m
      <4> QED BY <2>1, <3>2, <3>3, ConcatProperties DEF Session, m
    <3>5. sub' = [sub EXCEPT ![c] = t]
      BY <1>1, <3>1
    <3> HIDE DEF t
    <3> QED BY <1>2, <1>6, <3>4, <3>5 DEF Replay
  <2> QED BY <2>2, <2>3
<1>7. ASSUME NEW c \in Consumers, Join(c) PROVE BusTypeOK' /\ IsFiniteSet(log')
  <2>1. [sub[c] EXCEPT !.mode = "live", !.joined = counter] \in Session
    BY <1>1 DEF Session
  <2>2. sub' = [sub EXCEPT ![c] = [sub[c] EXCEPT !.mode = "live", !.joined = counter]]
    BY <1>1, <1>7 DEF Join
  <2> QED BY <1>2, <1>7, <2>1, <2>2 DEF Join
<1>8. ASSUME NEW c \in Consumers, Forward(c) PROVE BusTypeOK' /\ IsFiniteSet(log')
  <2> DEFINE s == sub[c]
             t == [s EXCEPT !.buf = Tail(s.buf), !.sent = Append(s.sent, Head(s.buf)),
                            !.wire = Append(s.wire, Head(s.buf))]
  <2>1. s \in Session /\ s.buf \in Seq(Row) /\ s.buf # <<>> /\ s.sent \in Seq(Row)
        /\ s.wire \in Seq(Row)
    BY <1>1, <1>8 DEF Forward, Session
  <2>2. Head(s.buf) \in Row /\ Tail(s.buf) \in Seq(Row)
    BY <2>1, HeadTailProperties
  <2>3. t \in Session
    BY <2>1, <2>2, AppendProperties DEF Session
  <2>4. sub' = [sub EXCEPT ![c] = t]
    BY <1>1, <1>8 DEF Forward
  <2> HIDE DEF t
  <2> QED BY <1>2, <1>8, <2>3, <2>4 DEF Forward
<1>9. CASE Evict
  <2>1. log' \in SUBSET log
    BY <1>9 DEF Evict
  <2>2. IsFiniteSet(log')
    BY <1>1, <2>1, FS_Subset
  <2> QED BY <1>1, <1>9, <2>1, <2>2 DEF Evict
<1>10. CASE Restart
  <2>1. MaxSequence \in Nat
    BY <1>1, MaxSequenceIsAhead DEF NumbersInv, NumbersTyped
  <2> QED BY <1>1, <1>10, <2>1, NoSessionType, BusAssumption DEF Restart, Fault
<1> QED BY <1>3, <1>4, <1>5, <1>6, <1>7, <1>8, <1>9, <1>10, <1>11, <1>12 DEF BusStep

\* What a consumer's step does to its session: it opens or closes it, or takes
\* an event off its wire; the bus is left alone.
LEMMA ConsumerSessions ==
  ASSUME RowsInv, NEW c \in Consumers, ConsumerStep(c)
  PROVE  /\ UNCHANGED <<log, counter, inserted, request, pending, late, abandoned, issued>>
         /\ \A d \in Consumers : d # c => sub'[d] = sub[d]
         /\ \/ sub'[c] = sub[c]
            \/ sub'[c] = NoSession
            \/ \E last \in Nat :
                 sub'[c] = [NoSession EXCEPT !.mode = IF last > 0 THEN "replay" ELSE "joining",
                                             !.start = last, !.cursor = last]
            \/ sub[c].wire # <<>> /\ sub'[c] = [sub[c] EXCEPT !.wire = Tail(sub[c].wire)]
         /\ sub' \in [Consumers -> Session] /\ faults' \in 0..MaxFaults
<1>1. sub \in [Consumers -> Session] /\ faults \in 0..MaxFaults /\ checkpoint[c] \in Nat
  BY DEF RowsInv, TypeOK, BusTypeOK
<1>2. CASE Connect(c)
  <2> DEFINE last == checkpoint[c]
             s == [NoSession EXCEPT !.mode = IF last > 0 THEN "replay" ELSE "joining",
                                    !.start = last, !.cursor = last]
  <2>1. s \in Session
    BY <1>1, NoSessionType DEF Session
  <2>2. sub' = [sub EXCEPT ![c] = s]
    BY <1>2 DEF Connect, OpenSession
  <2>3. sub'[c] = s
    BY <1>1, <2>2
  <2> HIDE DEF s
  <2>4. /\ sub' \in [Consumers -> Session] /\ faults' \in 0..MaxFaults
        /\ \A d \in Consumers : d # c => sub'[d] = sub[d]
    BY <1>1, <1>2, <2>1, <2>2 DEF Connect
  <2> QED BY <1>1, <1>2, <2>3, <2>4 DEF Connect, s
<1>3. CASE Disconnect(c)
  BY <1>1, <1>3, NoSessionType, BusAssumption DEF Disconnect, CloseSession, Fault
<1>4. CASE Handle(c)
  <2> DEFINE s == [sub[c] EXCEPT !.wire = Tail(sub[c].wire)]
  <2>1. sub[c] \in Session /\ sub[c].wire \in Seq(Row) /\ sub[c].wire # <<>>
    BY <1>1, <1>4 DEF Handle, Receives, Session
  <2>2. Tail(sub[c].wire) \in Seq(Row)
    BY <2>1, HeadTailProperties
  <2>3. s \in Session
    BY <2>1, <2>2 DEF Session
  <2>4. sub' = [sub EXCEPT ![c] = s]
    BY <1>1, <1>4 DEF Handle, Receives
  <2>5. faults' \in 0..MaxFaults
    BY <1>1, <1>4, BusAssumption DEF Handle, Stores, Fault
  <2>6. UNCHANGED <<log, counter, inserted, request, pending, late, abandoned, issued>>
    BY <1>4 DEF Handle, Receives
  <2> HIDE DEF s
  <2>7. sub'[c] = s /\ \A d \in Consumers : d # c => sub'[d] = sub[d]
    BY <1>1, <2>4
  <2> QED BY <1>1, <2>1, <2>3, <2>4, <2>5, <2>6, <2>7 DEF s
<1>5. CASE Evaluate(c) \/ Save(c) \/ Reconnect(c)
  <2>1. UNCHANGED <<log, counter, inserted, request, pending, late, abandoned, issued, sub>>
    BY <1>5 DEF Evaluate, Save, Reconnect, busVars
  <2>2. faults' = faults \/ Fault
    BY <1>5 DEF Evaluate, Save, Reconnect, busVars
  <2> QED BY <1>1, <2>1, <2>2, BusAssumption DEF Fault
<1> QED BY <1>2, <1>3, <1>4, <1>5 DEF ConsumerStep

\* The types of the consumer's own variables.
LEMMA ConsumerTypes ==
  ASSUME RowsInv, BusTypeOK', NEW c \in Consumers, ConsumerStep(c)
  PROVE  TypeOK'
<1> USE DEF TypeOK
<1>1. TypeOK /\ sub[c] \in Session /\ checkpoint[c] \in Nat /\ current[c] \in Nat
  BY DEF RowsInv, BusTypeOK
<1>2. CASE Connect(c)
  BY <1>1, <1>2 DEF Connect, ledgerVars
<1>3. CASE Handle(c)
  <2>1. sub[c].wire \in Seq(Row) /\ sub[c].wire # <<>>
    BY <1>1, <1>3 DEF Handle, Receives, Session
  <2> DEFINE e == Head(sub[c].wire)
  <2>2. e \in Row
    BY <2>1, HeadTailProperties
  <2>3. e.id \in 1..MaxEvents /\ e.seq \in Nat
    BY <2>2 DEF Row
  <2> HIDE DEF e
  <2>4. UNCHANGED <<checkpoint, crossed, announced, refused>>
    BY <1>3 DEF Handle, Receives
  <2>5. CASE Stores(c, e)
    <3>1. counted[c] \in [1..MaxEvents -> Nat]
      BY <1>1
    <3>2. counted[c][e.id] + 1 \in Nat
      <4> DEFINE n == counted[c][e.id]
      <4>1. n \in Nat
        BY <2>3, <3>1
      <4> HIDE DEF n
      <4>2. n + 1 \in Nat
        BY <4>1
      <4> QED BY <4>2 DEF n
    <3>3. counted' = [counted EXCEPT ![c] = [counted[c] EXCEPT ![e.id] = counted[c][e.id] + 1]]
      BY <1>1, <2>5 DEF Stores
    <3>4. [counted[c] EXCEPT ![e.id] = counted[c][e.id] + 1] \in [1..MaxEvents -> Nat]
      BY <3>1, <3>2
    <3>5. counted' \in [Consumers -> [1..MaxEvents -> Nat]]
      BY <1>1, <3>3, <3>4
    <3> QED BY <1>1, <2>3, <2>4, <2>5, <3>5 DEF Stores
  <2>6. CASE UNCHANGED <<at, current, counted, rejected>>
    BY <1>1, <2>4, <2>6
  <2>7. CASE rejected' = [rejected EXCEPT ![c] = @ \cup {e.id}] /\ UNCHANGED <<at, current, counted>>
    BY <1>1, <2>3, <2>4, <2>7
  <2> QED BY <1>3, <2>5, <2>6, <2>7 DEF Handle, e
<1>4. CASE Evaluate(c)
  <2>1. Due(c) \subseteq Tiers
    BY DEF Due
  <2>2. PICK done \in SUBSET Due(c) :
          /\ \/ announced' = [announced EXCEPT ![c] = announced[c] \cup done]
             \/ \E last \in Due(c) \ done :
                  announced' = [announced EXCEPT ![c] = announced[c] \cup done \cup {last}]
          /\ crossed' = [crossed EXCEPT ![c] = Marks(c, done)]
          /\ refused' = [refused EXCEPT ![c] = Due(c) \ done]
    BY <1>4 DEF Evaluate
  <2>3. /\ announced' \in [Consumers -> SUBSET Tiers]
        /\ crossed' \in [Consumers -> SUBSET Tiers]
        /\ refused' \in [Consumers -> SUBSET Tiers]
    <3>1. done \in SUBSET Tiers /\ Due(c) \ done \in SUBSET Tiers
      BY <2>1
    <3>2. ASSUME NEW f \in [Consumers -> SUBSET Tiers], NEW T \in SUBSET Tiers
          PROVE  /\ [f EXCEPT ![c] = f[c] \cup T] \in [Consumers -> SUBSET Tiers]
                 /\ [f EXCEPT ![c] = T] \in [Consumers -> SUBSET Tiers]
      OBVIOUS
    <3>3. crossed' = [crossed EXCEPT ![c] = crossed[c] \cup done]
      BY <2>2 DEF Marks
    <3>4. /\ crossed' \in [Consumers -> SUBSET Tiers]
          /\ refused' \in [Consumers -> SUBSET Tiers]
          /\ [announced EXCEPT ![c] = announced[c] \cup done] \in [Consumers -> SUBSET Tiers]
      BY <1>1, <2>2, <3>1, <3>2, <3>3
    <3>5. ASSUME NEW last \in Due(c) \ done,
                 announced' = [announced EXCEPT ![c] = announced[c] \cup done \cup {last}]
          PROVE  announced' \in [Consumers -> SUBSET Tiers]
      <4>1. announced[c] \cup done \cup {last} \in SUBSET Tiers
        BY <1>1, <2>1, <3>1
      <4> QED BY <1>1, <3>5, <4>1
    <3> QED BY <2>2, <3>4, <3>5
  <2> QED BY <1>1, <1>4, <2>3 DEF Evaluate
<1>5. CASE Save(c)
  BY <1>1, <1>5 DEF Save, ledgerVars
<1>6. CASE Reconnect(c)
  BY <1>1, <1>6 DEF Reconnect, ledgerVars
<1>7. CASE Disconnect(c)
  <2>1. Due(c) \in SUBSET Tiers
    BY DEF Due
  <2>2. crossed' \in [Consumers -> SUBSET Tiers] /\ refused' \in [Consumers -> SUBSET Tiers]
    BY <1>1, <1>7, <2>1 DEF Disconnect
  <2> QED BY <1>1, <1>7, <2>2 DEF Disconnect
<1> QED BY <1>2, <1>3, <1>4, <1>5, <1>6, <1>7 DEF ConsumerStep

LEMMA NextKeepsRows == ASSUME RowsInv, [Next]_vars PROVE RowsInv'
<1>1. NumbersInv'
  BY NextKeepsNumbers DEF RowsInv
<1>2. CASE BusStep /\ UNCHANGED consumerVars
  <2>1. TypeOK' /\ IsFiniteSet(log')
    BY <1>2, BusTypes DEF RowsInv, TypeOK, consumerVars
  <2>2. RequestsStand'
    <3> SUFFICES ASSUME NEW p \in Publishers, pending'[p] # 0 PROVE request'[p] # 0
      BY DEF RequestsStand
    <3>0. /\ RequestsStand /\ request \in [Publishers -> 0..MaxEvents]
          /\ pending \in [Publishers -> Nat] /\ issued \in 0..MaxEvents
      BY DEF RowsInv, TypeOK, BusTypeOK
    <3>1. ASSUME NEW q \in Publishers, Submit(q) PROVE request'[p] # 0
      BY <3>0, <3>1 DEF Submit, RequestsStand
    <3>2. ASSUME NEW q \in Publishers, Insert(q) PROVE request'[p] # 0
      BY <3>0, <3>2 DEF Insert, RequestsStand
    <3>3. ASSUME NEW q \in Publishers, FanOut(q) PROVE request'[p] # 0
      BY <3>0, <3>3 DEF FanOut, RequestsStand
    <3>6. ASSUME NEW q \in Publishers, GiveUp(q) PROVE request'[p] # 0
      BY <3>0, <3>6 DEF GiveUp, RequestsStand
    <3>7. ASSUME NEW e \in late, FanOutLate(e) PROVE request'[p] # 0
      BY <3>0, <3>7 DEF FanOutLate, RequestsStand
    <3>4. ASSUME NEW c \in Consumers, Replay(c) \/ Join(c) \/ Forward(c) PROVE request'[p] # 0
      BY <3>0, <3>4 DEF Replay, Join, Forward, RequestsStand
    <3>5. CASE Evict \/ Restart
      BY <3>0, <3>5 DEF Evict, Restart, RequestsStand
    <3> QED BY <1>2, <3>1, <3>2, <3>3, <3>4, <3>5, <3>6, <3>7 DEF BusStep
  <2> QED BY <1>1, <2>1, <2>2 DEF RowsInv
<1>3. ASSUME NEW c \in Consumers, ConsumerStep(c) PROVE RowsInv'
  <2>1. BusTypeOK' /\ UNCHANGED <<log, request, pending>>
    BY <1>3, ConsumerSessions DEF RowsInv, TypeOK, BusTypeOK
  <2>2. TypeOK'
    BY <1>3, <2>1, ConsumerTypes
  <2> QED BY <1>1, <2>1, <2>2 DEF RowsInv, RequestsStand
<1>4. CASE UNCHANGED vars
  BY <1>1, <1>4 DEF RowsInv, TypeOK, BusTypeOK, RequestsStand, vars, busVars, consumerVars
<1> QED BY <1>2, <1>3, <1>4 DEF Next

\* Type correctness of the bus and of its consumers, across restarts that read
\* the counter back.
THEOREM TypesHold == Spec => []TypeOK
<1>1. Spec => []RowsInv
  BY InitRows, NextKeepsRows, PTL DEF Spec
<1>2. RowsInv => TypeOK
  BY DEF RowsInv
<1> QED BY <1>1, <1>2, PTL

-----------------------------------------------------------------------------
(* One session: what it owes, as the rows, the counter, the publishers that *)
(* wait for a fan-out, the rows whose attempt was given up before it and    *)
(* the numbers of those attempts (rows, top, waits, out and gone below)     *)
(* change around it.                                                        *)

Given(s) == Range(s.sent) \cup Range(s.buf)

\* Where the replay is: nothing is numbered at or below it any more, unless it
\* never left last_sequence.
CursorOk(s, top) ==
  /\ s.cursor = s.start \/ s.cursor <= top
  /\ s.mode # "live" => s.buf = <<>>
  /\ s.mode = "replay" => \A e \in Range(s.sent) : e.seq <= s.cursor

\* A publisher that waits is waiting for its newest row.
InTurn(s, top, waits, gone) ==
  /\ Ordered(s.sent \o s.buf, gone)
  /\ \A e \in Given(s) : e.seq <= top /\ (waits[e.by] # 0 => e.seq <= waits[e.by])

Replayed(s, rows) == \A e \in rows :
  (s.mode # "none" /\ e.id \in Matching /\ s.start < e.seq /\ e.seq <= s.cursor) => e \in Given(s)

\* A row whose fan-out is still to come.
Outstanding(e, waits, out) == e \in out \/ \E p \in Publishers : waits[p] = e.seq

Delivered(s, rows, waits, out) == \A e \in rows :
  (s.mode = "live" /\ e.id \in Matching /\ s.joined < e.seq /\ ~Outstanding(e, waits, out)) =>
    e \in Given(s) \cup s.dropped

SessionOk(s, rows, top, waits, out, gone) ==
  CursorOk(s, top) /\ InTurn(s, top, waits, gone) /\ Replayed(s, rows) /\ Delivered(s, rows, waits, out)

\* The rows of the publishers that wait: the newest each has.
WaitsOk(rows, top, reqs, waits) == \A p \in Publishers : waits[p] # 0 =>
  /\ waits[p] <= top
  /\ \A e \in rows : e.seq = waits[p] => e.id = reqs[p] /\ e.by = p
  /\ \A e \in rows : e.by = p => e.seq <= waits[p]

\* The attempts given up: their numbers are known, and below what their
\* publishers wait for now.
LateOk(top, waits, out, gone) == \A e \in out :
  e.seq \in gone /\ e.seq <= top /\ (waits[e.by] # 0 => e.seq <= waits[e.by])

\* A session that has sent nothing owes nothing.
LEMMA FreshSession ==
  ASSUME NEW s, s.sent = <<>>, s.buf = <<>>, s.cursor = s.start, s.mode # "live",
         NEW rows, rows \subseteq Row, NEW top, NEW waits, NEW out, NEW gone, s.start \in Nat
  PROVE  SessionOk(s, rows, top, waits, out, gone)
<1>1. <<>> \in Seq(Row) /\ Len(<<>>) = 0 /\ <<>> \o <<>> = <<>>
  OBVIOUS
<1>2. Range(<<>>) = {}
  <2>1. Range(<<>>) = {<<>>[i] : i \in 1..Len(<<>>)}
    BY <1>1, RangeEquality
  <2> QED BY <1>1, <2>1
<1>3. Given(s) = {} /\ Ordered(s.sent \o s.buf, gone)
  BY <1>1, <1>2 DEF Given, Ordered
<1>4. Replayed(s, rows)
  BY DEF Replayed, Row
<1> QED BY <1>2, <1>3, <1>4 DEF SessionOk, CursorOk, InTurn, Delivered

\* What only the consumer sees of a session makes no difference.
LEMMA SameStream ==
  ASSUME NEW s, NEW t, t.mode = s.mode, t.start = s.start, t.cursor = s.cursor, t.joined = s.joined,
         t.buf = s.buf, t.sent = s.sent, t.dropped = s.dropped,
         NEW rows, NEW top, NEW waits, NEW out, NEW gone, SessionOk(s, rows, top, waits, out, gone)
  PROVE  SessionOk(t, rows, top, waits, out, gone)
<1>1. Given(t) = Given(s)
  BY DEF Given
<1> QED BY <1>1 DEF SessionOk, CursorOk, InTurn, Replayed, Delivered

\* An insert takes a number that no session has passed.
LEMMA InsertIsOwed ==
  ASSUME NEW s \in Session, NEW rows, rows \subseteq Row, NEW top \in Nat,
         NEW waits \in [Publishers -> Nat], NEW out, NEW gone, SessionOk(s, rows, top, waits, out, gone),
         NEW p \in Publishers, waits[p] = 0, NEW r \in Row, r.seq = top + 1
  PROVE  SessionOk(s, rows \cup {r}, top + 1, [waits EXCEPT ![p] = top + 1], out, gone)
<1>0. /\ s.start \in Nat /\ s.cursor \in Nat /\ s.joined \in Nat
      /\ \A e \in Given(s) : e.seq \in Nat /\ e.by \in Publishers
  <2>1. s.sent \in Seq(Row) /\ s.buf \in Seq(Row) /\ s.start \in Nat /\ s.cursor \in Nat /\ s.joined \in Nat
    BY DEF Session
  <2>2. Given(s) \subseteq Row
    BY <2>1, RangeOfSeq DEF Given
  <2> QED BY <2>1, <2>2 DEF Row
<1>1. CursorOk(s, top + 1)
  BY <1>0 DEF SessionOk, CursorOk
<1>2. InTurn(s, top + 1, [waits EXCEPT ![p] = top + 1], gone)
  BY <1>0 DEF SessionOk, InTurn
<1>3. Replayed(s, rows \cup {r})
  BY <1>0 DEF SessionOk, CursorOk, Replayed
<1>4. Delivered(s, rows \cup {r}, [waits EXCEPT ![p] = top + 1], out)
  <2> SUFFICES ASSUME NEW e \in rows \cup {r}, s.mode = "live", e.id \in Matching, s.joined < e.seq,
                      ~Outstanding(e, [waits EXCEPT ![p] = top + 1], out)
               PROVE  e \in Given(s) \cup s.dropped
    BY DEF Delivered
  <2>1. e \in rows /\ e.seq \in Nat /\ e.seq # 0
    BY <1>0 DEF Row, Outstanding
  <2>2. ~Outstanding(e, waits, out)
    BY <2>1 DEF Outstanding
  <2> QED BY <2>1, <2>2 DEF SessionOk, Delivered
<1> QED BY <1>1, <1>2, <1>3, <1>4 DEF SessionOk

\* fanOut: the row is appended to the buffer, or dropped, and the publisher's
\* earlier rows are all before it, unless its attempt was given up.
LEMMA OfferIsDelivered ==
  ASSUME NEW s \in Session, NEW rows, rows \subseteq Row, NEW top \in Nat,
         NEW waits, NEW out, NEW gone, SessionOk(s, rows, top, waits, out, gone),
         NEW left \in [Publishers -> Nat], \A p \in Publishers : left[p] # 0 => left[p] = waits[p],
         NEW less, NEW r \in Row, r.seq <= top, left[r.by] # 0 => r.seq <= left[r.by],
         r.seq \in gone \/ \A e \in Given(s) : e.by = r.by => e.seq <= r.seq,
         \A e \in rows : Outstanding(e, waits, out) => e = r \/ Outstanding(e, left, less)
  PROVE  SessionOk(Offer(s, r), rows, top, left, less, gone)
<1> DEFINE t == Offer(s, r)
<1>0. /\ s.sent \in Seq(Row) /\ s.buf \in Seq(Row) /\ s.joined \in Nat
      /\ \A e \in Given(s) : e.seq \in Nat /\ e.by \in Publishers
  <2>1. s.sent \in Seq(Row) /\ s.buf \in Seq(Row) /\ s.joined \in Nat
    BY DEF Session
  <2>2. Given(s) \subseteq Row
    BY <2>1, RangeOfSeq DEF Given
  <2> QED BY <2>1, <2>2 DEF Row
<1>1. /\ t.mode = s.mode /\ t.start = s.start /\ t.cursor = s.cursor /\ t.joined = s.joined
      /\ t.sent = s.sent
      /\ \/ t.buf = s.buf /\ t.dropped = s.dropped /\ (s.mode # "live" \/ r.id \notin Matching)
         \/ t.buf = Append(s.buf, r) /\ t.dropped = s.dropped /\ s.mode = "live"
         \/ t.buf = s.buf /\ t.dropped = s.dropped \cup {r}
  BY DEF Offer, Session
<1>2. /\ Range(Append(s.buf, r)) = Range(s.buf) \cup {r}
      /\ s.sent \o Append(s.buf, r) = Append(s.sent \o s.buf, r)
      /\ s.sent \o s.buf \in Seq(Row)
      /\ Range(s.sent \o s.buf) = Given(s)
  <2> DEFINE a == s.sent  b == s.buf
  <2>1. a \in Seq(Row) /\ b \in Seq(Row)
    BY <1>0
  <2> HIDE DEF a, b
  <2>2. Range(Append(b, r)) = Range(b) \cup {r}
    BY <2>1, RangeOfAppend
  <2>3. /\ a \o b \in Seq(Row) /\ Range(a \o b) = Range(a) \cup Range(b)
        /\ a \o Append(b, r) = Append(a \o b, r)
    BY <2>1, AppendAfter
  <2> QED BY <2>2, <2>3 DEF a, b, Given
<1>3. /\ Given(t) \cup t.dropped = Given(s) \cup s.dropped
           \cup (IF s.mode = "live" /\ r.id \in Matching THEN {r} ELSE {})
      /\ Given(s) \subseteq Given(t) /\ Given(t) \subseteq Given(s) \cup {r}
  BY <1>1, <1>2 DEF Given, Offer
<1> HIDE DEF t
<1>5. CursorOk(t, top)
  BY <1>1 DEF SessionOk, CursorOk
<1>6. InTurn(t, top, left, gone)
  <2>1. \A e \in Given(t) : e.seq <= top /\ (left[e.by] # 0 => e.seq <= left[e.by])
    BY <1>0, <1>3 DEF SessionOk, InTurn
  <2>2. \A e \in Given(s) : e.by = r.by => e.seq <= r.seq \/ r.seq \in gone
    OBVIOUS
  <2>3. Ordered(s.sent \o s.buf, gone) /\ Ordered(Append(s.sent \o s.buf, r), gone)
    BY <1>2, <2>2, OrderedAppend DEF SessionOk, InTurn
  <2>4. Ordered(t.sent \o t.buf, gone)
    BY <1>1, <1>2, <2>3
  <2> QED BY <2>1, <2>4 DEF InTurn
<1>7. Replayed(t, rows)
  BY <1>1, <1>3 DEF SessionOk, Replayed
<1>8. Delivered(t, rows, left, less)
  <2> SUFFICES ASSUME NEW e \in rows, s.mode = "live", e.id \in Matching, s.joined < e.seq,
                      ~Outstanding(e, left, less)
               PROVE  e \in Given(t) \cup t.dropped
    BY <1>1 DEF Delivered
  <2>1. CASE e = r
    BY <1>3, <2>1
  <2>2. CASE ~Outstanding(e, waits, out)
    BY <1>3, <2>2 DEF SessionOk, Delivered
  <2> QED BY <2>1, <2>2
<1> QED BY <1>5, <1>6, <1>7, <1>8 DEF SessionOk, t

\* The row that a publisher waits for.
LEMMA AwaitedRow ==
  ASSUME NEW rows, rows \subseteq Row, NEW top \in Nat, NEW reqs, NEW waits \in [Publishers -> Nat],
         WaitsOk(rows, top, reqs, waits), NEW p \in Publishers, waits[p] # 0,
         NEW r \in Row, r = [seq |-> waits[p], id |-> reqs[p], by |-> p]
  PROVE  /\ r.seq = waits[p] /\ r.by = p /\ r.seq <= top
         /\ \A e \in rows : e.seq = waits[p] => e = r
<1>1. r.seq = waits[p] /\ r.by = p /\ r.id = reqs[p] /\ r.seq <= top
  BY DEF WaitsOk
<1>2. ASSUME NEW e \in rows, e.seq = waits[p] PROVE e = r
  <2>1. e.id = r.id /\ e.by = r.by /\ e.seq = r.seq /\ e \in Row
    BY <1>1, <1>2 DEF WaitsOk
  <2> QED BY <2>1 DEF Row
<1> QED BY <1>1, <1>2

\* An attempt given up is owed as before: what its publisher waited for is now
\* among the rows to fan out late.
LEMMA GivenUpIsOwed ==
  ASSUME NEW s \in Session, NEW rows, rows \subseteq Row, NEW top \in Nat, NEW reqs,
         NEW waits \in [Publishers -> Nat], NEW out, NEW gone, SessionOk(s, rows, top, waits, out, gone),
         WaitsOk(rows, top, reqs, waits), NEW p \in Publishers, waits[p] # 0,
         NEW r \in Row, r = [seq |-> waits[p], id |-> reqs[p], by |-> p], NEW n
  PROVE  SessionOk(s, rows, top, [waits EXCEPT ![p] = 0], out \cup {r}, gone \cup {n})
<1> DEFINE left == [waits EXCEPT ![p] = 0]
<1>1. \A e \in rows : e.seq = waits[p] => e = r
  BY AwaitedRow
<1>2. \A e \in rows : Outstanding(e, waits, out) => Outstanding(e, left, out \cup {r})
  BY <1>1 DEF Outstanding
<1>3. Given(s) \subseteq Row
  <2>1. s.sent \in Seq(Row) /\ s.buf \in Seq(Row)
    BY DEF Session
  <2> QED BY <2>1, RangeOfSeq DEF Given
<1>4. InTurn(s, top, left, gone \cup {n})
  BY <1>3 DEF SessionOk, InTurn, Ordered, Row
<1>5. Delivered(s, rows, left, out \cup {r})
  BY <1>2 DEF SessionOk, Delivered
<1> QED BY <1>4, <1>5 DEF SessionOk

\* Retention takes rows away; what is left was owed before.
LEMMA EvictionOwesNothing ==
  ASSUME NEW s, NEW rows, NEW top, NEW waits, NEW out, NEW gone, SessionOk(s, rows, top, waits, out, gone),
         NEW fewer \in SUBSET rows
  PROVE  SessionOk(s, fewer, top, waits, out, gone)
BY DEF SessionOk, Replayed, Delivered

\* The replay's end: an empty batch.
LEMMA ReplayEnds ==
  ASSUME NEW s \in Session, s.mode = "replay", NEW rows, NEW top, NEW waits, NEW out, NEW gone,
         SessionOk(s, rows, top, waits, out, gone)
  PROVE  SessionOk([s EXCEPT !.mode = "joining"], rows, top, waits, out, gone)
<1> DEFINE t == [s EXCEPT !.mode = "joining"]
<1>1. /\ t.mode = "joining" /\ t.start = s.start /\ t.cursor = s.cursor /\ t.joined = s.joined
      /\ t.buf = s.buf /\ t.sent = s.sent /\ t.dropped = s.dropped
  BY DEF Session
<1> HIDE DEF t
<1>2. Given(t) = Given(s)
  BY <1>1 DEF Given
<1>3. CursorOk(t, top) /\ InTurn(t, top, waits, gone)
  BY <1>1, <1>2 DEF SessionOk, CursorOk, InTurn
<1>4. Replayed(t, rows) /\ Delivered(t, rows, waits, out)
  BY <1>1, <1>2 DEF SessionOk, Replayed, Delivered
<1> QED BY <1>3, <1>4 DEF SessionOk, t

\* registry.add: no row is numbered above the counter yet.
LEMMA JoinOwesNothing ==
  ASSUME NEW s \in Session, s.mode = "joining", NEW rows, NEW top \in Nat, NEW waits, NEW out, NEW gone,
         SessionOk(s, rows, top, waits, out, gone), rows \subseteq Row, \A e \in rows : e.seq <= top
  PROVE  SessionOk([s EXCEPT !.mode = "live", !.joined = top], rows, top, waits, out, gone)
<1> DEFINE t == [s EXCEPT !.mode = "live", !.joined = top]
<1>1. /\ t.mode = "live" /\ t.start = s.start /\ t.cursor = s.cursor /\ t.joined = top
      /\ t.buf = s.buf /\ t.sent = s.sent /\ t.dropped = s.dropped
  BY DEF Session
<1> HIDE DEF t
<1>2. Given(t) = Given(s)
  BY <1>1 DEF Given
<1>3. Delivered(t, rows, waits, out)
  BY <1>1 DEF Delivered, Row
<1>4. CursorOk(t, top) /\ InTurn(t, top, waits, gone)
  BY <1>1, <1>2 DEF SessionOk, CursorOk, InTurn
<1>5. Replayed(t, rows)
  BY <1>1, <1>2 DEF SessionOk, Replayed
<1> QED BY <1>3, <1>4, <1>5 DEF SessionOk, t

\* The live loop moves a row from the buffer to the stream.
LEMMA ForwardKeepsOrder ==
  ASSUME NEW s \in Session, s.mode = "live", s.buf # <<>>, NEW rows, NEW top, NEW waits, NEW out, NEW gone,
         SessionOk(s, rows, top, waits, out, gone), NEW t,
         t = [s EXCEPT !.buf = Tail(s.buf), !.sent = Append(s.sent, Head(s.buf)),
                       !.wire = Append(s.wire, Head(s.buf))]
  PROVE  SessionOk(t, rows, top, waits, out, gone)
<1> DEFINE a == s.sent  b == s.buf  h == Head(b)  r == Tail(b)  k == <<h>>
<1>1. /\ t.mode = "live" /\ t.start = s.start /\ t.cursor = s.cursor /\ t.joined = s.joined
      /\ t.buf = r /\ t.sent = Append(a, h) /\ t.dropped = s.dropped
  BY DEF Session
<1>2. a \in Seq(Row) /\ b \in Seq(Row) /\ b # <<>>
  BY DEF Session
<1> HIDE DEF a, b
<1>3. /\ h \in Row /\ r \in Seq(Row) /\ Range(b) = {h} \cup Range(r) /\ b = k \o r
  BY <1>2, RangeOfHeadAndTail
<1> HIDE DEF h, r
<1>4. k \in Seq(Row)
  BY <1>3, RangeOfOne
<1>5. Append(a, h) = a \o k /\ Range(Append(a, h)) = Range(a) \cup {h}
  BY <1>2, <1>3, AppendIsConcat, RangeOfAppend
<1> HIDE DEF k
<1>6. (a \o k) \o r = a \o (k \o r)
  BY <1>2, <1>3, <1>4, ConcatAssociative
<1>7. t.sent \o t.buf = s.sent \o s.buf
  BY <1>1, <1>3, <1>5, <1>6 DEF a, b
<1>8. Given(t) = Given(s)
  BY <1>1, <1>3, <1>5 DEF Given, a, b
<1>9. CursorOk(t, top) /\ InTurn(t, top, waits, gone)
  BY <1>1, <1>7, <1>8 DEF SessionOk, CursorOk, InTurn
<1>10. Replayed(t, rows) /\ Delivered(t, rows, waits, out)
  BY <1>1, <1>8 DEF SessionOk, Replayed, Delivered
<1> QED BY <1>9, <1>10 DEF SessionOk

\* A round of replay: the rows it sends are those above the cursor up to the
\* new one, and they follow everything sent before.
LEMMA ReplayAdvances ==
  ASSUME RowsInv, WaitsOk(log, counter, request, pending), NEW s \in Session, s.mode = "replay",
         SessionOk(s, log, counter, pending, late, abandoned), GetSince(s.cursor) # {},
         NEW chosen \in Ascending({e \in GetSince(s.cursor) : e.id \in Matching}), NEW t,
         t = [s EXCEPT !.cursor = Max({e.seq : e \in GetSince(s.cursor)}),
                       !.sent = s.sent \o chosen, !.wire = s.wire \o chosen]
  PROVE  SessionOk(t, log, counter, pending, late, abandoned)
<1> DEFINE batch == GetSince(s.cursor)
           m == Max({e.seq : e \in batch})
           a == s.sent
<1>1. a \in Seq(Row) /\ s.cursor \in Nat /\ s.start \in Nat /\ s.buf = <<>>
  BY DEF Session, SessionOk, CursorOk
<1>2. /\ batch \subseteq {e \in log : e.seq > s.cursor}
      /\ chosen \in Seq(Row) /\ Ordered(chosen, abandoned)
      /\ Range(chosen) = {e \in batch : e.id \in Matching}
      /\ m \in {e.seq : e \in batch}
      /\ \A e \in batch : e.seq <= m
  BY <1>1, ReplayReads
<1>3. /\ t.mode = "replay" /\ t.start = s.start /\ t.cursor = m
      /\ t.buf = <<>> /\ t.sent = a \o chosen
  BY <1>1 DEF Session
<1>4. log \subseteq Row /\ counter \in Nat /\ \A e \in log : e.seq <= counter
  BY DEF RowsInv, TypeOK, BusTypeOK, NumbersInv, CounterIsAhead
<1>5. \A e \in batch, f \in batch \cup log : (e.seq \in Nat /\ f.seq <= e.seq /\ s.cursor < f.seq) => f \in batch
  BY <1>1, <1>2, <1>4, BatchIsGapless DEF RowsInv
<1> HIDE DEF batch, m
<1>6. m \in Nat /\ m <= counter /\ s.cursor < m
  BY <1>1, <1>2, <1>4 DEF Row
<1>7. <<>> \in Seq(Row) /\ Range(<<>>) = {}
  <2>1. <<>> \in Seq(Row) /\ Len(<<>>) = 0
    OBVIOUS
  <2>2. Range(<<>>) = {<<>>[i] : i \in 1..Len(<<>>)}
    BY <2>1, RangeEquality
  <2> QED BY <2>1, <2>2
<1>8. /\ a \o chosen \in Seq(Row) /\ Range(a \o chosen) = Range(a) \cup Range(chosen)
      /\ (a \o chosen) \o <<>> = a \o chosen
      /\ a \o <<>> = a
  BY <1>1, <1>2, ConcatProperties, RangeConcatenation, ConcatEmptySeq
<1>9. Range(a) \subseteq Row
  BY <1>1, RangeOfSeq
<1> HIDE DEF a
<1>10. Given(t) = Given(s) \cup Range(chosen) /\ Given(s) = Range(a)
  BY <1>1, <1>3, <1>7, <1>8 DEF Given, a
<1>11. \A e \in Range(a) : e.seq \in Nat /\ e.seq <= s.cursor
  BY <1>9 DEF SessionOk, CursorOk, a, Row
<1>12. \A e \in Range(chosen) : e.seq \in Nat /\ s.cursor < e.seq /\ e.seq <= m /\ e \in log
  BY <1>2, <1>4 DEF Row
<1>13. CursorOk(t, counter)
  <2>1. \A e \in Range(a \o chosen) : e.seq <= m
    BY <1>1, <1>6, <1>8, <1>11, <1>12
  <2>2. Range(t.sent) = Range(a \o chosen)
    BY <1>3
  <2> QED BY <1>3, <1>6, <2>1, <2>2 DEF CursorOk
<1>14. InTurn(t, counter, pending, abandoned)
  <2>1. Ordered(a, abandoned)
    BY <1>1, <1>8 DEF SessionOk, InTurn, a
  <2>2. Ordered(a \o chosen, abandoned)
    <3>1. \A e \in Range(a), f \in Range(chosen) : e.seq <= f.seq
      BY <1>1, <1>11, <1>12
    <3> QED BY <1>1, <1>2, <2>1, <3>1, OrderedConcat DEF a
  <2>3. \A e \in Range(chosen) : e.seq <= counter /\ (pending[e.by] # 0 => e.seq <= pending[e.by])
    BY <1>4, <1>12 DEF WaitsOk, Row
  <2> QED BY <1>3, <1>8, <1>10, <2>2, <2>3 DEF SessionOk, InTurn
<1>15. Replayed(t, log)
  <2> SUFFICES ASSUME NEW e \in log, e.id \in Matching, s.start < e.seq, e.seq <= m
               PROVE  e \in Given(t)
    BY <1>3 DEF Replayed
  <2>1. e.seq \in Nat
    BY <1>4 DEF Row
  <2>2. CASE e.seq <= s.cursor
    BY <2>2, <1>10 DEF SessionOk, Replayed
  <2>3. CASE s.cursor < e.seq
    <3>1. PICK f \in batch : f.seq = m
      BY <1>2
    <3>2. e \in batch
      BY <1>5, <1>6, <2>3, <3>1
    <3> QED BY <1>2, <1>10, <3>2
  <2> QED BY <1>1, <2>1, <2>2, <2>3
<1>16. Delivered(t, log, pending, late)
  BY <1>3 DEF Delivered
<1> QED BY <1>13, <1>14, <1>15, <1>16 DEF SessionOk

-----------------------------------------------------------------------------
(* Every session, step by step *)

BusInv ==
  /\ RowsInv
  /\ WaitsOk(log, counter, request, pending)
  /\ LateOk(counter, pending, late, abandoned)
  /\ \A c \in Consumers : SessionOk(sub[c], log, counter, pending, late, abandoned)

LEMMA NoSessionOwes ==
  ASSUME NEW rows, rows \subseteq Row, NEW top, NEW waits, NEW out, NEW gone
  PROVE  SessionOk(NoSession, rows, top, waits, out, gone)
<1>1. /\ NoSession.sent = <<>> /\ NoSession.buf = <<>> /\ NoSession.mode # "live"
      /\ NoSession.cursor = NoSession.start /\ NoSession.start \in Nat
  BY DEF NoSession
<1> QED BY <1>1, FreshSession

LEMMA InitBus == ASSUME Init PROVE BusInv
<1>1. RowsInv
  BY InitRows
<1>2. WaitsOk(log, counter, request, pending) /\ LateOk(counter, pending, late, abandoned)
  BY DEF Init, BusInit, WaitsOk, LateOk
<1>3. \A c \in Consumers : SessionOk(sub[c], log, counter, pending, late, abandoned)
  BY <1>1, NoSessionOwes DEF Init, BusInit, RowsInv, TypeOK, BusTypeOK
<1> QED BY <1>1, <1>2, <1>3 DEF BusInv

\* A publisher that waits has its newest row in the store, and nothing else
\* under that number.
LEMMA WaitsFollow ==
  ASSUME BusInv, BusStep
  PROVE  WaitsOk(log', counter', request', pending')
<1>0. /\ WaitsOk(log, counter, request, pending) /\ RequestsStand /\ log \subseteq Row
      /\ counter \in Nat /\ \A e \in log : e.seq <= counter /\ e.seq \in Nat
      /\ request \in [Publishers -> 0..MaxEvents] /\ pending \in [Publishers -> Nat]
  BY DEF BusInv, RowsInv, TypeOK, BusTypeOK, NumbersInv, CounterIsAhead, Row
<1>1. ASSUME NEW p \in Publishers, Submit(p) PROVE WaitsOk(log', counter', request', pending')
  BY <1>0, <1>1 DEF Submit, WaitsOk, RequestsStand
<1>2. ASSUME NEW p \in Publishers, Insert(p) PROVE WaitsOk(log', counter', request', pending')
  <2> DEFINE r == [seq |-> counter + 1, id |-> request[p], by |-> p]
  <2>1. /\ log' = log \cup {r} /\ counter' = counter + 1 /\ request' = request
        /\ pending' = [pending EXCEPT ![p] = counter + 1]
    BY <1>2 DEF Insert
  <2>2. r.seq = counter + 1 /\ r.id = request[p] /\ r.by = p
    OBVIOUS
  <2> HIDE DEF r
  <2> QED BY <1>0, <2>1, <2>2 DEF WaitsOk
<1>3. ASSUME NEW p \in Publishers, FanOut(p) PROVE WaitsOk(log', counter', request', pending')
  BY <1>0, <1>3 DEF FanOut, WaitsOk
<1>7. ASSUME NEW p \in Publishers, GiveUp(p) PROVE WaitsOk(log', counter', request', pending')
  BY <1>0, <1>7 DEF GiveUp, WaitsOk
<1>8. ASSUME NEW e \in late, FanOutLate(e) PROVE WaitsOk(log', counter', request', pending')
  BY <1>0, <1>8 DEF FanOutLate
<1>4. ASSUME NEW c \in Consumers, Replay(c) \/ Join(c) \/ Forward(c)
      PROVE  WaitsOk(log', counter', request', pending')
  BY <1>0, <1>4 DEF Replay, Join, Forward
<1>5. CASE Evict
  BY <1>0, <1>5 DEF Evict, WaitsOk
<1>6. CASE Restart
  BY <1>6 DEF Restart, WaitsOk
<1> QED BY <1>1, <1>2, <1>3, <1>4, <1>5, <1>6, <1>7, <1>8 DEF BusStep

\* The numbers of the attempts given up stay below what their publishers wait
\* for: the next number is above them all.
LEMMA LateFollow ==
  ASSUME BusInv, BusStep
  PROVE  LateOk(counter', pending', late', abandoned')
<1>0. /\ LateOk(counter, pending, late, abandoned) /\ WaitsOk(log, counter, request, pending)
      /\ counter \in Nat /\ pending \in [Publishers -> Nat]
      /\ \A e \in late : e.seq \in Nat /\ e.by \in Publishers
  BY DEF BusInv, RowsInv, TypeOK, BusTypeOK, Row
<1>1. ASSUME UNCHANGED <<counter, pending, late, abandoned>> PROVE LateOk(counter', pending', late', abandoned')
  BY <1>0, <1>1
<1>2. ASSUME NEW p \in Publishers, Submit(p) PROVE LateOk(counter', pending', late', abandoned')
  BY <1>1, <1>2 DEF Submit
<1>3. ASSUME NEW p \in Publishers, Insert(p) PROVE LateOk(counter', pending', late', abandoned')
  BY <1>0, <1>3 DEF Insert, LateOk
<1>4. ASSUME NEW p \in Publishers, FanOut(p) PROVE LateOk(counter', pending', late', abandoned')
  BY <1>0, <1>4 DEF FanOut, LateOk
<1>5. ASSUME NEW p \in Publishers, GiveUp(p) PROVE LateOk(counter', pending', late', abandoned')
  BY <1>0, <1>5 DEF GiveUp, LateOk, WaitsOk, Published
<1>6. ASSUME NEW e \in late, FanOutLate(e) PROVE LateOk(counter', pending', late', abandoned')
  BY <1>0, <1>6 DEF FanOutLate, LateOk
<1>7. ASSUME NEW c \in Consumers, Replay(c) \/ Join(c) \/ Forward(c)
      PROVE  LateOk(counter', pending', late', abandoned')
  BY <1>1, <1>7 DEF Replay, Join, Forward
<1>8. CASE Evict
  BY <1>1, <1>8 DEF Evict
<1>9. CASE Restart
  BY <1>9 DEF Restart, LateOk
<1> QED BY <1>2, <1>3, <1>4, <1>5, <1>6, <1>7, <1>8, <1>9 DEF BusStep

\* Each step of the bus leaves every session what it is owed.
LEMMA SessionsFollowBus ==
  ASSUME BusInv, BusStep, NEW c \in Consumers
  PROVE  SessionOk(sub'[c], log', counter', pending', late', abandoned')
<1>0. /\ SessionOk(sub[c], log, counter, pending, late, abandoned) /\ WaitsOk(log, counter, request, pending)
      /\ sub \in [Consumers -> Session] /\ sub[c] \in Session
      /\ log \subseteq Row /\ counter \in Nat /\ pending \in [Publishers -> Nat]
      /\ (\A e \in log : e.seq <= counter) /\ LateOk(counter, pending, late, abandoned)
      /\ late \subseteq Row
  BY DEF BusInv, RowsInv, TypeOK, BusTypeOK, NumbersInv, CounterIsAhead
<1>1. ASSUME NEW p \in Publishers, Submit(p) PROVE SessionOk(sub'[c], log', counter', pending', late', abandoned')
  BY <1>0, <1>1 DEF Submit
<1>2. ASSUME NEW p \in Publishers, Insert(p) PROVE SessionOk(sub'[c], log', counter', pending', late', abandoned')
  <2> DEFINE r == [seq |-> counter + 1, id |-> request[p], by |-> p]
  <2>1. /\ log' = log \cup {r} /\ counter' = counter + 1 /\ UNCHANGED <<sub, late, abandoned>>
        /\ pending' = [pending EXCEPT ![p] = counter + 1] /\ pending[p] = 0
    BY <1>2 DEF Insert
  <2>2. r.seq = counter + 1 /\ r \in Row
    BY <1>2, BusAssumption DEF Insert, Row, BusInv, RowsInv, TypeOK, BusTypeOK
  <2> HIDE DEF r
  <2> QED BY <1>0, <2>1, <2>2, InsertIsOwed
<1>3. ASSUME NEW p \in Publishers, FanOut(p)
      PROVE  SessionOk(sub'[c], log', counter', pending', late', abandoned')
  <2> DEFINE r == Published(p)
             left == [pending EXCEPT ![p] = 0]
  <2>1. r \in Row /\ r = [seq |-> pending[p], id |-> request[p], by |-> p]
    BY <1>3, PublishedType DEF BusInv, RowsInv, RequestsStand, FanOut, Published
  <2>2. /\ sub'[c] = Offer(sub[c], r) /\ pending[p] # 0
        /\ log' = log /\ counter' = counter /\ pending' = left /\ UNCHANGED <<late, abandoned>>
    BY <1>3 DEF FanOut, OfferToAll
  <2> HIDE DEF r
  <2>3. /\ r.seq = pending[p] /\ r.by = p /\ r.seq <= counter
        /\ \A e \in log : e.seq = pending[p] => e = r
    BY <1>0, <2>1, <2>2, AwaitedRow
  <2>4. \A e \in Given(sub[c]) : e.by = r.by => e.seq <= r.seq
    BY <2>2, <2>3, <1>0 DEF SessionOk, InTurn
  <2>5. \A e \in log : Outstanding(e, pending, late) => e = r \/ Outstanding(e, left, late)
    BY <1>0, <2>3 DEF Outstanding
  <2>6. left \in [Publishers -> Nat] /\ left[r.by] = 0 /\ \A q \in Publishers : left[q] # 0 => left[q] = pending[q]
    BY <1>0, <2>3
  <2> HIDE DEF left
  <2>7. SessionOk(Offer(sub[c], r), log, counter, left, late, abandoned)
    BY <1>0, <2>1, <2>3, <2>4, <2>5, <2>6, OfferIsDelivered
  <2> QED BY <2>2, <2>7
<1>9. ASSUME NEW p \in Publishers, GiveUp(p)
      PROVE  SessionOk(sub'[c], log', counter', pending', late', abandoned')
  <2> DEFINE r == Published(p)
  <2>1. r \in Row /\ r = [seq |-> pending[p], id |-> request[p], by |-> p]
    BY <1>9, PublishedType DEF BusInv, RowsInv, RequestsStand, GiveUp, Published
  <2>2. /\ UNCHANGED <<log, counter, sub>> /\ pending[p] # 0 /\ pending' = [pending EXCEPT ![p] = 0]
        /\ late' = late \cup {r} /\ abandoned' = abandoned \cup {pending[p]}
    BY <1>9 DEF GiveUp
  <2> HIDE DEF r
  <2> QED BY <1>0, <2>1, <2>2, GivenUpIsOwed
<1>10. ASSUME NEW r \in late, FanOutLate(r)
       PROVE  SessionOk(sub'[c], log', counter', pending', late', abandoned')
  <2>1. /\ sub'[c] = Offer(sub[c], r) /\ late' = late \ {r}
        /\ UNCHANGED <<log, counter, pending, abandoned>>
    BY <1>10 DEF FanOutLate, OfferToAll
  <2>2. /\ r \in Row /\ r.seq \in abandoned /\ r.seq <= counter
        /\ (pending[r.by] # 0 => r.seq <= pending[r.by])
    BY <1>0 DEF LateOk
  <2>3. \A e \in log : Outstanding(e, pending, late) => e = r \/ Outstanding(e, pending, late \ {r})
    BY DEF Outstanding
  <2>4. SessionOk(Offer(sub[c], r), log, counter, pending, late \ {r}, abandoned)
    BY <1>0, <2>2, <2>3, OfferIsDelivered
  <2> QED BY <2>1, <2>4
<1>4. ASSUME NEW d \in Consumers, Replay(d) PROVE SessionOk(sub'[c], log', counter', pending', late', abandoned')
  <2>1. UNCHANGED <<log, counter, pending, late, abandoned>>
    BY <1>4 DEF Replay
  <2>2. CASE d # c
    <3>1. sub'[c] = sub[c]
      BY <1>0, <1>4, <2>2 DEF Replay
    <3> QED BY <1>0, <2>1, <3>1
  <2>3. CASE d = c /\ GetSince(sub[c].cursor) = {}
    <3>1. sub'[c] = [sub[c] EXCEPT !.mode = "joining"] /\ sub[c].mode = "replay"
      BY <1>0, <1>4, <2>3 DEF Replay
    <3> QED BY <1>0, <2>1, <3>1, ReplayEnds
  <2>4. CASE d = c /\ GetSince(sub[c].cursor) # {}
    <3>1. PICK chosen \in Ascending({e \in GetSince(sub[c].cursor) : e.id \in Matching}) :
            sub' = [sub EXCEPT ![c].cursor = Max({e.seq : e \in GetSince(sub[c].cursor)}),
                               ![c].sent = @ \o chosen, ![c].wire = @ \o chosen]
      BY <1>4, <2>4 DEF Replay
    <3> DEFINE t == [sub[c] EXCEPT !.cursor = Max({e.seq : e \in GetSince(sub[c].cursor)}),
                                   !.sent = sub[c].sent \o chosen, !.wire = sub[c].wire \o chosen]
    <3>2. sub'[c] = t
      BY <1>0, <3>1
    <3>3. sub[c].mode = "replay"
      BY <1>4, <2>4 DEF Replay
    <3>4. SessionOk(t, log, counter, pending, late, abandoned)
      BY <1>0, <2>4, <3>3, ReplayAdvances DEF BusInv
    <3> HIDE DEF t
    <3> QED BY <2>1, <3>2, <3>4
  <2> QED BY <2>2, <2>3, <2>4
<1>5. ASSUME NEW d \in Consumers, Join(d) PROVE SessionOk(sub'[c], log', counter', pending', late', abandoned')
  <2>1. /\ UNCHANGED <<log, counter, pending, late, abandoned>> /\ sub[d].mode = "joining"
        /\ sub'[c] = IF c = d THEN [sub[c] EXCEPT !.mode = "live", !.joined = counter] ELSE sub[c]
    BY <1>0, <1>5 DEF Join
  <2> DEFINE t == [sub[c] EXCEPT !.mode = "live", !.joined = counter]
  <2>2. c = d => SessionOk(t, log, counter, pending, late, abandoned)
    BY <1>0, <2>1, JoinOwesNothing
  <2> HIDE DEF t
  <2>3. SessionOk(sub'[c], log, counter, pending, late, abandoned)
    BY <1>0, <2>1, <2>2 DEF t
  <2> QED BY <2>1, <2>3
<1>6. ASSUME NEW d \in Consumers, Forward(d) PROVE SessionOk(sub'[c], log', counter', pending', late', abandoned')
  <2> DEFINE s == sub[c]
             t == [s EXCEPT !.buf = Tail(s.buf), !.sent = Append(s.sent, Head(s.buf)),
                            !.wire = Append(s.wire, Head(s.buf))]
  <2>1. UNCHANGED <<log, counter, pending, late, abandoned>>
    BY <1>6 DEF Forward
  <2>2. CASE c = d
    <3>1. sub'[c] = t /\ s.mode = "live" /\ s.buf # <<>>
      BY <1>0, <1>6, <2>2 DEF Forward
    <3>2. SessionOk(t, log, counter, pending, late, abandoned)
      BY <1>0, <3>1, ForwardKeepsOrder
    <3> HIDE DEF t
    <3> QED BY <2>1, <3>1, <3>2
  <2>3. CASE c # d
    <3>1. sub'[c] = sub[c]
      BY <1>0, <1>6, <2>3 DEF Forward
    <3> QED BY <1>0, <2>1, <3>1
  <2> QED BY <2>2, <2>3
<1>7. CASE Evict
  <2>1. log' \in SUBSET log /\ UNCHANGED <<counter, pending, late, abandoned, sub>>
    BY <1>7 DEF Evict
  <2> QED BY <1>0, <2>1, EvictionOwesNothing
<1>8. CASE Restart
  <2>1. log' = log /\ sub'[c] = NoSession
    BY <1>8 DEF Restart
  <2> QED BY <1>0, <2>1, NoSessionOwes
<1> QED BY <1>1, <1>2, <1>3, <1>4, <1>5, <1>6, <1>7, <1>8, <1>9, <1>10 DEF BusStep

LEMMA SessionsFollowConsumer ==
  ASSUME BusInv, NEW d \in Consumers, ConsumerStep(d), NEW c \in Consumers
  PROVE  SessionOk(sub'[c], log', counter', pending', late', abandoned')
<1>0. SessionOk(sub[c], log, counter, pending, late, abandoned) /\ log \subseteq Row /\ RowsInv
  BY DEF BusInv, RowsInv, TypeOK, BusTypeOK
<1>1. UNCHANGED <<log, counter, pending, late, abandoned>> /\ (c # d => sub'[c] = sub[c])
  BY <1>0, ConsumerSessions
<1>2. CASE sub'[c] = sub[c]
  BY <1>0, <1>1, <1>2
<1>3. CASE sub'[c] = NoSession
  BY <1>0, <1>1, <1>3, NoSessionOwes
<1>4. ASSUME NEW last \in Nat,
             sub'[c] = [NoSession EXCEPT !.mode = IF last > 0 THEN "replay" ELSE "joining",
                                         !.start = last, !.cursor = last]
      PROVE  SessionOk(sub'[c], log', counter', pending', late', abandoned')
  <2> DEFINE s == sub'[c]
  <2>1. s.sent = <<>> /\ s.buf = <<>> /\ s.cursor = s.start /\ s.mode # "live" /\ s.start \in Nat
    BY <1>4 DEF NoSession
  <2> HIDE DEF s
  <2>2. SessionOk(s, log, counter, pending, late, abandoned)
    BY <1>0, <2>1, FreshSession
  <2> QED BY <1>1, <2>2 DEF s
<1>5. CASE sub'[c] = [sub[c] EXCEPT !.wire = Tail(sub[c].wire)]
  <2> DEFINE s == sub[c]  t == sub'[c]
  <2>1. /\ t.mode = s.mode /\ t.start = s.start /\ t.cursor = s.cursor /\ t.joined = s.joined
        /\ t.buf = s.buf /\ t.sent = s.sent /\ t.dropped = s.dropped
    <3>1. s \in Session
      BY DEF BusInv, RowsInv, TypeOK, BusTypeOK
    <3> QED BY <1>5, <3>1 DEF Session
  <2>2. SessionOk(s, log, counter, pending, late, abandoned)
    BY <1>0
  <2> HIDE DEF s, t
  <2>3. SessionOk(t, log, counter, pending, late, abandoned)
    BY <2>1, <2>2, SameStream
  <2> QED BY <1>1, <2>3 DEF t
<1> QED BY <1>0, <1>1, <1>2, <1>3, <1>4, <1>5, ConsumerSessions

LEMMA NextKeepsBus == ASSUME BusInv, [Next]_vars PROVE BusInv'
<1>1. RowsInv'
  BY NextKeepsRows DEF BusInv
<1>2. CASE BusStep
  BY <1>1, <1>2, WaitsFollow, LateFollow, SessionsFollowBus DEF BusInv
<1>3. ASSUME NEW d \in Consumers, ConsumerStep(d) PROVE BusInv'
  <2>1. UNCHANGED <<log, counter, request, pending, late, abandoned>>
    BY <1>3, ConsumerSessions DEF BusInv
  <2> QED BY <1>1, <1>3, <2>1, SessionsFollowConsumer DEF BusInv
<1>4. CASE UNCHANGED vars
  BY <1>1, <1>4 DEF BusInv, vars, busVars
<1> QED BY <1>2, <1>3, <1>4 DEF Next

LEMMA BusHolds == Spec => []BusInv
BY InitBus, NextKeepsBus, PTL DEF Spec

\* The replay loop of Subscribe skips no row: whatever is retained between
\* last_sequence and the cursor and passes the filter was sent, whatever comes
\* and goes between two batches.
THEOREM ReplayMissesNothing == Spec => []ReplayIsComplete
<1>1. BusInv => ReplayIsComplete
  BY DEF BusInv, SessionOk, Replayed, ReplayIsComplete, Offered, Given
<1> QED BY <1>1, BusHolds, PTL

\* fanOut: a subscriber that was added before a row got its number is offered
\* the row, or the row is dropped at its full buffer.
THEOREM LiveMissesNothing == Spec => []LiveIsComplete
<1>1. BusInv => LiveIsComplete
  BY DEF BusInv, SessionOk, Delivered, Outstanding, LiveIsComplete, Offered, Given
<1> QED BY <1>1, BusHolds, PTL

\* A stream has each publisher's rows in the order of their numbers, though
\* insert and fan-out share no lock: a publisher waits for its acknowledgement,
\* and what it stopped waiting for is all that can come after a higher number.
THEOREM StreamsAreInOrder == Spec => []StreamInOrder
<1>1. BusInv => StreamInOrder
  <2> SUFFICES ASSUME BusInv, NEW c \in Consumers PROVE
        LET s == sub[c].sent \o sub[c].buf
        IN  \A i, j \in 1..Len(s) :
              (i < j /\ s[i].by = s[j].by /\ s[j].seq < s[i].seq) => s[j].seq \in abandoned
    BY DEF StreamInOrder
  <2> DEFINE a == sub[c].sent  b == sub[c].buf  s == a \o b
  <2>1. Ordered(s, abandoned) /\ a \in Seq(Row) /\ b \in Seq(Row)
    BY DEF BusInv, SessionOk, InTurn, RowsInv, TypeOK, BusTypeOK, Session
  <2>2. s \in Seq(Row)
    <3> HIDE DEF a, b
    <3> QED BY <2>1, ConcatProperties
  <2> HIDE DEF s
  <2>3. \A i \in 1..Len(s) : s[i].seq \in Nat
    <3>1. \A i \in 1..Len(s) : s[i] \in Row
      BY <2>2
    <3> QED BY <3>1 DEF Row
  <2>4. \A i, j \in 1..Len(s) :
          (i < j /\ s[i].by = s[j].by /\ s[j].seq < s[i].seq) => s[j].seq \in abandoned
    BY <2>1, <2>3 DEF Ordered
  <2> QED BY <2>4 DEF s
<1> QED BY <1>1, BusHolds, PTL

-----------------------------------------------------------------------------
(* What a consumer's checkpoint stands for, on a channel without retention  *)

\* What is on its way to a consumer is stored and passed the filter.
WireOk(s, rows) == \A e \in Range(s.wire) \cup Range(s.buf) : e \in rows /\ e.id \in Matching

\* The rows still to be fanned out.
StoredOk == late \subseteq log /\ \A p \in Publishers : pending[p] # 0 => Published(p) \in log

WasHandled(c, n) == \E e \in log : e.seq = n /\ e.id \in Matching /\ counted[c][e.id] > 0

Answered(c) == \A t \in Tiers :
  (Friction(c) # 0 /\ Friction(c) >= t) => t \in announced[c] \cup refused[c]

\* An event that was stored and will be delivered again.
ComesAgain(c) == \E e \in log :
  e.seq > checkpoint[c] /\ e.id \in Matching /\ counted[c][e.id] > 0

MarksOk(c) ==
  /\ crossed[c] \subseteq announced[c]
  /\ checkpoint[c] # 0 => WasHandled(c, checkpoint[c])
  /\ at[c] \in {"evaluating", "saving"} => WasHandled(c, current[c])
  /\ at[c] = "saving" => Answered(c)
  /\ at[c] \in {"away", "reading"} => Answered(c) \/ ComesAgain(c)

HandledInv ==
  /\ BusInv
  /\ \A e \in log : e.seq > 0
  /\ StoredOk
  /\ \A c \in Consumers : WireOk(sub[c], log) /\ MarksOk(c)

LEMMA EmptyRange == <<>> \in Seq(Row) /\ Range(<<>>) = {}
<1>1. <<>> \in Seq(Row) /\ Len(<<>>) = 0
  OBVIOUS
<1>2. Range(<<>>) = {<<>>[i] : i \in 1..Len(<<>>)}
  BY <1>1, RangeEquality
<1> QED BY <1>1, <1>2

LEMMA QuietWire ==
  ASSUME NEW s, s.wire = <<>>, s.buf = <<>>, NEW rows
  PROVE  WireOk(s, rows)
BY EmptyRange DEF WireOk

\* A consumer that has stored nothing has no friction.
LEMMA NoFriction ==
  ASSUME NEW c \in Consumers, counted[c] = [e \in 1..MaxEvents |-> 0]
  PROVE  Friction(c) = 0
<1>1. UNION {{id} \X (1..counted[c][id]) : id \in 1..MaxEvents} = {}
  <2>1. \A id \in 1..MaxEvents : counted[c][id] = 0
    OBVIOUS
  <2>2. 1..0 = {}
    OBVIOUS
  <2>3. \A id \in 1..MaxEvents : {id} \X (1..counted[c][id]) = {}
    BY <2>1, <2>2
  <2> QED BY <2>3
<1> QED BY <1>1, FS_EmptySet DEF Friction

LEMMA InitHandled == ASSUME Init PROVE HandledInv
<1>1. BusInv /\ StoredOk /\ \A e \in log : e.seq > 0
  BY InitBus DEF Init, BusInit, StoredOk
<1>2. ASSUME NEW c \in Consumers PROVE WireOk(sub[c], log)
  <2>1. NoSession.wire = <<>> /\ NoSession.buf = <<>>
    BY DEF NoSession
  <2>2. sub[c] = NoSession
    BY DEF Init, BusInit
  <2> QED BY <2>1, <2>2, QuietWire
<1>3. ASSUME NEW c \in Consumers PROVE MarksOk(c)
  <2>1. Friction(c) = 0
    BY NoFriction DEF Init
  <2>2. crossed[c] = {} /\ checkpoint[c] = 0 /\ at[c] = "away"
    BY DEF Init
  <2> QED BY <2>1, <2>2 DEF MarksOk, Answered
<1> QED BY <1>1, <1>2, <1>3 DEF HandledInv

\* Rows are only added.
LEMMA RowsGrow ==
  ASSUME HandledInv, ~Retention, BusStep
  PROVE  log \subseteq log' /\ (\A e \in log' : e.seq > 0) /\ StoredOk'
<1>0. /\ StoredOk /\ RequestsStand /\ (\A e \in log : e.seq > 0) /\ counter \in Nat
      /\ request \in [Publishers -> 0..MaxEvents] /\ pending \in [Publishers -> Nat]
  BY DEF HandledInv, BusInv, RowsInv, TypeOK, BusTypeOK
<1>1. ASSUME NEW p \in Publishers, Submit(p)
      PROVE  log \subseteq log' /\ (\A e \in log' : e.seq > 0) /\ StoredOk'
  BY <1>0, <1>1 DEF Submit, StoredOk, Published, RequestsStand
<1>2. ASSUME NEW p \in Publishers, Insert(p)
      PROVE  log \subseteq log' /\ (\A e \in log' : e.seq > 0) /\ StoredOk'
  <2> DEFINE r == [seq |-> counter + 1, id |-> request[p], by |-> p]
  <2>1. /\ log' = log \cup {r} /\ UNCHANGED <<request, late>>
        /\ pending' = [pending EXCEPT ![p] = counter + 1]
    BY <1>2 DEF Insert
  <2>2. r.seq > 0
    BY <1>0
  <2>3. ASSUME NEW q \in Publishers, pending'[q] # 0 PROVE Published(q)' \in log'
    BY <1>0, <2>1, <2>3 DEF StoredOk, Published
  <2> HIDE DEF r
  <2> QED BY <1>0, <2>1, <2>2, <2>3 DEF StoredOk
<1>3. ASSUME NEW p \in Publishers, FanOut(p)
      PROVE  log \subseteq log' /\ (\A e \in log' : e.seq > 0) /\ StoredOk'
  BY <1>0, <1>3 DEF FanOut, StoredOk, Published
<1>7. ASSUME NEW p \in Publishers, GiveUp(p)
      PROVE  log \subseteq log' /\ (\A e \in log' : e.seq > 0) /\ StoredOk'
  BY <1>0, <1>7 DEF GiveUp, StoredOk, Published
<1>8. ASSUME NEW e \in late, FanOutLate(e)
      PROVE  log \subseteq log' /\ (\A f \in log' : f.seq > 0) /\ StoredOk'
  BY <1>0, <1>8 DEF FanOutLate, StoredOk, Published
<1>4. ASSUME NEW c \in Consumers, Replay(c) \/ Join(c) \/ Forward(c)
      PROVE  log \subseteq log' /\ (\A e \in log' : e.seq > 0) /\ StoredOk'
  BY <1>0, <1>4 DEF Replay, Join, Forward, StoredOk, Published
<1>5. CASE Evict
  BY <1>5 DEF Evict
<1>6. CASE Restart
  BY <1>0, <1>6 DEF Restart, StoredOk
<1> QED BY <1>1, <1>2, <1>3, <1>4, <1>5, <1>6, <1>7, <1>8 DEF BusStep

\* The bus puts nothing on a wire that is not stored.
LEMMA WiresFollowBus ==
  ASSUME HandledInv, ~Retention, BusStep, NEW c \in Consumers
  PROVE  WireOk(sub'[c], log')
<1>0. /\ WireOk(sub[c], log) /\ sub \in [Consumers -> Session] /\ sub[c] \in Session
      /\ log \subseteq log' /\ log \subseteq Row /\ StoredOk
  BY RowsGrow DEF HandledInv, BusInv, RowsInv, TypeOK, BusTypeOK
<1>1. sub[c].wire \in Seq(Row) /\ sub[c].buf \in Seq(Row) /\ sub[c].cursor \in Nat
  BY <1>0 DEF Session
<1>2. CASE sub'[c].wire = sub[c].wire /\ sub'[c].buf = sub[c].buf
  BY <1>0, <1>2 DEF WireOk
<1>3. ASSUME NEW r \in log, sub'[c] = Offer(sub[c], r) PROVE WireOk(sub'[c], log')
  <2>1. r \in Row
    BY <1>0
  <2>2. \/ sub'[c].wire = sub[c].wire /\ sub'[c].buf = sub[c].buf
        \/ /\ sub'[c].wire = sub[c].wire /\ sub'[c].buf = Append(sub[c].buf, r)
           /\ r.id \in Matching
    BY <1>0, <1>3, <2>1 DEF Offer, Session
  <2>3. Range(Append(sub[c].buf, r)) = Range(sub[c].buf) \cup {r}
    BY <1>1, <2>1, RangeOfAppend
  <2> QED BY <1>0, <1>3, <2>1, <2>2, <2>3 DEF WireOk
<1>10. ASSUME NEW p \in Publishers, FanOut(p) PROVE WireOk(sub'[c], log')
  BY <1>0, <1>3, <1>10 DEF FanOut, OfferToAll, StoredOk
<1>11. ASSUME NEW e \in late, FanOutLate(e) PROVE WireOk(sub'[c], log')
  BY <1>0, <1>3, <1>11 DEF FanOutLate, OfferToAll, StoredOk
<1>4. ASSUME NEW d \in Consumers, Replay(d) PROVE WireOk(sub'[c], log')
  <2>1. CASE d # c \/ GetSince(sub[d].cursor) = {}
    <3>1. sub'[c] = sub[c] \/ sub'[c] = [sub[c] EXCEPT !.mode = "joining"]
      BY <1>0, <1>4, <2>1 DEF Replay
    <3>2. sub'[c].wire = sub[c].wire /\ sub'[c].buf = sub[c].buf
      BY <1>0, <3>1 DEF Session
    <3> QED BY <1>2, <3>2
  <2>2. CASE d = c /\ GetSince(sub[c].cursor) # {}
    <3>1. PICK chosen \in Ascending({e \in GetSince(sub[c].cursor) : e.id \in Matching}) :
            sub' = [sub EXCEPT ![c].cursor = Max({e.seq : e \in GetSince(sub[c].cursor)}),
                               ![c].sent = @ \o chosen, ![c].wire = @ \o chosen]
      BY <1>4, <2>2 DEF Replay
    <3>2. /\ chosen \in Seq(Row)
          /\ \A e \in Range(chosen) : e \in log /\ e.id \in Matching
      BY <1>1, <2>2, ReplayReads DEF HandledInv, BusInv
    <3>3. sub'[c].wire = sub[c].wire \o chosen /\ sub'[c].buf = sub[c].buf
      BY <1>0, <3>1 DEF Session
    <3> DEFINE w == sub[c].wire
    <3>4. w \in Seq(Row)
      BY <1>1
    <3> HIDE DEF w
    <3>5. Range(w \o chosen) = Range(w) \cup Range(chosen)
      BY <3>2, <3>4, RangeConcatenation
    <3> QED BY <1>0, <3>2, <3>3, <3>5 DEF WireOk, w
  <2> QED BY <2>1, <2>2
<1>5. ASSUME NEW d \in Consumers, Forward(d) PROVE WireOk(sub'[c], log')
  <2>1. CASE d # c
    <3>1. sub'[c] = sub[c]
      BY <1>0, <1>5, <2>1 DEF Forward
    <3> QED BY <1>2, <3>1
  <2>2. CASE d = c
    <3> DEFINE b == sub[c].buf  w == sub[c].wire
    <3>1. /\ sub'[c].wire = Append(w, Head(b)) /\ sub'[c].buf = Tail(b) /\ b # <<>>
      BY <1>0, <1>5, <2>2 DEF Forward, Session
    <3>2. b \in Seq(Row) /\ w \in Seq(Row)
      BY <1>1
    <3> HIDE DEF b, w
    <3>3. Head(b) \in Row /\ Range(b) = {Head(b)} \cup Range(Tail(b))
      BY <3>1, <3>2, RangeOfHeadAndTail
    <3>4. Range(Append(w, Head(b))) = Range(w) \cup {Head(b)}
      BY <3>2, <3>3, RangeOfAppend
    <3>5. \A e \in Range(w) \cup Range(b) : e \in log' /\ e.id \in Matching
      BY <1>0 DEF WireOk, b, w
    <3> QED BY <3>1, <3>3, <3>4, <3>5 DEF WireOk
  <2> QED BY <2>1, <2>2
<1>6. CASE Restart
  <2>1. NoSession.wire = <<>> /\ NoSession.buf = <<>> /\ sub'[c] = NoSession
    BY <1>6 DEF NoSession, Restart
  <2> QED BY <2>1, QuietWire
<1>7. ASSUME NEW p \in Publishers, Submit(p) \/ Insert(p) \/ GiveUp(p) PROVE WireOk(sub'[c], log')
  <2>1. sub' = sub
    BY <1>7 DEF Submit, Insert, GiveUp
  <2> QED BY <1>2, <2>1
<1>8. ASSUME NEW d \in Consumers, Join(d) PROVE WireOk(sub'[c], log')
  <2>1. sub'[c].wire = sub[c].wire /\ sub'[c].buf = sub[c].buf
    BY <1>0, <1>8 DEF Join, Session
  <2> QED BY <1>2, <2>1
<1>9. CASE Evict
  BY <1>9 DEF Evict
<1> QED BY <1>4, <1>5, <1>6, <1>7, <1>8, <1>9, <1>10, <1>11 DEF BusStep

LEMMA MarksFollowBus ==
  ASSUME HandledInv, ~Retention, BusStep, UNCHANGED consumerVars, NEW c \in Consumers
  PROVE  MarksOk(c)'
<1>1. log \subseteq log' /\ MarksOk(c)
  BY RowsGrow DEF HandledInv
<1>2. UNCHANGED <<at, current, checkpoint, counted, crossed, announced, refused>>
  BY DEF consumerVars
<1>3. Friction(c)' = Friction(c)
  BY <1>2 DEF Friction
<1>4. Answered(c) => Answered(c)'
  BY <1>2, <1>3 DEF Answered
<1>5. ComesAgain(c) => ComesAgain(c)'
  BY <1>1, <1>2 DEF ComesAgain
<1>6. /\ WasHandled(c, checkpoint[c]) => WasHandled(c, checkpoint[c])'
      /\ WasHandled(c, current[c]) => WasHandled(c, current[c])'
  BY <1>1, <1>2 DEF WasHandled
<1> QED BY <1>1, <1>2, <1>4, <1>5, <1>6 DEF MarksOk

\* The consumer's own steps leave its wire a part of what it was, or empty.
LEMMA WiresFollowConsumer ==
  ASSUME HandledInv, NEW d \in Consumers, ConsumerStep(d), NEW c \in Consumers
  PROVE  WireOk(sub'[c], log')
<1>0. /\ WireOk(sub[c], log) /\ sub[c] \in Session /\ RowsInv
  BY DEF HandledInv, BusInv, RowsInv, TypeOK, BusTypeOK
<1>1. log' = log /\ (c # d => sub'[c] = sub[c])
  BY <1>0, ConsumerSessions
<1>2. CASE sub'[c] = sub[c]
  BY <1>0, <1>1, <1>2
<1>3. CASE sub'[c] = NoSession
  <2>1. NoSession.wire = <<>> /\ NoSession.buf = <<>>
    BY DEF NoSession
  <2> QED BY <1>3, <2>1, QuietWire
<1>4. ASSUME NEW last \in Nat,
             sub'[c] = [NoSession EXCEPT !.mode = IF last > 0 THEN "replay" ELSE "joining",
                                         !.start = last, !.cursor = last]
      PROVE  WireOk(sub'[c], log')
  <2>1. sub'[c].wire = <<>> /\ sub'[c].buf = <<>>
    BY <1>4 DEF NoSession
  <2> QED BY <2>1, QuietWire
<1>5. CASE sub[c].wire # <<>> /\ sub'[c] = [sub[c] EXCEPT !.wire = Tail(sub[c].wire)]
  <2> DEFINE w == sub[c].wire
  <2>1. /\ w \in Seq(Row) /\ w # <<>> /\ sub'[c].wire = Tail(w) /\ sub'[c].buf = sub[c].buf
    BY <1>0, <1>5 DEF Session
  <2> HIDE DEF w
  <2>2. Range(w) = {Head(w)} \cup Range(Tail(w))
    BY <2>1, RangeOfHeadAndTail
  <2> QED BY <1>0, <1>1, <2>1, <2>2 DEF WireOk, w
<1> QED BY <1>0, <1>1, <1>2, <1>3, <1>4, <1>5, ConsumerSessions

\* What one consumer does changes no other's marks.
LEMMA OthersMarks ==
  ASSUME HandledInv, NEW d \in Consumers, ConsumerStep(d), NEW c \in Consumers, c # d
  PROVE  MarksOk(c)'
<1>0. TypeOK /\ MarksOk(c) /\ log' = log
  BY ConsumerSessions DEF HandledInv, BusInv, RowsInv
<1>1. /\ at'[c] = at[c] /\ current'[c] = current[c] /\ checkpoint'[c] = checkpoint[c]
      /\ counted'[c] = counted[c] /\ crossed'[c] = crossed[c]
      /\ announced'[c] = announced[c] /\ refused'[c] = refused[c]
  <2> USE <1>0 DEF TypeOK
  <2>1. CASE Connect(d)
    BY <2>1 DEF Connect, ledgerVars
  <2>2. CASE Handle(d)
    BY <2>2 DEF Handle, Receives, Stores
  <2>3. CASE Evaluate(d)
    BY <2>3 DEF Evaluate
  <2>4. CASE Save(d)
    BY <2>4 DEF Save, ledgerVars
  <2>5. CASE Reconnect(d)
    BY <2>5 DEF Reconnect, ledgerVars
  <2>6. CASE Disconnect(d)
    BY <2>6 DEF Disconnect
  <2> QED BY <2>1, <2>2, <2>3, <2>4, <2>5, <2>6 DEF ConsumerStep
<1>2. Friction(c)' = Friction(c)
  BY <1>1 DEF Friction
<1> QED BY <1>0, <1>1, <1>2 DEF MarksOk, Answered, ComesAgain, WasHandled

\* An event that is handled: what it adds, and what stays.
LEMMA HandledMarks ==
  ASSUME HandledInv, NEW c \in Consumers, Handle(c)
  PROVE  MarksOk(c)'
<1>0. TypeOK /\ MarksOk(c) /\ WireOk(sub[c], log) /\ sub[c] \in Session
  BY DEF HandledInv, BusInv, RowsInv, TypeOK, BusTypeOK
<1> DEFINE w == sub[c].wire  e == Head(w)
<1>1. w \in Seq(Row) /\ w # <<>>
  BY <1>0 DEF Handle, Receives, Session
<1>2. /\ at[c] = "reading" /\ UNCHANGED <<log, checkpoint, crossed, announced, refused>>
  BY DEF Handle, Receives
<1>3. \/ Stores(c, e)
      \/ UNCHANGED <<at, current, counted>>
  BY DEF Handle
<1> HIDE DEF w
<1>4. e \in Row /\ e \in Range(w)
  BY <1>1, RangeOfHeadAndTail
<1>5. e \in log /\ e.id \in Matching /\ e.id \in 1..MaxEvents /\ e.seq \in Nat
  BY <1>0, <1>4 DEF WireOk, w, Row
<1> HIDE DEF e
<1>6. CASE Stores(c, e)
  <2>1. /\ at'[c] = "evaluating" /\ current'[c] = e.seq
        /\ counted' = [counted EXCEPT ![c] = [counted[c] EXCEPT ![e.id] = counted[c][e.id] + 1]]
    BY <1>0, <1>6 DEF Stores, TypeOK
  <2> DEFINE f == counted[c]  g == counted'[c]
  <2>2. f \in [1..MaxEvents -> Nat] /\ g = [f EXCEPT ![e.id] = f[e.id] + 1]
    BY <1>0, <2>1 DEF TypeOK
  <2> HIDE DEF f, g
  <2>3. g[e.id] > 0 /\ \A id \in 1..MaxEvents : f[id] > 0 => g[id] > 0
    BY <1>5, <2>2
  <2>4. WasHandled(c, current[c])'
    BY <1>2, <1>5, <2>1, <2>3 DEF WasHandled, g
  <2>5. checkpoint[c] # 0 => WasHandled(c, checkpoint[c])'
    <3>1. \A x \in log : x.id \in 1..MaxEvents
      BY <1>0 DEF TypeOK, BusTypeOK, Row
    <3> QED BY <1>0, <1>2, <2>3, <3>1 DEF MarksOk, WasHandled, f, g
  <2> QED BY <1>0, <1>2, <2>1, <2>4, <2>5 DEF MarksOk
<1>7. CASE UNCHANGED <<at, current, counted>>
  <2>1. Friction(c)' = Friction(c)
    BY <1>7 DEF Friction
  <2> QED BY <1>0, <1>2, <1>7, <2>1 DEF MarksOk, Answered, ComesAgain, WasHandled
<1> QED BY <1>3, <1>6, <1>7

\* evaluateThreshold answers every tier that the friction has reached: it is
\* marked, or published now, or left for the next event.
LEMMA EvaluatedMarks ==
  ASSUME HandledInv, NEW c \in Consumers, Evaluate(c)
  PROVE  MarksOk(c)'
<1>0. TypeOK /\ MarksOk(c)
  BY DEF HandledInv, BusInv, RowsInv
<1>1. /\ UNCHANGED <<log, current, checkpoint, counted>> /\ at[c] = "evaluating"
      /\ at'[c] = "saving"
  BY <1>0 DEF Evaluate, TypeOK
<1>2. Friction(c)' = Friction(c)
  BY <1>1 DEF Friction
<1>3. PICK done \in SUBSET Due(c) :
        /\ \/ announced' = [announced EXCEPT ![c] = announced[c] \cup done]
           \/ \E last \in Due(c) \ done :
                announced' = [announced EXCEPT ![c] = announced[c] \cup done \cup {last}]
        /\ crossed' = [crossed EXCEPT ![c] = Marks(c, done)]
        /\ refused' = [refused EXCEPT ![c] = Due(c) \ done]
  BY DEF Evaluate
<1>4. /\ announced[c] \cup done \subseteq announced'[c]
      /\ crossed'[c] = crossed[c] \cup done /\ refused'[c] = Due(c) \ done
  BY <1>0, <1>3 DEF TypeOK, Marks
<1>5. crossed'[c] \subseteq announced'[c]
  BY <1>0, <1>4 DEF MarksOk
<1>6. Answered(c)'
  <2> SUFFICES ASSUME NEW t \in Tiers, Friction(c) >= t
               PROVE  t \in announced'[c] \cup refused'[c]
    BY <1>2 DEF Answered
  <2>1. t \in Due(c) \/ t \in crossed[c]
    BY DEF Due
  <2> QED BY <1>0, <1>4, <2>1 DEF MarksOk
<1> QED BY <1>0, <1>1, <1>5, <1>6 DEF MarksOk, WasHandled

\* A consumer that dies with an event stored and not saved gets it again, unless
\* a later one was saved: then the tiers it left are refused.
LEMMA DisconnectedMarks ==
  ASSUME HandledInv, NEW c \in Consumers, Disconnect(c)
  PROVE  MarksOk(c)'
<1>0. TypeOK /\ MarksOk(c)
  BY DEF HandledInv, BusInv, RowsInv
<1>1. /\ UNCHANGED <<log, checkpoint, counted, announced>> /\ at[c] # "away" /\ at'[c] = "away"
      /\ crossed'[c] \in {crossed[c], {}}
      /\ refused'[c] = IF at[c] = "evaluating" /\ current[c] <= checkpoint[c]
                         THEN Due(c) ELSE refused[c]
  BY <1>0 DEF Disconnect, TypeOK
<1>2. Friction(c)' = Friction(c)
  BY <1>1 DEF Friction
<1>3. Answered(c)' \/ ComesAgain(c)'
  <2>1. CASE at[c] = "saving" \/ at[c] = "reading"
    BY <1>0, <1>1, <1>2, <2>1 DEF MarksOk, Answered, ComesAgain
  <2>2. CASE at[c] = "evaluating" /\ current[c] <= checkpoint[c]
    <3>1. ASSUME NEW t \in Tiers, Friction(c) >= t PROVE t \in announced[c] \cup Due(c)
      BY <1>0, <3>1 DEF Due, MarksOk
    <3> QED BY <1>1, <1>2, <2>2, <3>1 DEF Answered
  <2>3. CASE at[c] = "evaluating" /\ ~(current[c] <= checkpoint[c])
    <3>1. current[c] > checkpoint[c] /\ WasHandled(c, current[c])
      BY <1>0, <2>3 DEF TypeOK, MarksOk
    <3> QED BY <1>1, <3>1 DEF WasHandled, ComesAgain
  <2>4. at[c] \in {"away", "reading", "evaluating", "saving"}
    BY <1>0 DEF TypeOK
  <2> QED BY <1>1, <2>1, <2>2, <2>3, <2>4
<1> QED BY <1>0, <1>1, <1>3 DEF MarksOk, WasHandled

LEMMA MarksFollowConsumer ==
  ASSUME HandledInv, NEW c \in Consumers, ConsumerStep(c)
  PROVE  MarksOk(c)'
<1>0. TypeOK /\ MarksOk(c)
  BY DEF HandledInv, BusInv, RowsInv
<1>1. CASE Connect(c) \/ Reconnect(c)
  <2>1. /\ UNCHANGED <<log, checkpoint, counted, crossed, announced, refused>>
        /\ at[c] \in {"away", "reading"} /\ at'[c] \in {"away", "reading"}
    BY <1>0, <1>1 DEF Connect, Reconnect, ledgerVars, busVars, TypeOK
  <2>2. Friction(c)' = Friction(c)
    BY <2>1 DEF Friction
  <2> QED BY <1>0, <2>1, <2>2 DEF MarksOk, Answered, ComesAgain, WasHandled
<1>2. CASE Save(c)
  <2>1. /\ UNCHANGED <<log, counted, crossed, announced, refused>>
        /\ at[c] = "saving" /\ at'[c] = "reading" /\ checkpoint'[c] \in {current[c], checkpoint[c]}
    BY <1>0, <1>2 DEF Save, ledgerVars, TypeOK
  <2>2. Friction(c)' = Friction(c)
    BY <2>1 DEF Friction
  <2>3. Answered(c)'
    BY <1>0, <2>1, <2>2 DEF MarksOk, Answered
  <2> QED BY <1>0, <2>1, <2>3 DEF MarksOk, WasHandled
<1> QED BY <1>1, <1>2, HandledMarks, EvaluatedMarks, DisconnectedMarks DEF ConsumerStep

LEMMA NextKeepsHandled == ASSUME HandledInv, ~Retention, [Next]_vars PROVE HandledInv'
<1>1. BusInv'
  BY NextKeepsBus DEF HandledInv
<1>2. CASE BusStep /\ UNCHANGED consumerVars
  BY <1>1, <1>2, RowsGrow, WiresFollowBus, MarksFollowBus DEF HandledInv
<1>3. ASSUME NEW d \in Consumers, ConsumerStep(d) PROVE HandledInv'
  <2>1. UNCHANGED <<log, request, pending, late>>
    BY <1>3, ConsumerSessions DEF HandledInv, BusInv
  <2>2. (\A e \in log' : e.seq > 0) /\ StoredOk'
    BY <2>1 DEF HandledInv, StoredOk, Published
  <2>3. \A c \in Consumers : MarksOk(c)'
    BY <1>3, OthersMarks, MarksFollowConsumer
  <2> QED BY <1>1, <1>3, <2>2, <2>3, WiresFollowConsumer DEF HandledInv
<1>4. CASE UNCHANGED vars
  <2>1. \A c \in Consumers : Friction(c)' = Friction(c)
    BY <1>4 DEF Friction, vars, consumerVars
  <2>2. \A c \in Consumers : MarksOk(c)'
    BY <1>4, <2>1 DEF HandledInv, MarksOk, Answered, ComesAgain, WasHandled, vars, busVars, consumerVars,
       ledgerVars
  <2> QED BY <1>1, <1>4, <2>2 DEF HandledInv, StoredOk, Published, vars, busVars
<1> QED BY <1>2, <1>3, <1>4 DEF Next

LEMMA HandledHolds == ASSUME ~Retention PROVE Spec => []HandledInv
BY InitHandled, NextKeepsHandled, PTL DEF Spec

\* On a channel without retention, a saved checkpoint is a number the bus still
\* counts, and the row that has it was handled: resuming there skips nothing.
THEOREM CheckpointsStandForRows == ASSUME ~Retention PROVE Spec => []CheckpointWasHandled
<1>1. HandledInv => CheckpointWasHandled
  <2> SUFFICES ASSUME HandledInv, NEW c \in Consumers
               PROVE  /\ checkpoint[c] <= counter
                      /\ \A e \in log : e.seq = checkpoint[c] => counted[c][e.id] > 0
    BY DEF CheckpointWasHandled
  <2>1. /\ TypeOK /\ NumbersAreUnique /\ MarksOk(c) /\ \A e \in log : e.seq > 0 /\ e.seq <= counter
    BY DEF HandledInv, BusInv, RowsInv, NumbersInv, CounterIsAhead
  <2>2. checkpoint[c] \in Nat /\ counter \in Nat
    BY <2>1 DEF TypeOK, BusTypeOK
  <2>3. CASE checkpoint[c] = 0
    BY <2>1, <2>2, <2>3
  <2>4. CASE checkpoint[c] # 0
    <3>1. PICK f \in log : f.seq = checkpoint[c] /\ counted[c][f.id] > 0
      BY <2>1, <2>4 DEF MarksOk, WasHandled
    <3>2. \A e \in log : e.seq = checkpoint[c] => e = f
      BY <2>1, <3>1 DEF NumbersAreUnique
    <3> QED BY <2>1, <3>1, <3>2
  <2> QED BY <2>3, <2>4
<1> QED BY <1>1, HandledHolds, PTL

\* On a channel without retention, every tier that a law's friction has reached
\* was announced, across lost streams, repeated events and deaths at any step, but
\* for an evaluation that is under way, failed or died overtaken, or one that an
\* event still to come makes good.
THEOREM CrossingsAreAnnounced == ASSUME ~Retention PROVE Spec => []CrossingIsAnnounced
<1>1. HandledInv => CrossingIsAnnounced
  <2> SUFFICES ASSUME HandledInv, NEW c \in Consumers, NEW t \in Tiers,
                      Friction(c) # 0, Friction(c) >= t
               PROVE  \/ t \in announced[c] \cup refused[c]
                      \/ at[c] = "evaluating"
                      \/ ComesAgain(c)
    BY DEF CrossingIsAnnounced, ComesAgain
  <2>1. MarksOk(c) /\ at[c] \in {"away", "reading", "evaluating", "saving"}
    BY DEF HandledInv, BusInv, RowsInv, TypeOK
  <2> QED BY <2>1 DEF MarksOk, Answered
<1> QED BY <1>1, HandledHolds, PTL

=============================================================================
