------------------------ MODULE QueueMirror_proofs -------------------------
(***************************************************************************)
(* A mirrored queue, for any number of shards, parkings, faults and        *)
(* restarts: whatever the funnel, the sweeper and the playbacks read, and  *)
(* however long ago, a store goes back to an older parking of the item     *)
(* only by a call that was overtaken between its comparison and its write; *)
(* what was acknowledged stays with a shard that can be read; and with one *)
(* fault a claim is granted to one claimer.                                *)
(***************************************************************************)
EXTENDS QueueMirror, FiniteSetTheorems, TLAPS

Copies == Copy \cup {NoCopy}

\* Beyond the types: an enqueue carries a minted generation, and a shard the
\* sweeper is about to converge has reported.
StoreInv ==
  /\ TypeOK
  /\ write.call = "apply" => write.gen > 0
  /\ \A s \in sweep.todo : sweep.report[s] # Unread

\* What a store may do with its copy.
Keeps(c, d) == d \in Copies /\ (d # NoCopy => d.gen >= c.gen)
\* What a call under way may leave in the store of h.
Leaves(h, d) == d \in Copies /\ (d # NoCopy /\ d.gen < copy[h].gen => Compared(h, d.gen))

-----------------------------------------------------------------------------
(* The operations of a store. *)

LEMMA StoreOperations ==
  ASSUME NEW c \in Copies
  PROVE  /\ Keeps(c, c) /\ Keeps(c, ClaimItem(c)) /\ Keeps(c, ReleaseItem(c))
         /\ Keeps(c, DecideItem(c))
         /\ \A gen : Keeps(c, DropItem(c, gen))
<1>1. c.gen \in 0..MaxGen
  BY QueueAssumption DEF Copies, Copy, NoCopy
<1>2. Keeps(c, c)
  BY <1>1 DEF Keeps
<1>3. Keeps(c, ClaimItem(c))
  BY <1>1 DEF Keeps, ClaimItem, Copies, Copy, NoCopy
<1>4. Keeps(c, ReleaseItem(c))
  BY <1>1 DEF Keeps, ReleaseItem, Copies, Copy, NoCopy
<1>5. Keeps(c, DecideItem(c))
  BY <1>2 DEF Keeps, DecideItem, Copies
<1>7. \A gen : Keeps(c, DropItem(c, gen))
  BY <1>2 DEF Keeps, DropItem, Copies
<1> QED BY <1>2, <1>3, <1>4, <1>5, <1>7

LEMMA CopyGen == ASSUME NEW c \in Copies PROVE c.gen \in 0..MaxGen /\ (c = NoCopy => c.gen = 0)
BY QueueAssumption DEF Copies, Copy, NoCopy

LEMMA KeepsIsLeaves ==
  ASSUME NEW h \in Hosts, NEW d, copy[h] \in Copies, Keeps(copy[h], d)
  PROVE  Leaves(h, d)
<1>1. copy[h].gen \in Nat /\ d.gen \in Nat
  BY CopyGen DEF Keeps
<1> QED BY <1>1 DEF Keeps, Leaves

\* An apply call never goes back behind the row it compared with.
LEMMA ApplyLeaves ==
  ASSUME StoreInv, NEW w, NEW s \in Shards, Addr(s) \in Hosts, NEW item \in Copies, NEW row \in Rows(w, s)
  PROVE  row \in Copies /\ Leaves(Addr(s), ApplyItem(copy[Addr(s)], row, item))
<1> DEFINE c == copy[Addr(s)]
<1>1. c \in Copies
  BY DEF StoreInv, TypeOK, Copies
<1>2. c.gen \in Nat /\ item.gen \in Nat
  BY <1>1, CopyGen
<1>3. Leaves(Addr(s), c)
  BY <1>1, StoreOperations, KeepsIsLeaves
<1>4. CASE row = c
  <2>1. Keeps(c, item) \/ ApplyItem(c, row, item) = c
    BY <1>2, <1>4 DEF ApplyItem, Keeps
  <2>2. ApplyItem(c, row, item) \in {c, item}
    BY DEF ApplyItem
  <2> QED BY <1>1, <1>2, <1>3, <1>4, <2>1, <2>2, KeepsIsLeaves
<1>5. ASSUME NEW e \in early, e.shard = s, e.row = row PROVE row \in Copies /\ Leaves(Addr(s), ApplyItem(c, row, item))
  <2>1. e \in ApplyCall
    BY DEF StoreInv, TypeOK
  <2>2. row \in Copies
    BY <1>5, <2>1 DEF ApplyCall, Copies
  <2>3. row.gen \in Nat
    BY <2>2, CopyGen
  <2>4. CASE ApplyItem(c, row, item) = c
    BY <1>3, <2>2, <2>4
  <2>5. CASE ApplyItem(c, row, item) # c
    <3>1. ApplyItem(c, row, item) = item /\ item.gen >= row.gen /\ (row = NoCopy => c = NoCopy)
      BY <2>5 DEF ApplyItem
    <3>2. row # NoCopy => Compared(Addr(s), item.gen)
      BY <1>2, <1>5, <2>3, <3>1 DEF Compared
    <3>3. row = NoCopy => ~(item.gen < c.gen)
      BY <1>1, <1>2, <3>1, CopyGen
    <3> QED BY <2>2, <3>1, <3>2, <3>3 DEF Leaves
  <2> QED BY <2>4, <2>5
<1>6. row = c \/ \E e \in early : e.shard = s /\ e.row = row
  BY DEF Rows, Begun
<1> QED BY <1>1, <1>4, <1>5, <1>6

\* What holds of all stores when one of them is left so.
AllKeep ==
  /\ copy' \in [Hosts -> Copies]
  /\ \A h \in Hosts : Leaves(h, copy'[h])

LEMMA OneStoreKeeps ==
  ASSUME StoreInv, NEW h \in Hosts, NEW d, Leaves(h, d),
         copy' = copy \/ copy' = [copy EXCEPT ![h] = d]
  PROVE  AllKeep
<1>1. copy \in [Hosts -> Copies]
  BY DEF StoreInv, TypeOK, Copies
<1>2. \A g \in Hosts : Leaves(g, copy[g])
  BY <1>1, StoreOperations, KeepsIsLeaves
<1>3. CASE copy' = copy
  BY <1>1, <1>2, <1>3 DEF AllKeep
<1>4. CASE copy' = [copy EXCEPT ![h] = d]
  BY <1>1, <1>2, <1>4 DEF AllKeep, Leaves
<1> QED BY <1>3, <1>4

LEMMA StoresUnchanged == ASSUME StoreInv, UNCHANGED copy PROVE AllKeep
<1>1. copy \in [Hosts -> Copies]
  BY DEF StoreInv, TypeOK, Copies
<1> QED BY <1>1, StoreOperations, KeepsIsLeaves DEF AllKeep

LEMMA ShardTypes ==
  /\ NoShard \notin Shards
  /\ \A s \in Shards : Addr(s) \in Hosts /\ s[2] \in 1..MaxBoots
  /\ Living \subseteq Shards
BY DEF Shards, NoShard, Addr, Living

-----------------------------------------------------------------------------
(* Every step keeps the stores. *)

\* A call of the funnel, answered or lost, leaves what its handler makes of the
\* copy, or the copy itself.
LEMMA CallKeeps ==
  ASSUME StoreInv, NEW s \in Shards, NEW d, Leaves(Addr(s), d), NEW confirms,
         Answered(s, d, confirms) \/ Lost(s, d)
  PROVE  AllKeep
BY ShardTypes, OneStoreKeeps DEF Answered, Lost

LEMMA FunnelKeeps == ASSUME StoreInv, Funnel PROVE AllKeep
<1>1. ASSUME EnqueueBegins \/ ClaimBegins \/ ReleaseBegins \/ DecideBegins \/ DeleteBegins \/ WriteEnds
      PROVE AllKeep
  BY <1>1, StoresUnchanged
     DEF EnqueueBegins, ClaimBegins, ReleaseBegins, DecideBegins, DeleteBegins, WriteEnds, Begin
<1>2. ASSUME NEW s \in Shards,
             EnqueueCalls(s) \/ ClaimCalls(s) \/ ReleaseCalls(s) \/ EnsureCalls(s) \/ DecideCalls(s)
      PROVE  AllKeep
  <2>1. copy[Addr(s)] \in Copies /\ Addr(s) \in Hosts
    BY ShardTypes DEF StoreInv, TypeOK, Copies
  <2>2. CASE EnqueueCalls(s)
    <3> DEFINE item == [gen |-> write.gen, status |-> "waiting"]
    <3>1. write \in Write /\ write.gen > 0
      BY <2>2 DEF StoreInv, TypeOK, EnqueueCalls, NoWrite
    <3>2. item \in Copies
      BY <3>1, QueueAssumption DEF Write, Copies, Copy
    <3>3. PICK row \in Rows("write", s) :
            LET after == ApplyItem(copy[Addr(s)], row, item)
            IN Answered(s, after, Applied(copy[Addr(s)], row)) \/ Lost(s, after)
      BY <2>2 DEF EnqueueCalls
    <3>4. Leaves(Addr(s), ApplyItem(copy[Addr(s)], row, item))
      BY <2>1, <3>2, ApplyLeaves
    <3> QED BY <3>3, <3>4, CallKeeps
  <2>3. CASE ClaimCalls(s)
    BY <2>1, <2>3, StoreOperations, KeepsIsLeaves, CallKeeps DEF ClaimCalls
  <2>4. CASE ReleaseCalls(s)
    BY <2>1, <2>4, StoreOperations, KeepsIsLeaves, CallKeeps DEF ReleaseCalls
  <2>5. CASE EnsureCalls(s)
    BY <2>1, <2>5, StoreOperations, KeepsIsLeaves, CallKeeps DEF EnsureCalls
  <2>6. CASE DecideCalls(s)
    BY <2>1, <2>6, StoreOperations, KeepsIsLeaves, CallKeeps DEF DecideCalls
  <2> QED BY <1>2, <2>2, <2>3, <2>4, <2>5, <2>6
<1>3. ASSUME NEW s \in Shards, OtherEnqueue(s) PROVE AllKeep
  BY <1>3, StoresUnchanged DEF OtherEnqueue
<1> QED BY <1>1, <1>2, <1>3 DEF Funnel

LEMMA SweeperKeeps == ASSUME StoreInv, Sweeper PROVE AllKeep
<1>1. sweep \in Sweep \cup {NoSweep} /\ sweep.fresh \in Copies
  BY DEF StoreInv, TypeOK, Sweep, NoSweep, Copies
<1>2. CASE SweepBegins \/ \E s \in Shards : SweepReads(s)
  BY <1>2, StoresUnchanged DEF SweepBegins, SweepReads
<1>3. ASSUME NEW s \in Shards, SweepConverges(s) PROVE AllKeep
  <2>1. copy[Addr(s)] \in Copies /\ Addr(s) \in Hosts
    BY ShardTypes DEF StoreInv, TypeOK, Copies
  <2>2. PICK row \in Rows("sweep", s) :
          copy' = copy \/ copy' = [copy EXCEPT ![Addr(s)] = Converged(s, row)]
    BY <1>3 DEF SweepConverges
  <2>3. Leaves(Addr(s), Converged(s, row))
    BY <1>1, <2>1, StoreOperations, KeepsIsLeaves, ApplyLeaves DEF Converged
  <2> QED BY <2>1, <2>2, <2>3, OneStoreKeeps
<1>4. CASE SweepEnds
  <2>1. CASE RepairsReference
    <3>1. sweep \in Sweep
      BY <1>1, <1>4 DEF SweepEnds
    <3>2. sweep.ref \in Shards /\ sweep.report \in [Shards -> Unread..MaxGen]
      BY <3>1 DEF Sweep
    <3>3. ReferencePushes \subseteq Copies
      BY <3>2, QueueAssumption DEF ReferencePushes, Copies, Copy, Unread
    <3>4. Addr(sweep.ref) \in Hosts
      BY <3>2, ShardTypes
    <3>5. copy \in [Hosts -> Copies]
      BY DEF StoreInv, TypeOK, Copies
    <3>6. PICK item \in ReferencePushes, row \in Rows("sweep", sweep.ref) :
            \/ copy' = copy
            \/ copy' = [copy EXCEPT ![Addr(sweep.ref)] = ApplyItem(copy[Addr(sweep.ref)], row, item)]
      BY <1>4, <2>1, <3>4, <3>5 DEF SweepEnds
    <3>7. Leaves(Addr(sweep.ref), ApplyItem(copy[Addr(sweep.ref)], row, item))
      BY <3>2, <3>3, <3>4, <3>6, ApplyLeaves
    <3> QED BY <3>4, <3>6, <3>7, OneStoreKeeps
  <2>2. CASE ~RepairsReference
    BY <1>4, <2>2, StoresUnchanged DEF SweepEnds
  <2> QED BY <2>1, <2>2
<1> QED BY <1>2, <1>3, <1>4 DEF Sweeper

LEMMA RegistryKeeps ==
  ASSUME StoreInv, NEW h \in Hosts, NEW s \in Shards,
         Joining(h) \/ Leaving(s) \/ ServiceRestarts \/ ShardRestarts(h)
  PROVE  AllKeep
<1>1. copy[h] \in Copies /\ sync[h] \in Copy \cup {NoCopy, Due}
  BY DEF StoreInv, TypeOK, Copies
<1>2. CASE SyncApplies(h)
  <2>1. sync[h] \in Copies
    BY <1>1, <1>2 DEF SyncApplies, Copies
  <2>2. Current(h) \in Shards /\ Addr(Current(h)) = h
    BY DEF StoreInv, TypeOK, Current, Shards, Addr
  <2>3. PICK row \in Rows("sync", Current(h)) : copy' = copy \/ copy' = [copy EXCEPT ![h] = ApplyItem(@, row, sync[h])]
    BY <1>2, <2>2 DEF SyncApplies, Rows
  <2>4. Leaves(h, ApplyItem(copy[h], row, sync[h]))
    BY <2>1, <2>2, <2>3, ApplyLeaves
  <2>5. copy \in [Hosts -> Copies]
    BY DEF StoreInv, TypeOK, Copies
  <2> QED BY <2>3, <2>4, <2>5, OneStoreKeeps
<1>3. CASE ShardRestarts(h)
  <2>1. Leaves(h, NoCopy)
    BY DEF Leaves, Copies
  <2> QED BY <1>3, <2>1, OneStoreKeeps DEF ShardRestarts
<1>4. CASE Joins(h) \/ Renews(h) \/ SyncReads(h) \/ Leaving(s) \/ ServiceRestarts
  BY <1>4, StoresUnchanged DEF Joins, Renews, SyncReads, Leaving, Lapses, Evicts, ServiceRestarts
<1> QED BY <1>2, <1>3, <1>4 DEF Joining

LEMMA NextKeepsStores == ASSUME StoreInv, [Next]_vars PROVE AllKeep
<1>1. CASE UNCHANGED vars
  BY <1>1, StoresUnchanged DEF vars
<1>2. CASE Funnel
  BY <1>2, FunnelKeeps
<1>3. CASE Sweeper
  BY <1>3, SweeperKeeps
<1>4. ASSUME NEW h \in Hosts, Joining(h) \/ ShardRestarts(h) PROVE AllKeep
  <2>1. <<h, 1>> \in Shards
    BY QueueAssumption DEF Shards
  <2> QED BY <1>4, <2>1, RegistryKeeps
<1>5. ASSUME NEW s \in Shards, Leaving(s) PROVE AllKeep
  BY <1>5, ShardTypes, RegistryKeeps
<1>6. CASE ServiceRestarts \/ \E w \in Writers, s \in Shards : Compares(w, s)
  BY <1>6, StoresUnchanged DEF ServiceRestarts, Compares
<1> QED BY <1>1, <1>2, <1>3, <1>4, <1>5, <1>6 DEF Next, Restarts

-----------------------------------------------------------------------------
(* Every step keeps the types and what StoreInv adds. *)

RegistryTyped ==
  /\ boot \in [Hosts -> 1..MaxBoots]
  /\ lease \in [Shards -> {"absent", "living", "stale"}]
  /\ freshest \in Shards \cup {NoShard}
  /\ sync \in [Hosts -> Copy \cup {NoCopy, Due}]
EarlyTyped == early \subseteq ApplyCall
WriteTyped ==
  /\ write \in Write \cup {NoWrite}
  /\ write.call = "apply" => write.gen > 0
SweepTyped ==
  /\ sweep \in Sweep \cup {NoSweep}
  /\ \A s \in sweep.todo : sweep.report[s] # Unread
CountersTyped ==
  /\ minted \in 0..MaxGen /\ writes \in 0..MaxWrites
  /\ acked \in 0..MaxGen /\ grants \in Nat /\ raced \in BOOLEAN /\ faults \in 0..MaxFaults

LEMMA InvParts ==
  StoreInv <=> /\ copy \in [Hosts -> Copies]
               /\ RegistryTyped /\ EarlyTyped /\ WriteTyped /\ SweepTyped /\ CountersTyped
BY DEF StoreInv, TypeOK, Copies, RegistryTyped, EarlyTyped, WriteTyped, SweepTyped, CountersTyped

LEMMA EarlyKept == ASSUME StoreInv, Next PROVE EarlyTyped'
<1>1. early \subseteq ApplyCall /\ copy \in [Hosts -> Copies]
  BY InvParts DEF EarlyTyped
<1>2. ASSUME early' \subseteq early PROVE EarlyTyped'
  BY <1>1, <1>2 DEF EarlyTyped
<1>3. ASSUME NEW w \in Writers, NEW s \in Shards, Compares(w, s) PROVE EarlyTyped'
  <2>1. [by |-> w, shard |-> s, row |-> copy[Addr(s)]] \in ApplyCall
    BY <1>1, ShardTypes DEF ApplyCall, Copies
  <2> QED BY <1>1, <1>3, <2>1 DEF Compares, EarlyTyped
<1>4. Funnel => early' \subseteq early
  BY DEF Funnel, EnqueueBegins, ClaimBegins, ReleaseBegins, DecideBegins, DeleteBegins, WriteEnds, Begin,
         EnqueueCalls, ClaimCalls, ReleaseCalls, EnsureCalls, DecideCalls, OtherEnqueue, CallEnds
<1>5. Sweeper => early' \subseteq early
  BY DEF Sweeper, SweepBegins, SweepReads, SweepConverges, SweepEnds, CallEnds
<1>6. \A h \in Hosts : Joining(h) \/ ShardRestarts(h) => early' \subseteq early
  BY DEF Joining, Joins, Renews, SyncReads, SyncApplies, ShardRestarts, CallEnds
<1>7. ServiceRestarts \/ (\E s \in Shards : Leaving(s)) => early' \subseteq early
  BY DEF ServiceRestarts, Leaving, Lapses, Evicts
<1> QED BY <1>2, <1>3, <1>4, <1>5, <1>6, <1>7 DEF Next, Restarts

LEMMA CountersKept == ASSUME StoreInv, Next PROVE CountersTyped'
<1> USE QueueAssumption
<1>1. CountersTyped /\ write \in Write \cup {NoWrite}
  BY InvParts DEF WriteTyped
<1>2. Fault => faults' \in 0..MaxFaults
  BY <1>1 DEF Fault, CountersTyped
<1>3. Watch => raced' \in BOOLEAN
  BY <1>1 DEF Watch, CountersTyped
<1>4. write.gen \in 0..MaxGen
  BY <1>1 DEF Write, NoWrite
<1>5. CASE EnqueueBegins \/ ClaimBegins \/ ReleaseBegins \/ DecideBegins
  BY <1>1, <1>3, <1>5
     DEF EnqueueBegins, ClaimBegins, ReleaseBegins, DecideBegins, Begin, CountersTyped
<1>6. CASE DeleteBegins \/ WriteEnds
  BY <1>1, <1>3, <1>4, <1>6 DEF DeleteBegins, WriteEnds, CountersTyped
<1>7. ASSUME NEW s \in Shards,
             EnqueueCalls(s) \/ ClaimCalls(s) \/ ReleaseCalls(s) \/ EnsureCalls(s) \/ DecideCalls(s)
      PROVE  CountersTyped'
  <2>1. faults' \in 0..MaxFaults
    BY <1>1, <1>2, <1>7
       DEF EnqueueCalls, ClaimCalls, ReleaseCalls, EnsureCalls, DecideCalls, Answered, Lost, CountersTyped
  <2>2. FunnelUnchanged
    BY <1>7 DEF EnqueueCalls, ClaimCalls, ReleaseCalls, EnsureCalls, DecideCalls
  <2> QED BY <1>1, <1>3, <2>1, <2>2 DEF FunnelUnchanged, CountersTyped
<1>8. ASSUME NEW s \in Shards, OtherEnqueue(s) PROVE CountersTyped'
  BY <1>1, <1>3, <1>8 DEF OtherEnqueue, CountersTyped
<1>9. CASE Sweeper
  <2>1. faults' \in 0..MaxFaults
    BY <1>1, <1>2, <1>9 DEF Sweeper, SweepBegins, SweepReads, SweepConverges, SweepEnds, CountersTyped
  <2>2. SweepUnchanged
    BY <1>9 DEF Sweeper, SweepBegins, SweepReads, SweepConverges, SweepEnds
  <2> QED BY <1>1, <1>3, <2>1, <2>2 DEF SweepUnchanged, CountersTyped
<1>10. ASSUME NEW h \in Hosts, NEW s \in Shards, Joining(h) \/ Leaving(s) \/ ShardRestarts(h)
       PROVE  CountersTyped'
  <2>1. faults' \in 0..MaxFaults
    BY <1>1, <1>2, <1>10
       DEF Joining, Joins, Renews, SyncReads, SyncApplies, Leaving, Lapses, Evicts, ShardRestarts, CountersTyped
  <2>2. RegistryUnchanged
    BY <1>10 DEF Joining, Joins, Renews, SyncReads, SyncApplies, Leaving, Lapses, Evicts, ShardRestarts
  <2> QED BY <1>1, <1>3, <2>1, <2>2 DEF RegistryUnchanged, CountersTyped
<1>11. CASE ServiceRestarts
  BY <1>1, <1>2, <1>3, <1>11 DEF ServiceRestarts, CountersTyped
<1>12. ASSUME NEW w \in Writers, NEW s \in Shards, Compares(w, s) PROVE CountersTyped'
  BY <1>1, <1>3, <1>12 DEF Compares, CountersTyped
<1>13. ASSUME NEW h \in Hosts PROVE <<h, 1>> \in Shards
  BY DEF Shards
<1> QED BY <1>5, <1>6, <1>7, <1>8, <1>9, <1>10, <1>11, <1>12, <1>13, ShardTypes DEF Next, Funnel, Restarts

LEMMA WriteKept == ASSUME StoreInv, Next PROVE WriteTyped'
<1> USE QueueAssumption
<1>1. write \in Write \cup {NoWrite} /\ (write.call = "apply" => write.gen > 0)
  BY InvParts DEF WriteTyped
<1>2. ASSUME NEW call \in Calls, NEW gen \in 0..MaxGen, call = "apply" => gen > 0, Begin(call, gen)
      PROVE  WriteTyped'
  BY <1>2, ShardTypes DEF Begin, Write, WriteTyped
<1>3. CASE EnqueueBegins \/ ClaimBegins \/ ReleaseBegins \/ DecideBegins
  <2>1. minted \in 0..MaxGen
    BY InvParts DEF CountersTyped
  <2> QED BY <1>2, <1>3, <2>1
             DEF EnqueueBegins, ClaimBegins, ReleaseBegins, DecideBegins, Calls
<1>4. CASE DeleteBegins
  <2>1. write \in Write
    BY <1>1, <1>4 DEF DeleteBegins, NoWrite
  <2> QED BY <1>4, <2>1 DEF DeleteBegins, Write, WriteTyped, Calls
<1>5. CASE WriteEnds
  BY <1>5 DEF WriteEnds, WriteTyped, NoWrite
<1>6. ASSUME NEW s \in Shards, NEW d, NEW confirms, write \in Write, Answered(s, d, confirms) \/ Lost(s, d)
      PROVE  WriteTyped'
  <2>1. CASE Answered(s, d, confirms)
    <3> DEFINE yes == write.yes + IF confirms THEN 1 ELSE 0
               missing == write.missing + IF copy[Addr(s)] = NoCopy THEN 1 ELSE 0
    <3>1. yes \in Nat /\ missing \in Nat
      BY <1>6 DEF Write
    <3>2. write' = [write EXCEPT !.todo = @ \ {s}, !.yes = yes, !.missing = missing]
      BY <1>6, <2>1 DEF Answered, Write
    <3> HIDE DEF yes, missing
    <3> QED BY <1>1, <1>6, <3>1, <3>2 DEF Write, WriteTyped
  <2>2. CASE Lost(s, d)
    BY <1>1, <1>6, <2>2 DEF Lost, Write, WriteTyped
  <2> QED BY <1>6, <2>1, <2>2
<1>7. ASSUME NEW s \in Shards,
             EnqueueCalls(s) \/ ClaimCalls(s) \/ ReleaseCalls(s) \/ EnsureCalls(s) \/ DecideCalls(s)
      PROVE  WriteTyped'
  <2>1. write \in Write
    <3>1. s \in write.todo
      BY <1>7 DEF EnqueueCalls, ClaimCalls, ReleaseCalls, EnsureCalls, DecideCalls
    <3> QED BY <1>1, <3>1 DEF NoWrite
  <2> QED BY <1>6, <1>7, <2>1 DEF EnqueueCalls, ClaimCalls, ReleaseCalls, EnsureCalls, DecideCalls
<1>8. CASE \/ Sweeper \/ \E s \in Shards : OtherEnqueue(s) \/ Leaving(s)
           \/ \E h \in Hosts : Joining(h) \/ ShardRestarts(h)
           \/ \E w \in Writers, s \in Shards : Compares(w, s)
  <2>1. UNCHANGED write
    BY <1>8 DEF Sweeper, SweepBegins, SweepReads, SweepConverges, SweepEnds, SweepUnchanged, OtherEnqueue,
                Joining, Joins, Renews, SyncReads, SyncApplies, Leaving, Lapses, Evicts, ShardRestarts,
                RegistryUnchanged, Compares
  <2> QED BY <1>1, <2>1 DEF WriteTyped
<1>9. CASE ServiceRestarts
  BY <1>9 DEF ServiceRestarts, WriteTyped, NoWrite
<1> QED BY <1>3, <1>4, <1>5, <1>7, <1>8, <1>9 DEF Next, Funnel, Restarts

\* A pass is known by its fields.
LEMMA SweepFields ==
  ASSUME NEW s \in Sweep, NEW unread \in SUBSET Shards, NEW todo \in SUBSET Shards,
         NEW report \in [Shards -> Unread..MaxGen]
  PROVE  [s EXCEPT !.unread = unread, !.todo = todo, !.report = report] \in Sweep
BY DEF Sweep

LEMMA SweepKept == ASSUME StoreInv, Next PROVE SweepTyped'
<1> USE QueueAssumption
<1>1. /\ sweep \in Sweep \cup {NoSweep} /\ (\A s \in sweep.todo : sweep.report[s] # Unread)
      /\ copy \in [Hosts -> Copies]
  BY InvParts DEF SweepTyped
<1>2. NoSweep.todo = {} /\ NoSweep.unread = {}
  BY DEF NoSweep
<1>3. sweep' = NoSweep => SweepTyped'
  BY <1>2 DEF SweepTyped
<1>4. CASE SweepBegins
  <2>1. sweep' \in Sweep
    <3>1. sweep' = [ref |-> freshest, unread |-> Living \ {freshest}, todo |-> {},
                    fresh |-> copy[Addr(freshest)], report |-> [s \in Shards |-> Unread]]
      BY <1>4 DEF SweepBegins, NoSweep
    <3>2. freshest \in Shards /\ Living \ {freshest} \in SUBSET Shards
      BY <1>4, ShardTypes DEF SweepBegins
    <3>3. copy[Addr(freshest)] \in Copies
      BY <1>1, <3>2, ShardTypes
    <3>4. Unread \in Unread..MaxGen
      BY DEF Unread
    <3>5. [s \in Shards |-> Unread] \in [Shards -> Unread..MaxGen]
      BY <3>4
    <3> HIDE QueueAssumption
    <3> QED BY <3>1, <3>2, <3>3, <3>5 DEF Sweep, Copies
  <2>2. sweep'.todo = {}
    BY <1>4 DEF SweepBegins, NoSweep
  <2> QED BY <2>1, <2>2 DEF SweepTyped
<1>5. ASSUME NEW s \in Shards, SweepReads(s) PROVE SweepTyped'
  <2>1. sweep \in Sweep
    BY <1>1, <1>2, <1>5 DEF SweepReads
  <2>2. copy[Addr(s)].gen \in 0..MaxGen
    BY <1>1, ShardTypes DEF Copies, Copy, NoCopy
  <2>3. CASE sweep' = [sweep EXCEPT !.unread = @ \ {s}, !.todo = @ \cup {s}, !.report[s] = copy[Addr(s)].gen]
    <3>0. copy[Addr(s)].gen \in Unread..MaxGen
      BY <2>2 DEF Unread
    <3>1. sweep' \in Sweep
      <4>1. [sweep.report EXCEPT ![s] = copy[Addr(s)].gen] \in [Shards -> Unread..MaxGen]
        BY <2>1, <3>0 DEF Sweep
      <4>2. sweep.unread \ {s} \in SUBSET Shards /\ sweep.todo \cup {s} \in SUBSET Shards
        BY <2>1 DEF Sweep
      <4>3. sweep' = [sweep EXCEPT !.unread = sweep.unread \ {s}, !.todo = sweep.todo \cup {s},
                                   !.report = [sweep.report EXCEPT ![s] = copy[Addr(s)].gen]]
        BY <2>3
      <4> QED BY <2>1, <4>1, <4>2, <4>3, SweepFields
    <3>2. /\ sweep'.todo = sweep.todo \cup {s}
          /\ sweep'.report = [sweep.report EXCEPT ![s] = copy[Addr(s)].gen]
          /\ sweep.report \in [Shards -> Unread..MaxGen] /\ sweep.todo \subseteq Shards
      BY <2>1, <2>3 DEF Sweep
    <3>3. \A t \in sweep'.todo : sweep'.report[t] # Unread
      BY <1>1, <2>2, <3>2 DEF Unread
    <3> QED BY <3>1, <3>3 DEF SweepTyped
  <2>4. CASE sweep' = [sweep EXCEPT !.unread = @ \ {s}]
    BY <1>1, <2>1, <2>4 DEF Sweep, SweepTyped
  <2> QED BY <1>5, <2>3, <2>4 DEF SweepReads
<1>6. ASSUME NEW s \in Shards, SweepConverges(s) PROVE SweepTyped'
  <2>1. sweep \in Sweep
    BY <1>1, <1>2, <1>6 DEF SweepConverges
  <2>2. sweep.report[s] \in 0..MaxGen
    BY <1>1, <1>6, <2>1 DEF SweepConverges, Sweep, Unread
  <2>3. ASSUME NEW row PROVE Reported(s, row) \in 0..MaxGen
    <3>1. sweep.fresh.gen \in 0..MaxGen
      BY <2>1 DEF Sweep, Copy, NoCopy
    <3> QED BY <2>2, <3>1 DEF Reported
  <2>4. ASSUME NEW r \in 0..MaxGen, sweep' = [sweep EXCEPT !.todo = @ \ {s}, !.report[s] = r]
        PROVE  SweepTyped'
    <3>1. sweep' \in Sweep
      <4>0. r \in Unread..MaxGen
        BY DEF Unread
      <4>1. [sweep.report EXCEPT ![s] = r] \in [Shards -> Unread..MaxGen]
        BY <2>1, <4>0 DEF Sweep
      <4>2. sweep.unread \in SUBSET Shards /\ sweep.todo \ {s} \in SUBSET Shards
        BY <2>1 DEF Sweep
      <4>3. sweep' = [sweep EXCEPT !.unread = sweep.unread, !.todo = sweep.todo \ {s},
                                   !.report = [sweep.report EXCEPT ![s] = r]]
        BY <2>1, <2>4 DEF Sweep
      <4> QED BY <2>1, <4>1, <4>2, <4>3, SweepFields
    <3>2. /\ sweep'.todo = sweep.todo \ {s}
          /\ sweep'.report = [sweep.report EXCEPT ![s] = r]
          /\ sweep.report \in [Shards -> Unread..MaxGen] /\ sweep.todo \subseteq Shards
      BY <2>1, <2>4 DEF Sweep
    <3>3. \A t \in sweep'.todo : sweep'.report[t] # Unread
      BY <1>1, <3>2 DEF Unread
    <3> QED BY <3>1, <3>3 DEF SweepTyped
  <2>5. CASE sweep' = [sweep EXCEPT !.todo = @ \ {s}]
    BY <1>1, <2>1, <2>5 DEF Sweep, SweepTyped
  <2>6. \/ sweep' = [sweep EXCEPT !.todo = @ \ {s}]
        \/ \E row : sweep' = [sweep EXCEPT !.todo = @ \ {s}, !.report[s] = Reported(s, row)]
    BY <1>6 DEF SweepConverges
  <2> QED BY <2>3, <2>4, <2>5, <2>6
<1>7. CASE SweepEnds \/ ServiceRestarts
  BY <1>3, <1>7 DEF SweepEnds, ServiceRestarts
<1>8. CASE \/ Funnel \/ \E s \in Shards : Leaving(s) \/ \E w \in Writers : Compares(w, s)
           \/ \E h \in Hosts : Joining(h) \/ ShardRestarts(h)
  <2>1. UNCHANGED sweep
    <3>1. CASE Funnel
      BY <3>1 DEF Funnel, EnqueueBegins, ClaimBegins, ReleaseBegins, DecideBegins, DeleteBegins, WriteEnds, Begin,
                  EnqueueCalls, ClaimCalls, ReleaseCalls, EnsureCalls, DecideCalls, FunnelUnchanged, OtherEnqueue
    <3>2. CASE \/ \E s \in Shards : Leaving(s) \/ \E w \in Writers : Compares(w, s)
               \/ \E h \in Hosts : Joining(h) \/ ShardRestarts(h)
      BY <3>2 DEF Joining, Joins, Renews, SyncReads, SyncApplies, Leaving, Lapses, Evicts, ShardRestarts,
                  RegistryUnchanged, Compares
    <3> QED BY <1>8, <3>1, <3>2
  <2> QED BY <1>1, <2>1 DEF SweepTyped
<1> QED BY <1>4, <1>5, <1>6, <1>7, <1>8 DEF Next, Sweeper, Restarts

LEMMA RegistryKept == ASSUME StoreInv, Next PROVE RegistryTyped'
<1> USE QueueAssumption
<1>1. RegistryTyped /\ copy \in [Hosts -> Copies]
  BY InvParts
<1>2. ASSUME NEW s \in Shards, EnqueueCalls(s) \/ OtherEnqueue(s) PROVE RegistryTyped'
  BY <1>1, <1>2 DEF EnqueueCalls, OtherEnqueue, FunnelUnchanged, RegistryTyped
<1>3. CASE (Funnel \/ Sweeper) /\ UNCHANGED freshest
  <2>1. UNCHANGED <<boot, lease, sync>>
    BY <1>3 DEF Funnel, EnqueueBegins, ClaimBegins, ReleaseBegins, DecideBegins, DeleteBegins, WriteEnds, Begin,
                EnqueueCalls, ClaimCalls, ReleaseCalls, EnsureCalls, DecideCalls, FunnelUnchanged, OtherEnqueue,
                Sweeper, SweepBegins, SweepReads, SweepConverges, SweepEnds, SweepUnchanged
  <2> QED BY <1>1, <1>3, <2>1 DEF RegistryTyped
<1>4. ASSUME Funnel \/ Sweeper, freshest' # freshest
      PROVE  \E s \in Shards : EnqueueCalls(s) \/ OtherEnqueue(s)
  BY <1>4 DEF Funnel, EnqueueBegins, ClaimBegins, ReleaseBegins, DecideBegins, DeleteBegins, WriteEnds, Begin,
              ClaimCalls, ReleaseCalls, EnsureCalls, DecideCalls,
              Sweeper, SweepBegins, SweepReads, SweepConverges, SweepEnds, SweepUnchanged
<1>5. ASSUME NEW h \in Hosts, Joining(h) PROVE RegistryTyped'
  <2>1. Current(h) \in Shards
    BY <1>1 DEF RegistryTyped, Current, Shards
  <2>2. CASE Joins(h) \/ Renews(h)
    BY <1>1, <2>1, <2>2 DEF Joins, Renews, RegistryTyped
  <2>3. CASE SyncReads(h)
    <3>1. freshest \in Living => copy[Addr(freshest)] \in Copies
      BY <1>1, ShardTypes
    <3> QED BY <1>1, <2>3, <3>1 DEF SyncReads, RegistryTyped, Copies
  <2>4. CASE SyncApplies(h)
    BY <1>1, <2>4 DEF SyncApplies, RegistryTyped
  <2> QED BY <1>5, <2>2, <2>3, <2>4 DEF Joining
<1>6. ASSUME NEW s \in Shards, Leaving(s) PROVE RegistryTyped'
  BY <1>1, <1>6 DEF Leaving, Lapses, Evicts, RegistryTyped
<1>7. ASSUME NEW h \in Hosts, ShardRestarts(h) PROVE RegistryTyped'
  BY <1>1, <1>7 DEF ShardRestarts, RegistryTyped
<1>8. CASE ServiceRestarts
  BY <1>1, <1>8 DEF ServiceRestarts, RegistryTyped
<1>9. ASSUME NEW w \in Writers, NEW s \in Shards, Compares(w, s) PROVE RegistryTyped'
  BY <1>1, <1>9 DEF Compares, RegistryTyped
<1> QED BY <1>2, <1>3, <1>4, <1>5, <1>6, <1>7, <1>8, <1>9 DEF Next, Restarts

LEMMA StoreInvInit == ASSUME Init PROVE StoreInv
<1>1. copy \in [Hosts -> Copies]
  BY DEF Init, Copies
<1>2. RegistryTyped
  <2>1. 1 \in 1..MaxBoots
    BY QueueAssumption
  <2>2. boot \in [Hosts -> 1..MaxBoots]
    BY <2>1 DEF Init
  <2>3. lease \in [Shards -> {"absent", "living", "stale"}]
    BY DEF Init
  <2>4. sync \in [Hosts -> Copy \cup {NoCopy, Due}]
    BY DEF Init
  <2> QED BY <2>2, <2>3, <2>4 DEF Init, RegistryTyped
<1>3. WriteTyped /\ SweepTyped /\ CountersTyped
  <2>1. write = NoWrite /\ sweep = NoSweep
    BY DEF Init
  <2>2. WriteTyped
    BY <2>1 DEF WriteTyped, NoWrite
  <2>3. SweepTyped
    BY <2>1 DEF SweepTyped, NoSweep
  <2>4. CountersTyped
    <3>1. raced \in BOOLEAN
      BY Zenon DEF Init
    <3>2. /\ minted = 0 /\ writes = 0 /\ acked = 0 /\ grants = 0 /\ faults = 0
      BY Zenon DEF Init
    <3>3. 0 \in 0..MaxGen /\ 0 \in 0..MaxWrites /\ 0 \in 0..MaxFaults /\ 0 \in Nat
      BY QueueAssumption
    <3> QED BY <3>1, <3>2, <3>3, Zenon DEF CountersTyped
  <2> QED BY <2>2, <2>3, <2>4
<1>4. EarlyTyped
  BY DEF Init, EarlyTyped
<1> QED BY <1>1, <1>2, <1>3, <1>4, InvParts

LEMMA StoreInvNext == ASSUME StoreInv, [Next]_vars PROVE StoreInv'
<1>1. CASE Next
  <2>1. copy' \in [Hosts -> Copies]
    BY NextKeepsStores DEF AllKeep
  <2>2. RegistryTyped' /\ EarlyTyped' /\ WriteTyped' /\ SweepTyped' /\ CountersTyped'
    BY <1>1, RegistryKept, EarlyKept, WriteKept, SweepKept, CountersKept
  <2>3. (/\ copy \in [Hosts -> Copies] /\ RegistryTyped /\ EarlyTyped /\ WriteTyped
         /\ SweepTyped /\ CountersTyped)' => StoreInv'
    BY DEF StoreInv, TypeOK, Copies, RegistryTyped, EarlyTyped, WriteTyped, SweepTyped, CountersTyped
  <2> QED BY <2>1, <2>2, <2>3
<1>2. CASE UNCHANGED vars
  BY <1>2 DEF vars, StoreInv, TypeOK, Living
<1> QED BY <1>1, <1>2

-----------------------------------------------------------------------------

\* StoreInv is inductive.
THEOREM StoreInvariant == Spec => []StoreInv
BY StoreInvInit, StoreInvNext, PTL DEF Spec

\* The types of the mirror: no step makes a row that is neither waiting nor
\* claimed, or a report or a lease that the code does not know.
THEOREM TypesHold == Spec => []TypeOK
<1>1. StoreInv => TypeOK
  BY DEF StoreInv
<1> QED BY <1>1, StoreInvariant, PTL

\* Store.ApplyItem's guard under every writer and any staleness: a store goes
\* back to an older copy only in a call that was overtaken after it compared.
THEOREM GenerationsFallOnlyOvertaken == Spec => GenerationFallsOnlyOvertaken
<1>1. StoreInv /\ [Next]_vars =>
        [\A h \in Hosts : copy'[h] # NoCopy /\ copy'[h].gen < copy[h].gen => Compared(h, copy'[h].gen)]_vars
  BY NextKeepsStores DEF AllKeep, Leaves
<1> QED BY <1>1, StoreInvariant, PTL DEF Spec, GenerationFallsOnlyOvertaken

-----------------------------------------------------------------------------
(* What becomes of an acknowledged item.                                   *)
(*                                                                         *)
(* A host serves the item when its present boot is registered, its store   *)
(* is up to date with what was acknowledged and with the enqueue under     *)
(* way, and the pass of the sweeper, where it may drop the item, has heard *)
(* of it or will.  A fault takes one host out of those that serve, and     *)
(* nothing else does.                                                      *)

Reached(h) ==
  write.call = "apply" => copy[h].gen >= write.gen \/ \E s \in write.todo : Addr(s) = h
Heard(h) ==
  acked # 0 /\ sweep # NoSweep /\ sweep.fresh = NoCopy =>
    \E s \in Shards : Addr(s) = h /\ (s \in sweep.unread \/ sweep.report[s] > 0)
Serves(h) == lease[Current(h)] = "living" /\ copy[h].gen >= acked /\ Reached(h) /\ Heard(h)
Failing == {h \in Hosts : ~Serves(h)}

FailingAreFaults == ~raced => Cardinality(Failing) <= faults
Apart == ~raced => ~Overlap /\ ~Overtaken
DecidedIsOver == write.call = "delete" => acked = 0
AckInv == StoreInv /\ Apart /\ DecidedIsOver /\ FailingAreFaults

\* More hosts than faults, and two of them to corroborate each other.
Enough == IsFiniteSet(Hosts) /\ MaxFaults + 2 <= Cardinality(Hosts)

\* A store that nobody overtook compared with the row it writes to, so that its
\* call is a single step.
ApplyNow(c, item) == IF item.gen < c.gen THEN c ELSE item
EnqueueNow(s) ==
  /\ write.call = "apply" /\ s \in write.todo
  /\ LET after == ApplyNow(copy[Addr(s)], [gen |-> write.gen, status |-> "waiting"])
     IN \/ Answered(s, after, TRUE) /\ freshest' = s
        \/ Lost(s, after) /\ UNCHANGED freshest
  /\ FunnelUnchanged
ConvergedNow(s) ==
  LET c == copy[Addr(s)]
  IN IF Pushes(s) THEN ApplyNow(c, sweep.fresh)
     ELSE IF Drops(s) THEN DropItem(c, sweep.report[s]) ELSE c
ReportedNow(s) ==
  IF Pushes(s) THEN sweep.fresh.gen
  ELSE IF Drops(s) /\ copy[Addr(s)].gen = sweep.report[s] THEN 0 ELSE sweep.report[s]
ConvergesNow(s) ==
  /\ sweep.unread = {} /\ s \in sweep.todo
  /\ \/ /\ copy' = [copy EXCEPT ![Addr(s)] = ConvergedNow(s)]
        /\ sweep' = [sweep EXCEPT !.todo = @ \ {s}, !.report[s] = ReportedNow(s)]
        /\ UNCHANGED faults
     \/ /\ Pushes(s) \/ Drops(s)
        /\ Fault
        /\ copy' \in {copy, [copy EXCEPT ![Addr(s)] = ConvergedNow(s)]}
        /\ sweep' = [sweep EXCEPT !.todo = @ \ {s}]
  /\ SweepUnchanged
SweepEndsNow ==
  /\ sweep # NoSweep /\ sweep.unread = {} /\ sweep.todo = {}
  /\ sweep' = NoSweep
  /\ IF sweep.fresh = NoCopy /\ ReferencePushes # {}
     THEN \E item \in ReferencePushes :
            LET after == [copy EXCEPT ![Addr(sweep.ref)] = ApplyNow(@, item)]
            IN \/ copy' = after /\ UNCHANGED faults
               \/ copy' \in {copy, after} /\ Fault
     ELSE UNCHANGED <<copy, faults>>
  /\ SweepUnchanged
SyncNow(h) ==
  /\ sync[h] \notin {NoCopy, Due}
  /\ \/ copy' = [copy EXCEPT ![h] = ApplyNow(@, sync[h])] /\ UNCHANGED faults
     \/ UNCHANGED copy /\ Fault
  /\ sync' = [sync EXCEPT ![h] = NoCopy]
  /\ UNCHANGED <<boot, lease, freshest>>
  /\ RegistryUnchanged

FunnelNow ==
  \/ EnqueueBegins \/ ClaimBegins \/ ReleaseBegins \/ DecideBegins \/ DeleteBegins \/ WriteEnds
  \/ \E s \in Shards : \/ EnqueueNow(s) \/ ClaimCalls(s) \/ ReleaseCalls(s)
                       \/ EnsureCalls(s) \/ DecideCalls(s) \/ OtherEnqueue(s)
SweeperNow ==
  \/ SweepBegins \/ SweepEndsNow
  \/ \E s \in Shards : SweepReads(s) \/ ConvergesNow(s)
JoiningNow(h) == Joins(h) \/ Renews(h) \/ SyncReads(h) \/ SyncNow(h)
NextNow ==
  \/ FunnelNow \/ SweeperNow \/ Restarts
  \/ \E h \in Hosts : JoiningNow(h)
  \/ \E s \in Shards : Leaving(s)

\* Nothing moves but the calls under way.
Still ==
  /\ UNCHANGED <<copy, boot, lease, freshest, write, sweep, sync, minted, writes, acked, grants, faults>>
  /\ ~raced' => ~raced

LEMMA RowIsRead ==
  ASSUME ~Overtaken, NEW w, NEW s, NEW row \in Rows(w, s)
  PROVE  row = copy[Addr(s)]
BY DEF Overtaken, Rows, Begun

LEMMA AppliedNow ==
  ASSUME StoreInv, NEW h \in Hosts, NEW item, item.gen \in Nat
  PROVE  /\ ApplyItem(copy[h], copy[h], item) = ApplyNow(copy[h], item)
         /\ Applied(copy[h], copy[h])
<1>1. copy[h].gen \in Nat
  BY QueueAssumption DEF StoreInv, TypeOK, Copy, NoCopy
<1> QED BY <1>1 DEF ApplyItem, ApplyNow, Applied

LEMMA EnqueueIsNow ==
  ASSUME StoreInv, ~Overtaken, NEW s \in Shards, EnqueueCalls(s)
  PROVE  EnqueueNow(s)
<1> DEFINE item == [gen |-> write.gen, status |-> "waiting"]
<1>1. item.gen \in Nat /\ Addr(s) \in Hosts
  BY ShardTypes, QueueAssumption DEF StoreInv, TypeOK, Write, NoWrite
<1>2. \A row \in Rows("write", s) : row = copy[Addr(s)]
  BY RowIsRead
<1>3. /\ ApplyItem(copy[Addr(s)], copy[Addr(s)], item) = ApplyNow(copy[Addr(s)], item)
      /\ Applied(copy[Addr(s)], copy[Addr(s)])
  BY <1>1, AppliedNow
<1>4. \/ Answered(s, ApplyNow(copy[Addr(s)], item), TRUE) /\ freshest' = s
      \/ Lost(s, ApplyNow(copy[Addr(s)], item)) /\ UNCHANGED freshest
  BY <1>2, <1>3, Zenon DEF EnqueueCalls, Answered
<1> QED BY <1>4 DEF EnqueueCalls, EnqueueNow

LEMMA ConvergesIsNow ==
  ASSUME StoreInv, ~Overtaken, NEW s \in Shards, SweepConverges(s)
  PROVE  ConvergesNow(s)
<1>1. sweep.fresh.gen \in Nat /\ Addr(s) \in Hosts
  BY ShardTypes, QueueAssumption DEF StoreInv, TypeOK, Sweep, NoSweep, Copy, NoCopy
<1>2. \A row \in Rows("sweep", s) : row = copy[Addr(s)]
  BY RowIsRead
<1>3. /\ Converged(s, copy[Addr(s)]) = ConvergedNow(s)
      /\ Reported(s, copy[Addr(s)]) = ReportedNow(s)
  BY <1>1, AppliedNow DEF Converged, ConvergedNow, Reported, ReportedNow
<1>4. PICK row \in Rows("sweep", s) :
        LET after == [copy EXCEPT ![Addr(s)] = Converged(s, row)]
        IN \/ /\ copy' = after
              /\ sweep' = [sweep EXCEPT !.todo = @ \ {s}, !.report[s] = Reported(s, row)]
              /\ UNCHANGED faults
           \/ /\ Pushes(s) \/ Drops(s)
              /\ Fault
              /\ copy' \in {copy, after}
              /\ sweep' = [sweep EXCEPT !.todo = @ \ {s}]
  BY DEF SweepConverges
<1>5. Converged(s, row) = ConvergedNow(s) /\ Reported(s, row) = ReportedNow(s)
  BY <1>2, <1>3, <1>4
<1> QED BY <1>4, <1>5 DEF SweepConverges, ConvergesNow

LEMMA SweepEndsIsNow == ASSUME StoreInv, ~Overtaken, SweepEnds PROVE SweepEndsNow
<1>1. CASE ~RepairsReference
  BY <1>1 DEF SweepEnds, SweepEndsNow, RepairsReference
<1>2. CASE RepairsReference
  <2>1. sweep.ref \in Shards /\ Addr(sweep.ref) \in Hosts /\ sweep.report \in [Shards -> Unread..MaxGen]
    BY ShardTypes DEF SweepEnds, StoreInv, TypeOK, Sweep
  <2>2. PICK item \in ReferencePushes, row \in Rows("sweep", sweep.ref) :
          LET after == [copy EXCEPT ![Addr(sweep.ref)] = ApplyItem(copy[Addr(sweep.ref)], row, item)]
          IN \/ copy' = after /\ UNCHANGED faults
             \/ copy' \in {copy, after} /\ Fault
    BY <1>2, <2>1 DEF SweepEnds, StoreInv, TypeOK
  <2>3. item.gen \in Nat
    BY <2>1, <2>2, QueueAssumption DEF ReferencePushes, Unread
  <2>4. ApplyItem(copy[Addr(sweep.ref)], row, item) = ApplyNow(copy[Addr(sweep.ref)], item)
    BY <2>1, <2>2, <2>3, RowIsRead, AppliedNow
  <2>5. LET after == [copy EXCEPT ![Addr(sweep.ref)] = ApplyNow(@, item)]
        IN \/ copy' = after /\ UNCHANGED faults
           \/ copy' \in {copy, after} /\ Fault
    BY <2>1, <2>2, <2>4 DEF StoreInv, TypeOK
  <2> QED BY <1>2, <2>2, <2>5 DEF SweepEnds, SweepEndsNow, RepairsReference
<1> QED BY <1>1, <1>2

LEMMA SyncIsNow == ASSUME StoreInv, ~Overtaken, NEW h \in Hosts, SyncApplies(h) PROVE SyncNow(h)
<1>1. sync[h].gen \in Nat /\ Addr(Current(h)) = h
  BY QueueAssumption DEF StoreInv, TypeOK, Copy, NoCopy, Due, Addr, Current
<1>2. \A row \in Rows("sync", Current(h)) : ApplyItem(copy[h], row, sync[h]) = ApplyNow(copy[h], sync[h])
  BY <1>1, RowIsRead, AppliedNow
<1>3. copy \in [Hosts -> Copies]
  BY DEF StoreInv, TypeOK, Copies
<1>4. \/ copy' = [copy EXCEPT ![h] = ApplyNow(@, sync[h])] /\ UNCHANGED faults
      \/ UNCHANGED copy /\ Fault
  BY <1>2, <1>3 DEF SyncApplies
<1> QED BY <1>4 DEF SyncApplies, SyncNow

\* Until the first overlap every step is one of those, or a store's comparison.
LEMMA NextIsNow == ASSUME StoreInv, Apart, ~raced, Next PROVE NextNow \/ Still
<1>1. ~Overtaken
  BY DEF Apart
<1>2. Funnel => FunnelNow
  BY <1>1, EnqueueIsNow DEF Funnel, FunnelNow
<1>3. Sweeper => SweeperNow
  BY <1>1, ConvergesIsNow, SweepEndsIsNow DEF Sweeper, SweeperNow
<1>4. \A h \in Hosts : Joining(h) => JoiningNow(h)
  BY <1>1, SyncIsNow DEF Joining, JoiningNow
<1>5. \A w \in Writers, s \in Shards : Compares(w, s) => Still
  BY DEF Compares, Still
<1> QED BY <1>2, <1>3, <1>4, <1>5 DEF Next, NextNow

\* Every step watches for an overlap.
LEMMA NextWatches == ASSUME Next PROVE Watch
BY DEF Next, Funnel, EnqueueBegins, ClaimBegins, ReleaseBegins, DecideBegins, DeleteBegins, WriteEnds, Begin,
       EnqueueCalls, ClaimCalls, ReleaseCalls, EnsureCalls, DecideCalls, OtherEnqueue, FunnelUnchanged,
       Sweeper, SweepBegins, SweepReads, SweepConverges, SweepEnds, SweepUnchanged,
       Joining, Joins, Renews, SyncReads, SyncApplies, Leaving, Lapses, Evicts, RegistryUnchanged,
       Restarts, ServiceRestarts, ShardRestarts, Compares

LEMMA NowWatches == ASSUME NextNow PROVE Watch
BY DEF NextNow, FunnelNow, EnqueueBegins, ClaimBegins, ReleaseBegins, DecideBegins, DeleteBegins, WriteEnds, Begin,
       EnqueueNow, ClaimCalls, ReleaseCalls, EnsureCalls, DecideCalls, OtherEnqueue, FunnelUnchanged,
       SweeperNow, SweepBegins, SweepReads, ConvergesNow, SweepEndsNow, SweepUnchanged,
       JoiningNow, Joins, Renews, SyncReads, SyncNow, Leaving, Lapses, Evicts, RegistryUnchanged,
       Restarts, ServiceRestarts, ShardRestarts

LEMMA Idle == NoWrite.call = "none" /\ NoSweep.unread = {}
BY DEF NoWrite, NoSweep

LEMMA FailingIsFinite ==
  ASSUME Enough
  PROVE  IsFiniteSet(Failing) /\ IsFiniteSet(Failing') /\ Cardinality(Failing) \in Nat
<1>1. Failing \subseteq Hosts /\ Failing' \subseteq Hosts
  BY DEF Failing
<1> QED BY <1>1, FS_Subset, FS_CardinalityType DEF Enough

LEMMA OneMore ==
  ASSUME Enough, NEW g
  PROVE  /\ IsFiniteSet(Failing \cup {g})
         /\ Cardinality(Failing \cup {g}) \in Nat
         /\ Cardinality(Failing \cup {g}) <= Cardinality(Failing) + 1
<1>1. IsFiniteSet(Failing) /\ Cardinality(Failing) \in Nat
  BY FailingIsFinite
<1>2. /\ IsFiniteSet(Failing \cup {g})
      /\ Cardinality(Failing \cup {g}) =
           IF g \in Failing THEN Cardinality(Failing) ELSE Cardinality(Failing) + 1
  BY <1>1, FS_AddElement
<1> QED BY <1>1, <1>2

\* Two hosts are left, so that one is left beside any.
LEMMA AnotherServes ==
  ASSUME Enough, AckInv, ~raced, NEW x
  PROVE  \E h \in Hosts : Serves(h) /\ h # x
<1>1. Cardinality(Failing) <= MaxFaults /\ Cardinality(Hosts) \in Nat /\ MaxFaults \in Nat
  <2>1. faults \in 0..MaxFaults /\ MaxFaults \in Nat
    BY QueueAssumption DEF AckInv, StoreInv, TypeOK
  <2>2. Cardinality(Failing) <= faults /\ Cardinality(Failing) \in Nat
    BY FailingIsFinite DEF AckInv, FailingAreFaults
  <2> QED BY <2>1, <2>2, FS_CardinalityType DEF Enough
<1>2. SUFFICES ASSUME \A h \in Hosts : h # x => ~Serves(h) PROVE FALSE
  OBVIOUS
<1>3. Hosts \subseteq Failing \cup {x}
  BY <1>2 DEF Failing
<1>4. Cardinality(Hosts) <= Cardinality(Failing \cup {x})
  BY <1>3, OneMore, FS_Subset
<1>5. Cardinality(Failing \cup {x}) \in Nat /\ Cardinality(Failing \cup {x}) <= Cardinality(Failing) + 1
  BY OneMore
<1>6. Cardinality(Hosts) <= Cardinality(Failing) + 1
  BY <1>1, <1>4, <1>5, FailingIsFinite
<1> QED BY <1>1, <1>6, FailingIsFinite DEF Enough

\* A step keeps every host that serves, or is a fault that takes one.
Costs == \/ faults' \in {faults, faults + 1} /\ \A h \in Hosts : Serves(h) => Serves(h)'
         \/ /\ faults' = faults + 1
            /\ \E g : \A h \in Hosts \ {g} : Serves(h) => Serves(h)'

LEMMA CostsKeep ==
  ASSUME Enough, AckInv, ~raced, Costs
  PROVE  Cardinality(Failing') <= faults'
<1>1. faults \in Nat /\ Cardinality(Failing) <= faults
  BY QueueAssumption DEF AckInv, StoreInv, TypeOK, FailingAreFaults
<1>2. CASE faults' \in {faults, faults + 1} /\ \A h \in Hosts : Serves(h) => Serves(h)'
  <2>1. Failing' \subseteq Failing
    BY <1>2 DEF Failing
  <2>2. Cardinality(Failing') <= Cardinality(Failing) /\ Cardinality(Failing') \in Nat
    BY <2>1, FailingIsFinite, FS_Subset, FS_CardinalityType
  <2> QED BY <1>1, <1>2, <2>2, FailingIsFinite
<1>3. ASSUME NEW g, faults' = faults + 1, \A h \in Hosts \ {g} : Serves(h) => Serves(h)'
      PROVE  Cardinality(Failing') <= faults'
  <2>1. Failing' \subseteq Failing \cup {g}
    BY <1>3 DEF Failing
  <2>2. Cardinality(Failing') <= Cardinality(Failing \cup {g}) /\ Cardinality(Failing') \in Nat
    BY <2>1, OneMore, FailingIsFinite, FS_Subset, FS_CardinalityType
  <2> QED BY <1>1, <1>3, <2>2, OneMore, FailingIsFinite
<1> QED BY <1>2, <1>3 DEF Costs

-----------------------------------------------------------------------------
(* What each step costs. *)

\* What the invariant gives every step below.
LEMMA AckFacts ==
  ASSUME AckInv, ~raced
  PROVE  /\ copy \in [Hosts -> Copies] /\ boot \in [Hosts -> 1..MaxBoots]
         /\ lease \in [Shards -> {"absent", "living", "stale"}]
         /\ acked \in 0..MaxGen /\ faults \in Nat /\ MaxGen \in Nat
         /\ write \in Write \cup {NoWrite} /\ sweep \in Sweep \cup {NoSweep}
         /\ write # NoWrite => sweep = NoSweep /\ \A h \in Hosts : sync[h] = NoCopy
         /\ \A h \in Hosts : copy[h].gen \in 0..MaxGen /\ Current(h) \in Shards /\ Addr(Current(h)) = h
<1>1. /\ copy \in [Hosts -> Copies] /\ boot \in [Hosts -> 1..MaxBoots]
      /\ lease \in [Shards -> {"absent", "living", "stale"}]
      /\ acked \in 0..MaxGen /\ faults \in Nat /\ MaxGen \in Nat
      /\ write \in Write \cup {NoWrite} /\ sweep \in Sweep \cup {NoSweep}
  BY QueueAssumption DEF AckInv, StoreInv, TypeOK, Copies
<1>2. \A h \in Hosts : copy[h].gen \in 0..MaxGen /\ Current(h) \in Shards /\ Addr(Current(h)) = h
  BY <1>1 DEF Copies, Copy, NoCopy, Current, Shards, Addr
<1>3. write # NoWrite => sweep = NoSweep /\ \A h \in Hosts : sync[h] = NoCopy
  BY DEF AckInv, Apart, Overlap
<1> QED BY <1>1, <1>2, <1>3

\* Where the stores only go forward and nothing else moves that a host is judged by.
LEMMA ForwardCosts ==
  ASSUME AckInv, ~raced, UNCHANGED <<boot, acked, write>>,
         faults' \in {faults, faults + 1},
         \A h \in Hosts : copy'[h].gen \in Nat /\ copy'[h].gen >= copy[h].gen,
         \A h \in Hosts : lease[Current(h)] = "living" => lease'[Current(h)] = "living",
         \A h \in Hosts : Heard(h) => Heard(h)'
  PROVE  Costs
<1>1. SUFFICES ASSUME NEW h \in Hosts, Serves(h) PROVE Serves(h)'
  BY DEF Costs
<1>2. Current(h)' = Current(h)
  BY DEF Current
<1>3. copy[h].gen \in Nat /\ acked \in Nat /\ write.gen \in Nat
  BY AckFacts DEF Write, NoWrite
<1>4. copy'[h].gen >= acked
  BY <1>1, <1>3 DEF Serves
<1>5. Reached(h)'
  BY <1>1, <1>3 DEF Serves, Reached
<1> QED BY <1>1, <1>2, <1>4, <1>5 DEF Serves

LEMMA BeginCosts ==
  ASSUME AckInv, ~raced,
         EnqueueBegins \/ ClaimBegins \/ ReleaseBegins \/ DecideBegins \/ DeleteBegins
  PROVE  Costs
<1>1. SUFFICES ASSUME NEW h \in Hosts, Serves(h) PROVE Serves(h)'
  <2>1. UNCHANGED faults
    BY DEF EnqueueBegins, ClaimBegins, ReleaseBegins, DecideBegins, DeleteBegins, Begin
  <2> QED BY <2>1 DEF Costs
<1>2. UNCHANGED <<copy, boot, lease, sweep>> /\ (acked' = acked \/ acked' = 0)
  BY DEF EnqueueBegins, ClaimBegins, ReleaseBegins, DecideBegins, DeleteBegins, Begin
<1>3. Current(h)' = Current(h)
  BY <1>2 DEF Current
<1>4. copy'[h].gen >= acked' /\ Heard(h)'
  BY <1>1, <1>2, AckFacts DEF Serves, Heard
<1>5. Reached(h)'
  <2>1. CASE EnqueueBegins
    <3>1. Current(h) \in Living /\ Addr(Current(h)) = h
      BY <1>1, AckFacts DEF Serves, Living
    <3>2. write'.todo = Living
      BY <2>1 DEF EnqueueBegins, Begin
    <3> QED BY <3>1, <3>2 DEF Reached
  <2>2. CASE ClaimBegins \/ ReleaseBegins \/ DecideBegins
    BY <2>2 DEF ClaimBegins, ReleaseBegins, DecideBegins, Begin, Reached
  <2>3. CASE DeleteBegins
    <3>1. write \in Write
      BY <2>3, AckFacts DEF DeleteBegins, NoWrite
    <3> QED BY <2>3, <3>1 DEF DeleteBegins, Reached, Write
  <2> QED BY <2>1, <2>2, <2>3
<1> QED BY <1>1, <1>2, <1>3, <1>4, <1>5 DEF Serves

\* What was called everywhere and confirmed is what everyone who serves has.
LEMMA EndCosts ==
  ASSUME AckInv, ~raced, WriteEnds
  PROVE  Costs
<1>1. SUFFICES ASSUME NEW h \in Hosts, Serves(h) PROVE Serves(h)'
  BY DEF Costs, WriteEnds
<1>2. Current(h)' = Current(h) /\ lease' = lease /\ copy' = copy
  BY DEF Current, WriteEnds
<1>3. sweep' = NoSweep /\ write' = NoWrite
  BY AckFacts DEF WriteEnds
<1>4. Heard(h)' /\ Reached(h)'
  BY <1>3 DEF Heard, Reached, NoWrite
<1>5. copy[h].gen >= acked'
  <2>1. CASE write.call = "apply" /\ HasQuorum
    BY <1>1, <2>1 DEF Serves, Reached, WriteEnds
  <2>2. CASE ~(write.call = "apply" /\ HasQuorum)
    BY <1>1, <2>2 DEF Serves, WriteEnds
  <2> QED BY <2>1, <2>2
<1> QED BY <1>1, <1>2, <1>4, <1>5 DEF Serves

\* A call of an enqueue brings the store behind it up to date, or is lost.
LEMMA EnqueueCosts ==
  ASSUME AckInv, ~raced, NEW s \in Shards, EnqueueNow(s)
  PROVE  Costs
<1> DEFINE item == [gen |-> write.gen, status |-> "waiting"]
           after == ApplyNow(copy[Addr(s)], item)
<1>1. /\ write \in Write /\ Addr(s) \in Hosts
      /\ copy \in [Hosts -> Copies] /\ acked \in Nat /\ faults \in Nat
  BY AckFacts, ShardTypes DEF EnqueueNow, NoWrite
<1>2. write.gen \in Nat /\ copy[Addr(s)].gen \in Nat
  BY <1>1, AckFacts DEF Write
<1>3. after.gen \in Nat /\ after.gen >= copy[Addr(s)].gen /\ after.gen >= write.gen
  BY <1>2 DEF ApplyNow
<1>4. UNCHANGED <<boot, lease, sweep, acked>> /\ write'.call = write.call /\ write'.gen = write.gen
      /\ write'.todo = write.todo \ {s}
  BY <1>1 DEF EnqueueNow, Answered, Lost, FunnelUnchanged, Write
<1>5. ASSUME NEW h \in Hosts, Serves(h), copy'[h] = copy[h], h # Addr(s) PROVE Serves(h)'
  <2>1. Current(h)' = Current(h) /\ Heard(h)'
    BY <1>4, <1>5 DEF Current, Serves, Heard
  <2>2. Reached(h)'
    BY <1>4, <1>5 DEF Serves, Reached
  <2> QED BY <1>4, <1>5, <2>1, <2>2 DEF Serves
<1>6. CASE Answered(s, after, TRUE)
  <2>1. copy' = [copy EXCEPT ![Addr(s)] = after] /\ faults' = faults
    BY <1>6 DEF Answered
  <2>2. ASSUME NEW h \in Hosts, Serves(h) PROVE Serves(h)'
    <3>1. CASE h = Addr(s)
      <4>1. copy'[h] = after
        BY <1>1, <2>1, <3>1
      <4>2. Current(h)' = Current(h) /\ Heard(h)'
        BY <1>4, <2>2 DEF Current, Serves, Heard
      <4>3. Reached(h)'
        BY <1>3, <1>4, <4>1 DEF Reached
      <4>4. copy'[h].gen >= acked'
        BY <1>1, <1>2, <1>3, <1>4, <2>2, <3>1, <4>1 DEF Serves
      <4> QED BY <1>4, <2>2, <4>2, <4>3, <4>4 DEF Serves
    <3>2. CASE h # Addr(s)
      BY <1>1, <1>5, <2>1, <2>2, <3>2
    <3> QED BY <3>1, <3>2
  <2> QED BY <2>1, <2>2 DEF Costs
<1>7. CASE Lost(s, after)
  <2>1. faults' = faults + 1 /\ \A h \in Hosts \ {Addr(s)} : copy'[h] = copy[h]
    BY <1>1, <1>7 DEF Lost, Fault
  <2>2. \A h \in Hosts \ {Addr(s)} : Serves(h) => Serves(h)'
    BY <1>5, <2>1
  <2> QED BY <2>1, <2>2 DEF Costs
<1> QED BY <1>6, <1>7 DEF EnqueueNow

\* The other calls leave the generation, or concern what is decided.
LEMMA CallCosts ==
  ASSUME AckInv, ~raced, NEW s \in Shards,
         ClaimCalls(s) \/ ReleaseCalls(s) \/ EnsureCalls(s) \/ DecideCalls(s)
  PROVE  Costs
<1> DEFINE c == copy[Addr(s)]
<1>1. /\ write \in Write /\ Addr(s) \in Hosts
      /\ copy \in [Hosts -> Copies] /\ acked \in Nat /\ faults \in Nat
  BY AckFacts, ShardTypes DEF ClaimCalls, ReleaseCalls, EnsureCalls, DecideCalls, NoWrite
<1>2. UNCHANGED <<boot, lease, sweep, acked>> /\ write'.call = write.call /\ write.call # "apply"
  BY <1>1 DEF ClaimCalls, ReleaseCalls, EnsureCalls, DecideCalls, Answered, Lost, FunnelUnchanged, Write
<1>3. faults' \in {faults, faults + 1}
  BY DEF ClaimCalls, ReleaseCalls, EnsureCalls, DecideCalls, Answered, Lost, Fault
<1>4. ASSUME NEW h \in Hosts, Serves(h) PROVE copy'[h].gen >= acked
  <2>1. copy[h].gen \in Nat /\ copy[h].gen >= acked
    BY <1>4, AckFacts DEF Serves
  <2>2. ClaimItem(c).gen = c.gen /\ ReleaseItem(c).gen = c.gen
    <3>1. c \in Copies
      BY <1>1
    <3> QED BY <3>1 DEF ClaimItem, ReleaseItem, Copies, Copy, NoCopy
  <2>3. CASE ClaimCalls(s) \/ ReleaseCalls(s) \/ EnsureCalls(s)
    <3>1. PICK d \in {ClaimItem(c), ReleaseItem(c)} :
            copy' = copy \/ copy' = [copy EXCEPT ![Addr(s)] = d]
      BY <2>3 DEF ClaimCalls, ReleaseCalls, EnsureCalls, Answered, Lost
    <3> QED BY <1>1, <2>1, <2>2, <3>1
  <2>4. CASE DecideCalls(s)
    <3>1. acked = 0
      BY <2>4 DEF DecideCalls, AckInv, DecidedIsOver
    <3>2. DecideItem(c).gen \in Nat
      BY <1>1, AckFacts DEF DecideItem, NoCopy
    <3>3. copy' = copy \/ copy' = [copy EXCEPT ![Addr(s)] = DecideItem(c)]
      BY <2>4 DEF DecideCalls, Answered, Lost
    <3> QED BY <1>1, <2>1, <3>1, <3>2, <3>3
  <2> QED BY <2>3, <2>4
<1>5. ASSUME NEW h \in Hosts, Serves(h) PROVE Serves(h)'
  <2>1. Current(h)' = Current(h) /\ Heard(h)' /\ Reached(h)'
    BY <1>2, <1>5 DEF Current, Serves, Heard, Reached
  <2> QED BY <1>2, <1>4, <1>5, <2>1 DEF Serves
<1> QED BY <1>3, <1>5 DEF Costs

LEMMA OtherCosts ==
  ASSUME AckInv, ~raced, NEW s \in Shards, OtherEnqueue(s)
  PROVE  Costs
<1>1. UNCHANGED <<copy, boot, lease, acked, write, sweep, faults>>
  BY DEF OtherEnqueue
<1>2. \A h \in Hosts : copy[h].gen \in Nat
  BY AckFacts
<1>3. \A h \in Hosts : Heard(h)' = Heard(h)
  BY <1>1 DEF Heard
<1> QED BY <1>1, <1>2, <1>3, ForwardCosts, AckFacts

\* A pass of the sweeper hears of every host that serves, but for a lost read.
LEMMA SweepReadCosts ==
  ASSUME AckInv, ~raced, SweepBegins \/ \E s \in Shards : SweepReads(s)
  PROVE  Costs
<1>1. UNCHANGED <<copy, boot, lease, acked, write>>
  BY DEF SweepBegins, SweepReads, SweepUnchanged
<1>2. ASSUME NEW h \in Hosts, Serves(h), Heard(h)' PROVE Serves(h)'
  BY <1>1, <1>2 DEF Serves, Current, Reached
<1>3. ASSUME SweepBegins, NEW h \in Hosts, Serves(h) PROVE Heard(h)'
  <2>1. freshest \in Shards /\ Addr(freshest) \in Hosts /\ sweep'.fresh = copy[Addr(freshest)]
        /\ sweep'.unread = Living \ {freshest}
    BY <1>3, ShardTypes DEF SweepBegins, NoSweep
  <2>2. SUFFICES ASSUME acked # 0, copy[Addr(freshest)] = NoCopy
                 PROVE  \E s \in Shards : Addr(s) = h /\ s \in sweep'.unread
    BY <1>1, <2>1 DEF Heard
  <2>3. Addr(freshest) # h
    BY <1>3, <2>2, AckFacts DEF Serves, NoCopy
  <2>4. Current(h) \in Living \ {freshest} /\ Addr(Current(h)) = h /\ Current(h) \in Shards
    BY <1>3, <2>3, AckFacts DEF Serves, Living
  <2> QED BY <2>1, <2>4
<1>4. ASSUME NEW s \in Shards, SweepReads(s) PROVE Costs
  <2>1. /\ sweep \in Sweep /\ sweep # NoSweep /\ Addr(s) \in Hosts
        /\ sweep'.fresh = sweep.fresh /\ sweep'.unread = sweep.unread \ {s}
        /\ \A t \in Shards \ {s} : sweep'.report[t] = sweep.report[t]
    <3>1. sweep # NoSweep /\ Addr(s) \in Hosts
      BY <1>4, ShardTypes, Idle DEF SweepReads
    <3>2. sweep \in Sweep
      BY <3>1, AckFacts
    <3> QED BY <1>4, <3>1, <3>2 DEF SweepReads, Sweep
  <2>2. ASSUME NEW h \in Hosts, Serves(h), h # Addr(s) PROVE Heard(h)'
    BY <1>1, <2>1, <2>2 DEF Serves, Heard
  <2>3. CASE Fault
    BY <1>2, <2>2, <2>3 DEF Costs, Fault
  <2>4. CASE UNCHANGED faults /\ sweep' = [sweep EXCEPT !.unread = @ \ {s}, !.todo = @ \cup {s},
                                                        !.report[s] = copy[Addr(s)].gen]
    <3>1. sweep'.report[s] = copy[Addr(s)].gen
      BY <2>1, <2>4 DEF Sweep
    <3>2. ASSUME Serves(Addr(s)) PROVE Heard(Addr(s))'
      BY <1>1, <2>1, <3>1, <3>2, AckFacts DEF Serves, Heard
    <3>3. \A h \in Hosts : Serves(h) => Heard(h)'
      BY <2>2, <3>2
    <3> QED BY <1>2, <2>4, <3>3 DEF Costs
  <2> QED BY <1>4, <2>3, <2>4 DEF SweepReads
<1>5. CASE SweepBegins
  BY <1>2, <1>3, <1>5 DEF Costs, SweepBegins
<1> QED BY <1>4, <1>5

\* What is acknowledged is corroborated, so that the sweeper drops none of it.
LEMMA NothingDropped ==
  ASSUME Enough, AckInv, ~raced, acked # 0, sweep.unread = {}, NEW s \in Shards
  PROVE  ~Drops(s)
<1>1. SUFFICES ASSUME Drops(s) PROVE FALSE
  OBVIOUS
<1>2. PICK h \in Hosts : Serves(h) /\ h # Addr(s)
  BY AnotherServes
<1>3. sweep # NoSweep /\ sweep.fresh = NoCopy
  BY <1>1 DEF Drops, NoSweep, Unread
<1>4. PICK t \in Shards : Addr(t) = h /\ sweep.report[t] > 0
  BY <1>2, <1>3 DEF Serves, Heard
<1> QED BY <1>1, <1>2, <1>4 DEF Drops, Corroborated

LEMMA ConvergeCosts ==
  ASSUME Enough, AckInv, ~raced, NEW s \in Shards, ConvergesNow(s)
  PROVE  Costs
<1>1. /\ UNCHANGED <<boot, lease, acked, write>> /\ faults' \in {faults, faults + 1}
      /\ sweep \in Sweep /\ Addr(s) \in Hosts /\ s \in sweep.todo
  BY AckFacts, ShardTypes DEF ConvergesNow, SweepUnchanged, Fault, NoSweep
<1>2. copy' = copy \/ copy' = [copy EXCEPT ![Addr(s)] = ConvergedNow(s)]
  BY DEF ConvergesNow
<1>3. write = NoWrite
  BY <1>1, AckFacts DEF NoSweep
<1>4. copy[Addr(s)] \in Copies /\ sweep.fresh \in Copies /\ sweep.report[s] \in 0..MaxGen
  BY <1>1, AckFacts DEF Sweep, Copies, AckInv, StoreInv, Unread
<1>5. copy' \in [Hosts -> Copies]
  <2>1. ConvergedNow(s) \in Copies
    BY <1>4 DEF ConvergedNow, ApplyNow, DropItem, Copies
  <2> QED BY <1>1, <1>2, <2>1, AckFacts
<1>6. CASE acked = 0
  <2>1. ASSUME NEW h \in Hosts, Serves(h) PROVE Serves(h)'
    <3>1. copy'[h].gen \in Nat
      BY <1>5, AckFacts DEF Copies, Copy, NoCopy
    <3>2. Heard(h)' /\ Reached(h)'
      BY <1>1, <1>3, <1>6 DEF Heard, Reached, NoWrite
    <3> QED BY <1>1, <1>6, <2>1, <3>1, <3>2 DEF Serves, Current
  <2> QED BY <1>1, <2>1 DEF Costs
<1>7. CASE acked # 0
  <2>1. ~Drops(s)
    BY <1>7, NothingDropped DEF ConvergesNow
  <2>2. ConvergedNow(s) \in {copy[Addr(s)], ApplyNow(copy[Addr(s)], sweep.fresh)}
    BY <2>1 DEF ConvergedNow
  <2>3. \A h \in Hosts : copy'[h].gen \in Nat /\ copy'[h].gen >= copy[h].gen
    <3>1. copy[Addr(s)].gen \in Nat /\ sweep.fresh.gen \in Nat
      BY <1>4, AckFacts DEF Copies, Copy, NoCopy
    <3>2. ConvergedNow(s).gen \in Nat /\ ConvergedNow(s).gen >= copy[Addr(s)].gen
      BY <2>2, <3>1 DEF ApplyNow
    <3> QED BY <1>1, <1>2, <3>2, AckFacts
  <2>4. ASSUME NEW h \in Hosts, Heard(h) PROVE Heard(h)'
    <3>1. SUFFICES ASSUME sweep.fresh = NoCopy PROVE sweep'.report = sweep.report /\ sweep'.unread = sweep.unread
      <4>1. sweep'.fresh = sweep.fresh
        BY <1>1 DEF ConvergesNow, Sweep
      <4> QED BY <1>1, <2>4, <3>1, <4>1 DEF Heard, NoSweep
    <3>2. ~Pushes(s)
      BY <1>4, <3>1 DEF Pushes, NoCopy
    <3>3. ReportedNow(s) = sweep.report[s]
      BY <2>1, <3>2 DEF ReportedNow
    <3>4. sweep.report = [sweep.report EXCEPT ![s] = ReportedNow(s)]
      BY <1>1, <3>3 DEF Sweep
    <3>5. CASE sweep' = [sweep EXCEPT !.todo = @ \ {s}, !.report[s] = ReportedNow(s)]
      BY <1>1, <3>4, <3>5 DEF Sweep
    <3>6. CASE sweep' = [sweep EXCEPT !.todo = @ \ {s}]
      BY <1>1, <3>6 DEF Sweep
    <3> QED BY <3>5, <3>6 DEF ConvergesNow
  <2> QED BY <1>1, <2>3, <2>4, ForwardCosts
<1> QED BY <1>6, <1>7

LEMMA SweepEndCosts ==
  ASSUME AckInv, ~raced, SweepEndsNow
  PROVE  Costs
<1>1. /\ UNCHANGED <<boot, lease, acked, write>> /\ sweep' = NoSweep
      /\ sweep \in Sweep /\ faults' \in {faults, faults + 1}
  BY AckFacts DEF SweepEndsNow, SweepUnchanged, Fault
<1>2. \A h \in Hosts : Heard(h)'
  BY <1>1 DEF Heard
<1>3. \A h \in Hosts : copy'[h].gen \in Nat /\ copy'[h].gen >= copy[h].gen
  <2>1. CASE sweep.fresh = NoCopy /\ ReferencePushes # {}
    <3>1. Addr(sweep.ref) \in Hosts /\ sweep.report \in [Shards -> Unread..MaxGen]
      BY <1>1, ShardTypes DEF Sweep
    <3>2. \A item \in ReferencePushes : item.gen \in Nat
      BY <3>1, AckFacts DEF ReferencePushes, Unread
    <3>3. copy \in [Hosts -> Copies]
      BY AckFacts
    <3>4. PICK item \in ReferencePushes :
            \/ copy' = copy
            \/ copy' = [copy EXCEPT ![Addr(sweep.ref)] = ApplyNow(copy[Addr(sweep.ref)], item)]
      BY <2>1, <3>1, <3>3 DEF SweepEndsNow
    <3>5. ApplyNow(copy[Addr(sweep.ref)], item).gen \in Nat
          /\ ApplyNow(copy[Addr(sweep.ref)], item).gen >= copy[Addr(sweep.ref)].gen
      BY <3>1, <3>2, AckFacts DEF ApplyNow
    <3> QED BY <3>1, <3>3, <3>4, <3>5, AckFacts
  <2>2. CASE ~(sweep.fresh = NoCopy /\ ReferencePushes # {})
    <3>1. copy' = copy
      BY <2>2 DEF SweepEndsNow
    <3> QED BY <3>1, AckFacts
  <2> QED BY <2>1, <2>2
<1> QED BY <1>1, <1>2, <1>3, ForwardCosts, AckFacts

\* Only the lapse of a running boot's lease and a restart take a host, and each
\* is a fault.
LEMMA RegistryCosts ==
  ASSUME AckInv, ~raced, NEW h \in Hosts, NEW s \in Shards,
         JoiningNow(h) \/ Leaving(s) \/ ServiceRestarts \/ ShardRestarts(h)
  PROVE  Costs
<1>1. /\ copy \in [Hosts -> Copies] /\ boot \in [Hosts -> 1..MaxBoots] /\ faults \in Nat
      /\ lease \in [Shards -> {"absent", "living", "stale"}]
      /\ \A g \in Hosts : copy[g].gen \in Nat /\ Current(g) \in Shards /\ Addr(Current(g)) = g
  BY AckFacts
<1>2. CASE Joins(h) \/ Renews(h)
  <2>1. UNCHANGED <<copy, boot, acked, write, sweep, faults>>
    BY <1>2 DEF Joins, Renews, RegistryUnchanged
  <2>2. \A g \in Hosts : lease[Current(g)] = "living" => lease'[Current(g)] = "living"
    BY <1>1, <1>2 DEF Joins, Renews
  <2>3. \A g \in Hosts : Heard(g)' = Heard(g)
    BY <2>1 DEF Heard
  <2> QED BY <1>1, <2>1, <2>2, <2>3, ForwardCosts
<1>3. CASE SyncReads(h) \/ SyncNow(h)
  <2>1. UNCHANGED <<boot, lease, acked, write, sweep>> /\ faults' \in {faults, faults + 1}
    BY <1>3 DEF SyncReads, SyncNow, RegistryUnchanged, Fault
  <2>2. sync[h].gen \in Nat /\ (copy' = copy \/ copy' = [copy EXCEPT ![h] = ApplyNow(copy[h], sync[h])])
    <3>1. sync[h].gen \in Nat
      BY AckFacts DEF AckInv, StoreInv, TypeOK, Copy, NoCopy, Due
    <3> QED BY <1>3, <3>1 DEF SyncReads, SyncNow
  <2>3. \A g \in Hosts : copy'[g].gen \in Nat /\ copy'[g].gen >= copy[g].gen
    BY <1>1, <2>2 DEF ApplyNow
  <2>4. \A g \in Hosts : Heard(g)' = Heard(g)
    BY <2>1 DEF Heard
  <2> QED BY <2>1, <2>3, <2>4, ForwardCosts
<1>4. ASSUME UNCHANGED <<acked, write, sweep>>, NEW g \in Hosts, Serves(g),
             copy'[g] = copy[g], boot'[g] = boot[g], lease'[Current(g)] = "living"
      PROVE  Serves(g)'
  <2>1. Current(g)' = Current(g)
    BY <1>4 DEF Current
  <2> QED BY <1>4, <2>1 DEF Serves, Reached, Heard
<1>5. CASE Leaving(s)
  <2>1. UNCHANGED <<copy, boot, acked, write, sweep>>
    BY <1>5 DEF Leaving, Lapses, Evicts, RegistryUnchanged
  <2>2. \A g \in Hosts : Serves(g) /\ Current(g) # s => Serves(g)'
    <3>1. \A t \in Shards \ {s} : lease'[t] = lease[t]
      BY <1>1, <1>5 DEF Leaving, Lapses, Evicts
    <3> QED BY <1>1, <1>4, <2>1, <3>1 DEF Serves
  <2>3. CASE Lapses(s) /\ s = Current(Addr(s))
    <3>1. faults' = faults + 1
      BY <2>3 DEF Lapses, Fault
    <3>2. \A g \in Hosts \ {Addr(s)} : Current(g) # s
      BY <1>1
    <3> QED BY <2>2, <3>1, <3>2 DEF Costs
  <2>4. CASE ~(Lapses(s) /\ s = Current(Addr(s)))
    <3>1. faults' = faults
      BY <1>5, <2>4 DEF Leaving, Lapses, Evicts
    <3>2. \A g \in Hosts : Serves(g) => Current(g) # s
      BY <1>1, <1>5, <2>4 DEF Leaving, Evicts, Serves
    <3> QED BY <2>2, <3>1, <3>2 DEF Costs
  <2> QED BY <2>3, <2>4
<1>6. CASE ShardRestarts(h)
  <2>1. UNCHANGED <<lease, acked, write, sweep>> /\ faults' = faults + 1
    BY <1>6 DEF ShardRestarts, RegistryUnchanged, Fault
  <2>2. \A g \in Hosts \ {h} : copy'[g] = copy[g] /\ boot'[g] = boot[g]
    BY <1>1, <1>6 DEF ShardRestarts
  <2>3. \A g \in Hosts \ {h} : Serves(g) => Serves(g)'
    BY <1>4, <2>1, <2>2 DEF Serves
  <2> QED BY <2>1, <2>3 DEF Costs
<1>7. CASE ServiceRestarts
  <2>1. UNCHANGED <<copy, boot, lease, acked>> /\ write' = NoWrite /\ sweep' = NoSweep /\ faults' = faults + 1
    BY <1>7 DEF ServiceRestarts, Fault
  <2>2. \A g \in Hosts : Serves(g) => Serves(g)'
    BY <2>1 DEF Serves, Current, Reached, Heard, NoWrite
  <2> QED BY <2>1, <2>2 DEF Costs
<1> QED BY <1>2, <1>3, <1>5, <1>6, <1>7 DEF JoiningNow

LEMMA NextCosts ==
  ASSUME Enough, AckInv, ~raced, NextNow
  PROVE  Costs
<1>1. \A h \in Hosts : Current(h) \in Shards
  BY AckFacts
<1>2. CASE FunnelNow
  BY <1>2, BeginCosts, EndCosts, EnqueueCosts, CallCosts, OtherCosts DEF FunnelNow
<1>3. CASE SweeperNow
  BY <1>3, SweepReadCosts, ConvergeCosts, SweepEndCosts DEF SweeperNow
<1>4. ASSUME NEW h \in Hosts, JoiningNow(h) \/ ShardRestarts(h) PROVE Costs
  BY <1>1, <1>4, RegistryCosts
<1>5. ASSUME NEW s \in Shards, Leaving(s) PROVE Costs
  BY <1>5, ShardTypes, RegistryCosts
<1>6. CASE ServiceRestarts
  <2>1. PICK h \in Hosts : Serves(h)
    BY AnotherServes
  <2> QED BY <1>1, <1>6, <2>1, RegistryCosts
<1> QED BY <1>2, <1>3, <1>4, <1>5, <1>6 DEF NextNow, Restarts

-----------------------------------------------------------------------------

LEMMA DecidedKept == ASSUME AckInv, Next PROVE DecidedIsOver'
<1>1. DecidedIsOver /\ write \in Write \cup {NoWrite}
  BY DEF AckInv, StoreInv, TypeOK
<1>2. CASE EnqueueBegins \/ ClaimBegins \/ ReleaseBegins \/ DecideBegins \/ DeleteBegins
  BY <1>2 DEF EnqueueBegins, ClaimBegins, ReleaseBegins, DecideBegins, DeleteBegins, Begin, DecidedIsOver
<1>3. CASE WriteEnds \/ ServiceRestarts
  BY <1>3 DEF WriteEnds, ServiceRestarts, DecidedIsOver, NoWrite
<1>4. ASSUME NEW s \in Shards,
             EnqueueCalls(s) \/ ClaimCalls(s) \/ ReleaseCalls(s) \/ EnsureCalls(s) \/ DecideCalls(s)
      PROVE  DecidedIsOver'
  <2>1. write \in Write /\ acked' = acked
    <3>1. write # NoWrite
      BY <1>4, Idle DEF EnqueueCalls, ClaimCalls, ReleaseCalls, EnsureCalls, DecideCalls
    <3>2. FunnelUnchanged
      BY <1>4 DEF EnqueueCalls, ClaimCalls, ReleaseCalls, EnsureCalls, DecideCalls
    <3> QED BY <1>1, <3>1, <3>2 DEF FunnelUnchanged
  <2>2. write'.call = write.call
    BY <1>4, <2>1 DEF EnqueueCalls, ClaimCalls, ReleaseCalls, EnsureCalls, DecideCalls, Answered, Lost, Write
  <2> QED BY <1>1, <2>1, <2>2 DEF DecidedIsOver
<1>5. ASSUME UNCHANGED <<write, acked>> PROVE DecidedIsOver'
  BY <1>1, <1>5 DEF DecidedIsOver
<1>6. ASSUME NEW s \in Shards, OtherEnqueue(s) \/ Leaving(s) PROVE UNCHANGED <<write, acked>>
  BY <1>6 DEF OtherEnqueue, Leaving, Lapses, Evicts, RegistryUnchanged
<1>7. ASSUME NEW h \in Hosts, Joining(h) \/ ShardRestarts(h) PROVE UNCHANGED <<write, acked>>
  BY <1>7 DEF Joining, Joins, Renews, SyncReads, SyncApplies, ShardRestarts, RegistryUnchanged
<1>8. Sweeper => UNCHANGED <<write, acked>>
  BY DEF Sweeper, SweepBegins, SweepReads, SweepConverges, SweepEnds, SweepUnchanged
<1>9. ASSUME NEW w \in Writers, NEW s \in Shards, Compares(w, s) PROVE UNCHANGED <<write, acked>>
  BY <1>9 DEF Compares
<1> QED BY <1>2, <1>3, <1>4, <1>5, <1>6, <1>7, <1>8, <1>9 DEF Next, Funnel, Restarts

LEMMA AckInvInit == ASSUME Enough, Init PROVE AckInv
<1>1. StoreInv
  BY StoreInvInit
<1>2. Apart /\ DecidedIsOver
  BY DEF Init, Apart, Overlap, Overtaken, DecidedIsOver, NoWrite
<1>3. ASSUME NEW h \in Hosts PROVE Serves(h)
  <2>1. Current(h) = <<h, 1>> /\ <<h, 1>> \in Shards
    BY QueueAssumption DEF Init, Current, Shards
  <2>2. lease[Current(h)] = "living"
    BY <2>1 DEF Init
  <2>3. copy[h].gen = 0 /\ acked = 0 /\ write = NoWrite /\ sweep = NoSweep
    BY DEF Init, NoCopy
  <2> QED BY <2>2, <2>3 DEF Serves, Reached, Heard, NoWrite
<1>4. Failing = {} /\ faults = 0
  BY <1>3 DEF Failing, Init
<1> QED BY <1>1, <1>2, <1>4, FS_EmptySet DEF AckInv, FailingAreFaults

LEMMA AckInvNext == ASSUME Enough, AckInv, [Next]_vars PROVE AckInv'
<1>1. StoreInv'
  BY StoreInvNext DEF AckInv
<1>2. ASSUME Still PROVE FailingAreFaults'
  <2>1. Failing' = Failing
    BY <1>2 DEF Still, Failing, Serves, Current, Reached, Heard
  <2> QED BY <1>2, <2>1 DEF Still, AckInv, FailingAreFaults
<1>3. CASE UNCHANGED vars
  <2>1. Overlap' = Overlap /\ Overtaken' = Overtaken
    BY <1>3 DEF vars, Overlap, Overtaken
  <2>2. FailingAreFaults'
    BY <1>2, <1>3 DEF vars, Still
  <2> QED BY <1>1, <1>3, <2>1, <2>2 DEF vars, AckInv, Apart, DecidedIsOver
<1>4. CASE Next
  <2>1. Apart' /\ (~raced' => ~raced)
    BY <1>4, NextWatches DEF Watch, Apart
  <2>2. DecidedIsOver'
    BY <1>4, DecidedKept
  <2>3. FailingAreFaults'
    <3>1. SUFFICES ASSUME ~raced' PROVE FailingAreFaults'
      BY DEF FailingAreFaults
    <3>2. NextNow \/ Still
      BY <1>4, <2>1, <3>1, NextIsNow DEF AckInv
    <3> QED BY <1>2, <2>1, <3>1, <3>2, NextCosts, CostsKeep DEF FailingAreFaults
  <2> QED BY <1>1, <2>1, <2>2, <2>3 DEF AckInv
<1> QED BY <1>3, <1>4

\* The mirror keeps what it acknowledged, on any number of hosts: as long as the
\* sweeper and the playbacks kept clear of the writes, no store's row changed
\* between an apply call's comparison and its write, and there were two faults
\* fewer than there are hosts - calls lost, leases lapsed, stores and services
\* restarted - a living shard has the acknowledged generation or a newer one.
THEOREM AckedStaysVisible == ASSUME Enough PROVE Spec => []AckedIsVisible
<1>1. AckInv => AckedIsVisible
  <2>1. SUFFICES ASSUME AckInv, ~raced PROVE \E s \in Living : copy[Addr(s)].gen >= acked
    BY DEF AckedIsVisible
  <2>2. PICK h \in Hosts : Serves(h)
    BY <2>1, AnotherServes
  <2>3. Current(h) \in Living /\ Addr(Current(h)) = h
    BY <2>1, <2>2, AckFacts DEF Serves, Living
  <2> QED BY <2>2, <2>3 DEF Serves
<1> QED BY <1>1, AckInvInit, AckInvNext, PTL DEF Spec

-----------------------------------------------------------------------------
(* What a claim is granted on.  Without a fault the stores go together, each *)
(* with or without the effect of the write or the pass under way.  The first *)
(* fault leaves one host that may differ in everything, or, when the service *)
(* restarts in the midst of a write, hosts that differ in their copies only. *)

\* The identity of a sidecar in its first boot.
Home(h) == <<h, 1>>

\* What the write under way makes of a copy.
Done(c) ==
  CASE write.call = "apply" -> ApplyNow(c, [gen |-> write.gen, status |-> "waiting"])
    [] write.call \in {"claim", "ensure"} -> ClaimItem(c)
    [] write.call = "release" -> ReleaseItem(c)
    [] write.call = "delete" -> DecideItem(c)
    [] OTHER -> c

\* The sweeper gives the level what it lacks.
Spreads(c) == c = NoCopy /\ sweep.fresh # NoCopy
Passed(h) == Home(h) \notin sweep.unread \cup sweep.todo
At(c, h) ==
  IF Spreads(c) /\ Passed(h) THEN sweep.fresh ELSE IF Home(h) \in write.todo THEN c ELSE Done(c)

\* A host in its first boot, registered, and called by every write.
Settled(h) ==
  /\ boot[h] = 1 /\ sync[h] = NoCopy
  /\ \A s \in Shards : Addr(s) = h => lease[s] = IF s = Home(h) THEN "living" ELSE "absent"
  /\ \A s \in Shards \ {Home(h)} :
       Addr(s) = h => /\ s \notin write.shards \cup write.todo \cup sweep.unread \cup sweep.todo
                      /\ sweep.report[s] = Unread
  /\ write # NoWrite => Home(h) \in write.shards

\* What h has and reports where the hosts had the copy c.
Follows(h, c) ==
  /\ copy[h] = At(c, h)
  /\ sweep.report[Home(h)] \in {Unread, copy[h].gen}
  /\ sweep # NoSweep /\ sweep.fresh = NoCopy /\ c # NoCopy =>
       Home(h) \in sweep.unread \/ sweep.report[Home(h)] > 0

\* Every host, those in X apart, had the copy c before the write or the pass
\* under way.
Level(X, c) ==
  /\ \A h \in Hosts \ X : Settled(h) /\ Follows(h, c)
  /\ sweep # NoSweep =>
       \/ sweep.fresh = c
       \/ Addr(sweep.ref) \in X /\ (c = NoCopy \/ sweep.fresh.gen <= c.gen)
  /\ grants # 0 => c.status = "claimed" /\ write.call \in {"none", "claim", "ensure"}
  /\ write.call = "apply" => c.gen < write.gen
  /\ write.call = "delete" => c.status # "waiting"

Even(c) == Level({}, c) /\ (write.call = "claim" /\ c.status # "waiting" => write.yes = 0)

\* The generation the hosts hold after the write or the pass under way.
Top(c) ==
  IF Spreads(c) THEN sweep.fresh.gen ELSE IF write.call = "apply" THEN write.gen ELSE c.gen

\* A host in its second boot that its former identity's lease keeps in touch.
Trails(x, c) ==
  /\ write # NoWrite => Home(x) \in write.shards
  /\ copy[x].gen <= Top(c)
  /\ write.call = "ensure" /\ Home(x) \notin write.todo => copy[x].status # "waiting"
  /\ write.call = "delete" => copy[x].status # "waiting"
  /\ write.call = "delete" /\ Home(x) \notin write.todo => copy[x] = NoCopy

\* The copy of x is corroborated by no report of x, or by its own alone.
Quiet(x) == copy[x] = NoCopy /\ \A s \in Shards : Addr(s) = x => sweep.report[s] <= 0
OneMouth(x, s) ==
  /\ Addr(s) = x
  /\ \A t \in Shards \ {s} : Addr(t) = x => t \notin sweep.unread /\ sweep.report[t] <= 0
  /\ s \in sweep.unread => sweep.report[s] = Unread
  /\ s \in sweep.todo => sweep.report[s] = copy[x].gen
  /\ s \notin sweep.unread \cup sweep.todo => sweep.report[s] <= 0

\* The host that met the fault has nothing newer than the others, and it alone
\* may confirm a claim that they refuse.
Odd(x, c) ==
  /\ boot[x] \in {1, 2}
  /\ \A s \in Shards : Addr(s) = x /\ s[2] > boot[x] => lease[s] = "absent"
  /\ (c # NoCopy \/ Spreads(c) \/ write.call = "apply") => copy[x].gen <= Top(c)
  /\ sync[x].gen <= Top(c)
  /\ c # NoCopy => \A s \in Shards : Addr(s) = x => sweep.report[s] <= c.gen
  /\ sweep # NoSweep /\ sweep.fresh = NoCopy /\ c = NoCopy => Quiet(x) \/ \E s \in Shards : OneMouth(x, s)
  /\ boot[x] = 2 /\ lease[Home(x)] = "living" => Trails(x, c)
  /\ write.call = "claim" /\ c.status # "waiting" =>
       write.yes <= 1 /\ (copy[x].status = "waiting" => write.yes = 0)

\* What a restart of the service in the midst of a write leaves.
SameGen == \A h, k \in Hosts : copy[h] # NoCopy /\ copy[k] # NoCopy => copy[h].gen = copy[k].gen
AllThere == \A h \in Hosts : copy[h] # NoCopy
Unclaimed == {h \in Hosts : copy[h].status # "claimed"}
Waiting == {h \in Hosts : copy[h].status = "waiting"}
Open == {h \in Hosts : copy[h].status # "claimed" \/ Home(h) \in write.todo}

TornHosts ==
  \A h \in Hosts :
    /\ Settled(h) /\ sweep.report[Home(h)] \in {Unread, copy[h].gen}
    /\ sweep # NoSweep /\ Addr(sweep.ref) # h => Home(h) \in sweep.unread \/ sweep.report[Home(h)] # Unread

TornFresh == sweep # NoSweep => sweep.fresh = copy[Addr(sweep.ref)]

TornCopies == write.call \in {"none", "claim", "ensure", "release"} => SameGen \/ AllThere

TornWrite ==
  /\ \A h \in Hosts : Home(h) \notin write.todo =>
       /\ write.call = "apply" => copy[h].gen = write.gen
       /\ write.call = "delete" => copy[h] = NoCopy
       /\ write.call \in {"claim", "ensure"} => copy[h].status # "waiting"
  /\ write.call = "delete" => Waiting = {}
  /\ write.call = "claim" => write.yes + Cardinality(Open) <= Cardinality(Hosts)

\* Those that did not take part in a granted claim are less than half.
TornGrants ==
  grants # 0 => /\ write.call \in {"none", "claim", "ensure"}
                /\ SameGen \/ Unclaimed = {}
                /\ 2 * Cardinality(Unclaimed) < Cardinality(Hosts)
                /\ write.call = "claim" => 2 * (write.yes + Cardinality(Waiting)) < Cardinality(Hosts)

Torn == TornHosts /\ TornFresh /\ TornCopies /\ TornWrite /\ TornGrants

\* Nothing is newer than the last parking.
Minted ==
  /\ \A h \in Hosts : copy[h].gen <= minted /\ sync[h].gen <= minted
  /\ \A s \in Shards : sweep.report[s] <= minted
  /\ sweep.fresh.gen <= minted
  /\ write.call = "apply" => write.gen = minted

GrantInv == ~raced =>
  /\ Minted /\ grants <= 1
  /\ \/ faults = 0 /\ \E c \in Copies : Even(c)
     \/ faults = 1 /\ \E c \in Copies, x \in Hosts : Level({x}, c) /\ Odd(x, c)
     \/ faults = 1 /\ Torn

-----------------------------------------------------------------------------
(* Facts the steps below share. *)

LEMMA CopyFacts ==
  ASSUME NEW c \in Copies
  PROVE  /\ c.gen \in Nat /\ c.gen \in 0..MaxGen
         /\ c.status \in {"absent", "waiting", "claimed"}
         /\ c.gen = 0 <=> c = NoCopy
         /\ c.status = "absent" <=> c = NoCopy
BY QueueAssumption DEF Copies, Copy, NoCopy

LEMMA HomeFacts ==
  ASSUME NEW h \in Hosts
  PROVE  Home(h) \in Shards /\ Addr(Home(h)) = h /\ Home(h)[2] = 1
BY QueueAssumption DEF Home, Shards, Addr

LEMMA IdleFacts ==
  /\ NoWrite.call = "none" /\ NoWrite.todo = {} /\ NoWrite.shards = {} /\ NoWrite.yes = 0
  /\ NoSweep.unread = {} /\ NoSweep.todo = {} /\ NoSweep.fresh = NoCopy
  /\ \A s \in Shards : NoSweep.report[s] = Unread
BY DEF NoWrite, NoSweep

LEMMA Typed ==
  ASSUME AckInv, ~raced
  PROVE  /\ copy \in [Hosts -> Copies] /\ boot \in [Hosts -> 1..MaxBoots]
         /\ lease \in [Shards -> {"absent", "living", "stale"}]
         /\ sync \in [Hosts -> Copies \cup {Due}] /\ faults \in 0..MaxFaults /\ grants \in Nat /\ minted \in Nat
         /\ write \in Write \cup {NoWrite} /\ sweep \in Sweep \cup {NoSweep}
         /\ write.todo \subseteq Shards /\ write.shards \subseteq Shards
         /\ write.gen \in 0..MaxGen /\ write.yes \in Nat /\ write.call \in Calls \cup {"none"}
         /\ write.call = "none" <=> write = NoWrite
         /\ sweep.unread \subseteq Shards /\ sweep.todo \subseteq Shards /\ sweep.fresh \in Copies
         /\ sweep.report \in [Shards -> Unread..MaxGen]
         /\ sweep # NoSweep => sweep.ref \in Shards
         /\ \A s \in sweep.todo : sweep.report[s] # Unread
         /\ write.call = "apply" => write.gen > 0
         /\ write # NoWrite => sweep = NoSweep /\ \A h \in Hosts : sync[h] = NoCopy
<1>1. /\ copy \in [Hosts -> Copies] /\ boot \in [Hosts -> 1..MaxBoots]
      /\ lease \in [Shards -> {"absent", "living", "stale"}]
      /\ write \in Write \cup {NoWrite} /\ sweep \in Sweep \cup {NoSweep}
      /\ write # NoWrite => sweep = NoSweep /\ \A h \in Hosts : sync[h] = NoCopy
  BY AckFacts
<1>2. /\ sync \in [Hosts -> Copies \cup {Due}] /\ faults \in 0..MaxFaults /\ grants \in Nat /\ minted \in Nat
      /\ write.call = "apply" => write.gen > 0
      /\ \A s \in sweep.todo : sweep.report[s] # Unread
  BY QueueAssumption DEF AckInv, StoreInv, TypeOK, Copies
<1>3. /\ write.todo \subseteq Shards /\ write.shards \subseteq Shards
      /\ write.gen \in 0..MaxGen /\ write.yes \in Nat /\ write.call \in Calls \cup {"none"}
      /\ write.call = "none" <=> write = NoWrite
  BY <1>1, QueueAssumption DEF Write, NoWrite, Calls
<1>4. /\ sweep.unread \subseteq Shards /\ sweep.todo \subseteq Shards /\ sweep.fresh \in Copies
      /\ sweep # NoSweep => sweep.ref \in Shards
  BY <1>1 DEF Sweep, NoSweep, Copies
<1>5. sweep.report \in [Shards -> Unread..MaxGen]
  BY <1>1, QueueAssumption DEF Sweep, NoSweep, Unread
<1> QED BY <1>1, <1>2, <1>3, <1>4, <1>5

\* Nothing overlapped a write yet.
LEMMA Calm ==
  ASSUME AckInv, NextNow, ~raced'
  PROVE  /\ ~raced
         /\ write' # NoWrite => sweep' = NoSweep /\ \A h \in Hosts : sync'[h] = NoCopy
BY NowWatches DEF Watch, Overlap

LEMMA DoneFacts ==
  ASSUME AckInv, ~raced, NEW c \in Copies
  PROVE  /\ Done(c) \in Copies
         /\ write = NoWrite => Done(c) = c
         /\ write.call = "apply" =>
              Done(c) = ApplyNow(c, [gen |-> write.gen, status |-> "waiting"])
         /\ write.call \in {"claim", "ensure"} => Done(c) = ClaimItem(c)
         /\ write.call = "release" => Done(c) = ReleaseItem(c)
         /\ write.call = "delete" => Done(c) = DecideItem(c)
         /\ write.call # "apply" => Done(c).gen \in {c.gen, 0}
         /\ write.call \notin {"apply", "delete"} => Done(c).gen = c.gen
<1>1. /\ write.call = "apply" => Done(c) = ApplyNow(c, [gen |-> write.gen, status |-> "waiting"])
      /\ write.call \in {"claim", "ensure"} => Done(c) = ClaimItem(c)
      /\ write.call = "release" => Done(c) = ReleaseItem(c)
      /\ write.call = "delete" => Done(c) = DecideItem(c)
      /\ write.call = "none" => Done(c) = c
  BY DEF Done
<1>2. write.call \in Calls \cup {"none"} /\ (write = NoWrite => write.call = "none")
      /\ (write.call = "apply" => write.gen \in 1..MaxGen)
  BY Typed, QueueAssumption
<1>3. write.call = "apply" => [gen |-> write.gen, status |-> "waiting"] \in Copies
  BY <1>2 DEF Copies, Copy
<1>4. Done(c) \in Copies
  BY <1>1, <1>2, <1>3 DEF Calls, ApplyNow, ClaimItem, ReleaseItem, DecideItem, Copies, Copy, NoCopy
<1>5. /\ ClaimItem(c).gen = c.gen /\ ReleaseItem(c).gen = c.gen /\ DecideItem(c).gen \in {c.gen, 0}
  BY DEF ClaimItem, ReleaseItem, DecideItem, Copies, Copy, NoCopy
<1> QED BY <1>1, <1>2, <1>4, <1>5 DEF Calls

-----------------------------------------------------------------------------
(* The hosts that agree, X apart, after a step that leaves them alone.      *)

Calling(s) == EnqueueNow(s) \/ ClaimCalls(s) \/ ReleaseCalls(s) \/ EnsureCalls(s) \/ DecideCalls(s)

\* What a call of the write changes.
LEMMA CallFacts ==
  ASSUME AckInv, ~raced, NEW s \in Shards, Calling(s)
  PROVE  /\ write \in Write /\ write # NoWrite /\ s \in write.todo /\ Addr(s) \in Hosts
         /\ sweep = NoSweep /\ \A h \in Hosts : sync[h] = NoCopy
         /\ UNCHANGED <<boot, lease, sync, sweep, grants, minted>>
         /\ write' \in [call : {write.call}, shards : {write.shards}, todo : {write.todo \ {s}},
                        yes : Nat, missing : Nat, gen : {write.gen}]
         /\ \A h \in Hosts \ {Addr(s)} : copy'[h] = copy[h]
         /\ copy'[Addr(s)] \in {copy[Addr(s)], Done(copy[Addr(s)])}
         /\ UNCHANGED faults => copy'[Addr(s)] = Done(copy[Addr(s)])
         /\ write'.yes \in {write.yes, write.yes + 1}
         /\ faults' \in {faults, faults + 1}
<1> DEFINE c == copy[Addr(s)]
<1>1. /\ write \in Write /\ write # NoWrite /\ s \in write.todo /\ Addr(s) \in Hosts
      /\ sweep = NoSweep /\ \A h \in Hosts : sync[h] = NoCopy
  <2>1. s \in write.todo
    BY DEF Calling, EnqueueNow, ClaimCalls, ReleaseCalls, EnsureCalls, DecideCalls
  <2> QED BY <2>1, Typed, IdleFacts, ShardTypes
<1>2. UNCHANGED <<boot, lease, sync, sweep, grants, minted>>
  BY DEF Calling, EnqueueNow, ClaimCalls, ReleaseCalls, EnsureCalls, DecideCalls, FunnelUnchanged
<1>3. copy \in [Hosts -> Copies] /\ c \in Copies /\ faults \in Nat
  BY <1>1, Typed, QueueAssumption
<1>4. \E confirms \in BOOLEAN : Answered(s, Done(c), confirms) \/ Lost(s, Done(c))
  BY <1>3, DoneFacts DEF Calling, EnqueueNow, ClaimCalls, ReleaseCalls, EnsureCalls, DecideCalls
<1>5. PICK confirms \in BOOLEAN : Answered(s, Done(c), confirms) \/ Lost(s, Done(c))
  BY <1>4
<1>6. CASE Answered(s, Done(c), confirms)
  <2> DEFINE yes == write.yes + IF confirms THEN 1 ELSE 0
             missing == write.missing + IF copy[Addr(s)] = NoCopy THEN 1 ELSE 0
  <2>1. yes \in {write.yes, write.yes + 1} /\ yes \in Nat /\ missing \in Nat
    BY <1>1 DEF Write
  <2>2. write' = [write EXCEPT !.todo = @ \ {s}, !.yes = yes, !.missing = missing]
    BY <1>1, <1>6 DEF Answered, Write
  <2>3. copy' = [copy EXCEPT ![Addr(s)] = Done(c)] /\ faults' = faults
    BY <1>6 DEF Answered
  <2> HIDE DEF yes, missing
  <2> QED BY <1>1, <1>2, <1>3, <2>1, <2>2, <2>3 DEF Write
<1>7. CASE Lost(s, Done(c))
  <2>1. faults' = faults + 1 /\ write' = [write EXCEPT !.todo = @ \ {s}]
        /\ (copy' = copy \/ copy' = [copy EXCEPT ![Addr(s)] = Done(c)])
    BY <1>7 DEF Lost, Fault
  <2> QED BY <1>1, <1>2, <1>3, <2>1 DEF Write
<1> QED BY <1>5, <1>6, <1>7

LEMMA LevelCalls ==
  ASSUME AckInv, ~raced, NEW X \in SUBSET Hosts, NEW c \in Copies, Level(X, c),
         NEW s \in Shards, Calling(s), Addr(s) \in X \/ UNCHANGED faults
  PROVE  Level(X, c)'
<1>1. /\ write \in Write /\ write # NoWrite /\ s \in write.todo /\ Addr(s) \in Hosts /\ sweep = NoSweep
      /\ UNCHANGED <<boot, lease, sync, sweep, grants>>
      /\ write'.call = write.call /\ write'.shards = write.shards /\ write'.todo = write.todo \ {s}
      /\ write'.gen = write.gen
      /\ \A h \in Hosts \ {Addr(s)} : copy'[h] = copy[h]
      /\ UNCHANGED faults => copy'[Addr(s)] = Done(copy[Addr(s)])
  BY CallFacts
<1>2. ~Spreads(c) /\ ~Spreads(c)' /\ Done(c)' = Done(c)
  BY <1>1, IdleFacts DEF Spreads, Done
<1>3. ASSUME NEW h \in Hosts \ X PROVE Settled(h)' /\ Follows(h, c)'
  <2>1. Settled(h) /\ Follows(h, c) /\ Home(h) \in Shards /\ Addr(Home(h)) = h
    BY <1>3, HomeFacts DEF Level
  <2>2. Settled(h)'
    BY <1>1, <2>1 DEF Settled
  <2>3. CASE h = Addr(s)
    <3>1. s = Home(h)
      BY <1>1, <2>1, <2>3 DEF Settled
    <3>2. copy[h] = c
      BY <1>1, <1>2, <2>1, <3>1 DEF Follows, At
    <3>3. copy'[h] = Done(c)
      BY <1>1, <1>3, <2>3, <3>2
    <3>4. copy'[h] = At(c, h)'
      BY <1>1, <1>2, <3>1, <3>3 DEF At
    <3> QED BY <1>1, <2>2, <3>4, IdleFacts, HomeFacts DEF Follows
  <2>4. CASE h # Addr(s)
    <3>1. s # Home(h) /\ copy'[h] = copy[h]
      BY <1>1, <2>1, <2>4
    <3>2. copy'[h] = At(c, h)'
      BY <1>1, <1>2, <2>1, <3>1 DEF Follows, At
    <3> QED BY <1>1, <2>2, <3>2, IdleFacts, HomeFacts DEF Follows
  <2> QED BY <2>3, <2>4
<1> QED BY <1>1, <1>3 DEF Level

\* The step keeps what every host but those in X is judged by.
LEMMA LevelBegins ==
  ASSUME AckInv, NextNow, ~raced', NEW X \in SUBSET Hosts, NEW c \in Copies, Level(X, c),
         EnqueueBegins \/ ClaimBegins \/ ReleaseBegins \/ DecideBegins, c.gen <= minted
  PROVE  Level(X, c)'
<1>1. ~raced /\ write = NoWrite
  BY Calm DEF EnqueueBegins, ClaimBegins, ReleaseBegins, DecideBegins, Begin
<1>2. PICK call \in Calls, gen \in {0, minted + 1} :
        /\ Begin(call, gen)
        /\ call \in {"apply", "release"} => grants' = 0
        /\ call \in {"claim", "ensure"} => grants' = grants
        /\ call = "apply" <=> gen # 0
        /\ call # "delete"
  BY Typed, <1>1 DEF EnqueueBegins, ClaimBegins, ReleaseBegins, DecideBegins, Calls
<1>3. /\ UNCHANGED <<copy, boot, lease, sweep, sync>>
      /\ write' # NoWrite /\ write'.call = call /\ write'.shards = Living /\ write'.todo = Living /\ write'.gen = gen
  BY <1>2 DEF Begin, NoWrite, Calls
<1>4. sweep = NoSweep
  BY <1>3, Calm
<1>5. ASSUME NEW h \in Hosts \ X PROVE Settled(h)' /\ Follows(h, c)'
  <2>1. Settled(h) /\ Follows(h, c) /\ Home(h) \in Shards /\ Addr(Home(h)) = h
    BY <1>5, HomeFacts DEF Level
  <2>2. Home(h) \in Living /\ \A s \in Shards \ {Home(h)} : Addr(s) = h => s \notin Living
    BY <2>1 DEF Settled, Living
  <2>3. Settled(h)'
    BY <1>3, <2>1, <2>2 DEF Settled
  <2>4. copy[h] = c
    BY <1>1, <1>4, <2>1, DoneFacts, IdleFacts DEF Follows, At, Spreads
  <2>5. copy'[h] = At(c, h)'
    BY <1>3, <1>4, <2>2, <2>4, IdleFacts DEF At, Spreads
  <2> QED BY <1>3, <1>4, <2>1, <2>3, <2>5, IdleFacts DEF Follows
<1>6. write'.call = "apply" => c.gen < write'.gen
  BY <1>1, <1>2, <1>3, CopyFacts, Typed
<1> QED BY <1>2, <1>3, <1>4, <1>5, <1>6 DEF Level, Calls

LEMMA LevelDeletes ==
  ASSUME AckInv, ~raced, NEW X \in SUBSET Hosts, NEW c \in Copies, Level(X, c), DeleteBegins,
         NEW d, d = Done(c)
  PROVE  Level(X, d)'
<1>1. /\ write \in Write /\ write # NoWrite /\ sweep = NoSweep /\ write.call = "ensure" /\ write.todo = {}
      /\ UNCHANGED <<copy, boot, lease, sweep, sync>> /\ grants' = 0
      /\ write'.call = "delete" /\ write'.shards = write.shards /\ write'.todo = write.shards
  BY Typed DEF DeleteBegins, NoWrite, Write
<1>2. d = ClaimItem(c) /\ d.status # "waiting"
  <2>1. d = ClaimItem(c)
    BY <1>1, DoneFacts
  <2> QED BY <2>1, CopyFacts DEF ClaimItem
<1>3. ASSUME NEW h \in Hosts \ X PROVE Settled(h)' /\ Follows(h, d)'
  <2>1. Settled(h) /\ Follows(h, c) /\ Home(h) \in Shards /\ Addr(Home(h)) = h
    BY <1>3, HomeFacts DEF Level
  <2>2. Settled(h)'
    BY <1>1, <2>1 DEF Settled
  <2>3. copy[h] = d
    BY <1>1, <2>1, IdleFacts DEF Follows, At, Spreads
  <2>4. copy'[h] = At(d, h)'
    BY <1>1, <2>1, <2>3, IdleFacts DEF At, Spreads, Settled
  <2> QED BY <1>1, <2>1, <2>2, <2>4, IdleFacts DEF Follows
<1> QED BY <1>1, <1>2, <1>3 DEF Level

\* A claim that is granted found the copies waiting.
LEMMA LevelEnds ==
  ASSUME AckInv, ~raced, NEW X \in SUBSET Hosts, NEW c \in Copies, Level(X, c), WriteEnds,
         write.call = "claim" /\ HasQuorum => c.status = "waiting",
         NEW d, d = Done(c)
  PROVE  Level(X, d)'
<1>1. /\ write \in Write /\ write # NoWrite /\ sweep = NoSweep /\ write.todo = {}
      /\ UNCHANGED <<copy, boot, lease, sweep, sync>> /\ write' = NoWrite
      /\ grants' = IF write.call = "claim" /\ HasQuorum THEN grants + 1 ELSE grants
  BY Typed DEF WriteEnds
<1>2. \A e \in Copies : Done(e)' = e
  BY <1>1, IdleFacts DEF Done
<1>3. ASSUME NEW h \in Hosts \ X PROVE Settled(h)' /\ Follows(h, d)'
  <2>1. Settled(h) /\ Follows(h, c) /\ Home(h) \in Shards /\ Addr(Home(h)) = h
    BY <1>3, HomeFacts DEF Level
  <2>2. Settled(h)'
    BY <1>1, <2>1, IdleFacts DEF Settled
  <2>3. copy[h] = d /\ d \in Copies
    BY <1>1, <2>1, IdleFacts, DoneFacts DEF Follows, At, Spreads
  <2>4. copy'[h] = At(d, h)'
    BY <1>1, <1>2, <2>1, <2>3, IdleFacts DEF At, Spreads
  <2> QED BY <1>1, <2>1, <2>2, <2>4, IdleFacts DEF Follows
<1>4. grants' # 0 => d.status = "claimed"
  <2>1. CASE write.call = "claim" /\ HasQuorum
    <3>1. d = ClaimItem(c)
      BY <2>1, DoneFacts
    <3> QED BY <2>1, <3>1 DEF ClaimItem, Copies, Copy, NoCopy
  <2>2. ASSUME ~(write.call = "claim" /\ HasQuorum), grants' # 0 PROVE d.status = "claimed"
    <3>1. c.status = "claimed" /\ write.call \in {"claim", "ensure"}
      BY <1>1, <2>2, Typed DEF Level
    <3>2. d = ClaimItem(c)
      BY <3>1, DoneFacts
    <3> QED BY <3>1, <3>2 DEF ClaimItem
  <2> QED BY <2>1, <2>2
<1> QED BY <1>1, <1>3, <1>4, IdleFacts DEF Level

\* The host of another shard is not followed through that shard.
LEMMA LevelShard ==
  ASSUME NEW X \in SUBSET Hosts, NEW c \in Copies, Level(X, c), NEW s \in Shards, Addr(s) \notin X,
         s \in sweep.unread \cup sweep.todo
  PROVE  /\ Addr(s) \in Hosts \ X /\ s = Home(Addr(s)) /\ ~Passed(Addr(s))
         /\ Settled(Addr(s)) /\ Follows(Addr(s), c)
<1>1. Addr(s) \in Hosts
  BY ShardTypes
<1>2. Settled(Addr(s)) /\ Follows(Addr(s), c)
  BY <1>1 DEF Level
<1>3. s = Home(Addr(s))
  BY <1>2 DEF Settled
<1> QED BY <1>1, <1>2, <1>3 DEF Passed

LEMMA LevelSweepBegins ==
  ASSUME AckInv, NextNow, ~raced', NEW X \in SUBSET Hosts, NEW c \in Copies, Level(X, c), SweepBegins,
         Addr(freshest) \in X /\ c # NoCopy => copy[Addr(freshest)].gen <= c.gen
  PROVE  Level(X, c)'
<1>1. /\ ~raced /\ write = NoWrite /\ sweep = NoSweep /\ freshest \in Living /\ freshest \in Shards
      /\ UNCHANGED <<copy, boot, lease, write, sync, grants>>
      /\ sweep' = [NoSweep EXCEPT !.ref = freshest, !.unread = Living \ {freshest}, !.fresh = copy[Addr(freshest)]]
  <2>1. sweep' # NoSweep
    BY ShardTypes DEF SweepBegins, NoSweep, NoShard
  <2> QED BY <2>1, Calm, ShardTypes DEF SweepBegins, SweepUnchanged
<1>2. /\ sweep'.ref = freshest /\ sweep'.unread = Living \ {freshest} /\ sweep'.todo = {}
      /\ sweep'.fresh = copy[Addr(freshest)] /\ sweep'.report = NoSweep.report
  BY <1>1 DEF NoSweep
<1>3. ASSUME NEW h \in Hosts \ X
      PROVE  /\ Settled(h) /\ Home(h) \in Shards /\ Addr(Home(h)) = h /\ copy[h] = c
             /\ \A s \in Living : Addr(s) = h => s = Home(h)
             /\ Home(h) \in Living
  <2>1. Settled(h) /\ Follows(h, c) /\ Home(h) \in Shards /\ Addr(Home(h)) = h
    BY <1>3, HomeFacts DEF Level
  <2>2. copy[h] = c
    BY <1>1, <2>1, IdleFacts, DoneFacts DEF Follows, At, Spreads
  <2> QED BY <2>1, <2>2 DEF Settled, Living
<1>4. ASSUME NEW h \in Hosts \ X PROVE Settled(h)' /\ Follows(h, c)'
  <2>1. Settled(h)'
    BY <1>1, <1>2, <1>3, <1>4, IdleFacts DEF Settled
  <2>2. copy[Addr(freshest)] # c => freshest # Home(h)
    BY <1>3, <1>4
  <2>3. Done(c)' = c
    BY <1>1, IdleFacts DEF Done
  <2>4. copy'[h] = At(c, h)'
    BY <1>1, <1>2, <1>3, <1>4, <2>2, <2>3, IdleFacts DEF At, Spreads, Passed
  <2>5. c # NoCopy /\ sweep'.fresh = NoCopy => Home(h) \in sweep'.unread
    BY <1>2, <1>3, <1>4, <2>2
  <2> QED BY <1>2, <1>3, <1>4, <2>1, <2>4, <2>5, IdleFacts DEF Follows
<1>5. sweep'.fresh = c \/ (Addr(freshest) \in X /\ (c = NoCopy \/ sweep'.fresh.gen <= c.gen))
  <2>1. Addr(freshest) \in Hosts
    BY <1>1, ShardTypes
  <2> QED BY <1>2, <1>3, <2>1
<1> QED BY <1>1, <1>2, <1>4, <1>5, IdleFacts DEF Level

\* What a read of the sweeper changes.
LEMMA ReadFacts ==
  ASSUME AckInv, ~raced, NEW s \in Shards, SweepReads(s)
  PROVE  /\ sweep # NoSweep /\ sweep \in Sweep /\ write = NoWrite /\ s \in sweep.unread /\ sweep' # NoSweep
         /\ UNCHANGED <<copy, boot, lease, write, sync, grants, minted>>
         /\ sweep'.ref = sweep.ref /\ sweep'.fresh = sweep.fresh /\ sweep'.unread = sweep.unread \ {s}
         /\ \/ /\ sweep'.todo = sweep.todo \cup {s}
               /\ sweep'.report = [sweep.report EXCEPT ![s] = copy[Addr(s)].gen]
               /\ UNCHANGED faults
            \/ /\ sweep'.todo = sweep.todo /\ sweep'.report = sweep.report
               /\ Fault
<1>1. sweep # NoSweep /\ sweep \in Sweep /\ write = NoWrite /\ s \in sweep.unread
  BY Typed, IdleFacts DEF SweepReads
<1>2. sweep'.ref = sweep.ref
  BY <1>1 DEF SweepReads, Sweep
<1>3. sweep' # NoSweep
  BY <1>1, <1>2, ShardTypes DEF Sweep, NoSweep
<1> QED BY <1>1, <1>2, <1>3 DEF SweepReads, SweepUnchanged, Sweep

LEMMA LevelReads ==
  ASSUME AckInv, ~raced, NEW X \in SUBSET Hosts, NEW c \in Copies, Level(X, c),
         NEW s \in Shards, SweepReads(s), Addr(s) \in X \/ UNCHANGED faults
  PROVE  Level(X, c)'
<1>1. /\ sweep # NoSweep /\ sweep \in Sweep /\ write = NoWrite /\ s \in sweep.unread /\ sweep' # NoSweep
      /\ UNCHANGED <<copy, boot, lease, write, sync, grants>>
      /\ sweep'.ref = sweep.ref /\ sweep'.fresh = sweep.fresh /\ sweep'.unread = sweep.unread \ {s}
      /\ sweep'.todo \in {sweep.todo, sweep.todo \cup {s}}
      /\ \A t \in Shards \ {s} : sweep'.report[t] = sweep.report[t]
      /\ Addr(s) \notin X => sweep'.todo = sweep.todo \cup {s} /\ sweep'.report[s] = copy[Addr(s)].gen
  <2>1. faults \in Nat /\ sweep.report \in [Shards -> Unread..MaxGen]
    BY Typed, QueueAssumption
  <2>2. CASE UNCHANGED faults /\ sweep'.todo = sweep.todo \cup {s}
             /\ sweep'.report = [sweep.report EXCEPT ![s] = copy[Addr(s)].gen]
    BY <2>1, <2>2, ReadFacts
  <2>3. CASE Fault /\ sweep'.todo = sweep.todo /\ sweep'.report = sweep.report
    <3>1. Addr(s) \in X
      BY <2>1, <2>3 DEF Fault
    <3> QED BY <2>1, <2>3, <3>1, ReadFacts
  <2> QED BY <2>2, <2>3, ReadFacts
<1>2. Done(c)' = Done(c) /\ Spreads(c)' = Spreads(c)
  BY <1>1 DEF Done, Spreads
<1>3. ASSUME NEW h \in Hosts \ X PROVE Settled(h)' /\ Follows(h, c)'
  <2>1. Settled(h) /\ Follows(h, c) /\ Home(h) \in Shards /\ Addr(Home(h)) = h
    BY <1>3, HomeFacts DEF Level
  <2>2. s # Home(h) => Addr(s) # h
    BY <1>1, <2>1 DEF Settled
  <2>3. Settled(h)'
    BY <1>1, <2>1, <2>2 DEF Settled
  <2>4. Passed(h)' = Passed(h)
    BY <1>1, <1>3, <2>1 DEF Passed
  <2>5. copy'[h] = At(c, h)'
    BY <1>1, <1>2, <2>1, <2>4 DEF Follows, At
  <2>6. sweep'.report[Home(h)] \in {Unread, copy'[h].gen}
    BY <1>1, <1>3, <2>1 DEF Follows
  <2>7. ASSUME sweep.fresh = NoCopy, c # NoCopy
        PROVE  Home(h) \in sweep'.unread \/ sweep'.report[Home(h)] > 0
    <3>1. CASE s = Home(h)
      <4>1. copy[h] = c
        BY <1>1, <2>1, <2>7, DoneFacts, IdleFacts DEF Follows, At, Spreads
      <4> QED BY <1>1, <1>3, <2>1, <3>1, <4>1, <2>7, CopyFacts
    <3>2. CASE s # Home(h)
      BY <1>1, <2>1, <2>7, <3>2 DEF Follows
    <3> QED BY <3>1, <3>2
  <2> QED BY <1>1, <2>3, <2>5, <2>6, <2>7 DEF Follows
<1> QED BY <1>1, <1>3 DEF Level

\* What the sweeper's calls to a shard change.
LEMMA ConvergeFacts ==
  ASSUME AckInv, ~raced, NEW s \in Shards, ConvergesNow(s)
  PROVE  /\ sweep # NoSweep /\ sweep \in Sweep /\ write = NoWrite /\ sweep.unread = {} /\ s \in sweep.todo
         /\ sweep' # NoSweep /\ sweep.report[s] \in 0..MaxGen /\ Addr(s) \in Hosts
         /\ UNCHANGED <<boot, lease, write, sync, grants, minted>>
         /\ sweep'.ref = sweep.ref /\ sweep'.fresh = sweep.fresh /\ sweep'.unread = sweep.unread
         /\ sweep'.todo = sweep.todo \ {s}
         /\ \A h \in Hosts \ {Addr(s)} : copy'[h] = copy[h]
         /\ \A t \in Shards \ {s} : sweep'.report[t] = sweep.report[t]
         /\ \/ /\ UNCHANGED faults /\ copy'[Addr(s)] = ConvergedNow(s) /\ sweep'.report[s] = ReportedNow(s)
            \/ /\ Fault /\ (Pushes(s) \/ Drops(s))
               /\ copy'[Addr(s)] \in {copy[Addr(s)], ConvergedNow(s)} /\ sweep'.report[s] = sweep.report[s]
<1>1. sweep # NoSweep /\ sweep \in Sweep /\ write = NoWrite /\ sweep.unread = {} /\ s \in sweep.todo
      /\ Addr(s) \in Hosts /\ copy \in [Hosts -> Copies] /\ sweep.report \in [Shards -> Unread..MaxGen]
      /\ sweep.report[s] # Unread
  BY Typed, IdleFacts, ShardTypes DEF ConvergesNow
<1>2. sweep'.ref = sweep.ref
  BY <1>1 DEF ConvergesNow, Sweep
<1>3. sweep' # NoSweep
  BY <1>1, <1>2, ShardTypes DEF Sweep, NoSweep
<1>4. sweep.report[s] \in 0..MaxGen
  BY <1>1, QueueAssumption DEF Unread
<1>5. UNCHANGED <<boot, lease, write, sync, grants, minted>>
  BY DEF ConvergesNow, SweepUnchanged
<1>6. ASSUME copy' = [copy EXCEPT ![Addr(s)] = ConvergedNow(s)],
             sweep' = [sweep EXCEPT !.todo = @ \ {s}, !.report[s] = ReportedNow(s)]
      PROVE  /\ sweep'.fresh = sweep.fresh /\ sweep'.unread = sweep.unread /\ sweep'.todo = sweep.todo \ {s}
             /\ \A h \in Hosts \ {Addr(s)} : copy'[h] = copy[h]
             /\ \A t \in Shards \ {s} : sweep'.report[t] = sweep.report[t]
             /\ copy'[Addr(s)] = ConvergedNow(s) /\ sweep'.report[s] = ReportedNow(s)
  <2> DEFINE d == ConvergedNow(s)
             r == ReportedNow(s)
  <2>1. copy' = [copy EXCEPT ![Addr(s)] = d] /\ sweep' = [sweep EXCEPT !.todo = @ \ {s}, !.report[s] = r]
    BY <1>6
  <2> HIDE DEF d, r
  <2>2. /\ sweep'.fresh = sweep.fresh /\ sweep'.unread = sweep.unread /\ sweep'.todo = sweep.todo \ {s}
        /\ \A h \in Hosts \ {Addr(s)} : copy'[h] = copy[h]
        /\ \A t \in Shards \ {s} : sweep'.report[t] = sweep.report[t]
        /\ copy'[Addr(s)] = d /\ sweep'.report[s] = r
    BY <1>1, <2>1 DEF Sweep
  <2> QED BY <2>2 DEF d, r
<1>7. ASSUME copy' \in {copy, [copy EXCEPT ![Addr(s)] = ConvergedNow(s)]},
             sweep' = [sweep EXCEPT !.todo = @ \ {s}]
      PROVE  /\ sweep'.fresh = sweep.fresh /\ sweep'.unread = sweep.unread /\ sweep'.todo = sweep.todo \ {s}
             /\ \A h \in Hosts \ {Addr(s)} : copy'[h] = copy[h]
             /\ sweep'.report = sweep.report
             /\ copy'[Addr(s)] \in {copy[Addr(s)], ConvergedNow(s)}
  <2> DEFINE d == ConvergedNow(s)
  <2>1. copy' \in {copy, [copy EXCEPT ![Addr(s)] = d]}
    BY <1>7
  <2> HIDE DEF d
  <2>2. (\A h \in Hosts \ {Addr(s)} : copy'[h] = copy[h]) /\ copy'[Addr(s)] \in {copy[Addr(s)], d}
    BY <1>1, <2>1
  <2> QED BY <1>1, <1>7, <2>2 DEF Sweep, d
<1> QED BY <1>1, <1>2, <1>3, <1>4, <1>5, <1>6, <1>7 DEF ConvergesNow

\* No host that agrees loses its copy: another one corroborates it.
LEMMA LevelConverges ==
  ASSUME AckInv, ~raced, NEW X \in SUBSET Hosts, NEW c \in Copies, Level(X, c),
         \E h, k \in Hosts \ X : h # k,
         NEW s \in Shards, ConvergesNow(s), Addr(s) \in X \/ UNCHANGED faults
  PROVE  Level(X, c)'
<1>1. /\ sweep # NoSweep /\ sweep \in Sweep /\ write = NoWrite /\ sweep.unread = {} /\ s \in sweep.todo
      /\ sweep' # NoSweep /\ sweep.report[s] \in 0..MaxGen /\ Addr(s) \in Hosts
      /\ UNCHANGED <<boot, lease, write, sync, grants>>
      /\ sweep'.ref = sweep.ref /\ sweep'.fresh = sweep.fresh /\ sweep'.unread = sweep.unread
      /\ sweep'.todo = sweep.todo \ {s}
      /\ \A h \in Hosts \ {Addr(s)} : copy'[h] = copy[h]
      /\ \A t \in Shards \ {s} : sweep'.report[t] = sweep.report[t]
  BY ConvergeFacts
<1>2. Addr(s) \notin X => copy'[Addr(s)] = ConvergedNow(s) /\ sweep'.report[s] = ReportedNow(s)
  BY ConvergeFacts, Typed, QueueAssumption DEF Fault
<1>3. Done(c)' = c /\ Done(c) = c /\ Spreads(c)' = Spreads(c) /\ write.todo = {} /\ sweep.fresh \in Copies
  BY <1>1, DoneFacts, IdleFacts, Typed DEF Done, Spreads
<1>4. ASSUME Addr(s) \notin X
      PROVE  /\ copy'[Addr(s)] = IF Spreads(c) THEN sweep.fresh ELSE c
             /\ sweep'.report[s] = copy'[Addr(s)].gen
  <2>1. Addr(s) \in Hosts \ X /\ s = Home(Addr(s)) /\ ~Passed(Addr(s)) /\ Follows(Addr(s), c)
    BY <1>1, <1>4, LevelShard
  <2>2. copy[Addr(s)] = c /\ sweep.report[s] = c.gen
    BY <1>1, <1>3, <2>1 DEF Follows, At, Unread
  <2>3. CASE sweep.fresh = c
    <3>1. ~Pushes(s) /\ ~Drops(s)
      BY <2>2, <2>3, CopyFacts DEF Pushes, Drops
    <3> QED BY <1>2, <1>4, <2>2, <2>3, <3>1 DEF ConvergedNow, ReportedNow, Spreads
  <2>4. CASE sweep.fresh # c /\ c = NoCopy
    <3>1. sweep.fresh.gen > 0 /\ Pushes(s) /\ Spreads(c)
      BY <1>3, <2>2, <2>4, CopyFacts DEF Pushes, Spreads
    <3>2. ApplyNow(c, sweep.fresh) = sweep.fresh
      BY <1>3, <2>4, <3>1, CopyFacts DEF ApplyNow
    <3> QED BY <1>2, <1>4, <2>2, <3>1, <3>2 DEF ConvergedNow, ReportedNow
  <2>5. CASE sweep.fresh # c /\ c # NoCopy
    <3>1. sweep.fresh.gen <= c.gen
      BY <1>1, <2>5 DEF Level
    <3>2. ~Pushes(s)
      BY <1>3, <2>2, <3>1, CopyFacts DEF Pushes
    <3>3. ~Drops(s)
      <4>1. SUFFICES ASSUME sweep.fresh = NoCopy PROVE Corroborated(s)
        BY DEF Drops
      <4>2. PICK k \in Hosts \ X : k # Addr(s)
        OBVIOUS
      <4>3. Home(k) \in Shards /\ Addr(Home(k)) = k /\ Follows(k, c)
        BY HomeFacts DEF Level
      <4>4. sweep.report[Home(k)] > 0
        BY <1>1, <2>5, <4>1, <4>3 DEF Follows
      <4> QED BY <4>2, <4>3, <4>4 DEF Corroborated
    <3> QED BY <1>2, <1>4, <2>2, <2>5, <3>2, <3>3 DEF ConvergedNow, ReportedNow, Spreads
  <2> QED BY <2>3, <2>4, <2>5
<1>5. ASSUME NEW h \in Hosts \ X PROVE Settled(h)' /\ Follows(h, c)'
  <2>1. Settled(h) /\ Follows(h, c) /\ Home(h) \in Shards /\ Addr(Home(h)) = h
    BY <1>5, HomeFacts DEF Level
  <2>2. s # Home(h) <=> Addr(s) # h
    BY <1>1, <2>1 DEF Settled
  <2>3. Settled(h)'
    BY <1>1, <2>1, <2>2 DEF Settled
  <2>4. CASE Addr(s) = h
    <3>1. Passed(h)' /\ s = Home(h)
      BY <1>1, <2>2, <2>4 DEF Passed
    <3>2. copy'[h] = At(c, h)'
      BY <1>1, <1>3, <1>4, <1>5, <2>4, <3>1 DEF At, Spreads
    <3>3. sweep'.fresh = NoCopy /\ c # NoCopy => sweep'.report[Home(h)] > 0
      BY <1>1, <1>4, <1>5, <2>4, <3>1, CopyFacts DEF Spreads
    <3> QED BY <1>4, <1>5, <2>3, <2>4, <3>1, <3>2, <3>3 DEF Follows
  <2>5. CASE Addr(s) # h
    <3>1. Passed(h)' = Passed(h) /\ copy'[h] = copy[h] /\ sweep'.report[Home(h)] = sweep.report[Home(h)]
      BY <1>1, <1>5, <2>1, <2>2, <2>5 DEF Passed
    <3>2. copy'[h] = At(c, h)'
      BY <1>1, <1>3, <2>1, <3>1 DEF Follows, At
    <3> QED BY <1>1, <2>1, <2>3, <3>1, <3>2 DEF Follows
  <2> QED BY <2>4, <2>5
<1> QED BY <1>1, <1>5 DEF Level

\* At the end of a pass the hosts that agree have what was spread, and nothing
\* is pushed to one of them when it was the reference.
LEMMA LevelSweepEnds ==
  ASSUME AckInv, ~raced, NEW X \in SUBSET Hosts, NEW c \in Copies, Level(X, c), SweepEndsNow,
         sweep.fresh = NoCopy /\ c = NoCopy => \A s \in Shards : Addr(s) \in X => sweep.report[s] <= 0,
         NEW d, d = IF Spreads(c) THEN sweep.fresh ELSE c
  PROVE  /\ Level(X, d)'
         /\ sweep.fresh = NoCopy /\ c = NoCopy => UNCHANGED <<copy, faults>>
<1>1. /\ sweep # NoSweep /\ sweep \in Sweep /\ write = NoWrite /\ write.todo = {}
      /\ sweep.unread = {} /\ sweep.todo = {} /\ sweep' = NoSweep
      /\ UNCHANGED <<boot, lease, write, sync, grants>>
      /\ copy \in [Hosts -> Copies] /\ sweep.report \in [Shards -> Unread..MaxGen] /\ Addr(sweep.ref) \in Hosts
  BY Typed, IdleFacts, ShardTypes DEF SweepEndsNow, SweepUnchanged
<1>2. \A e \in Copies : Done(e) = e /\ Done(e)' = e
  BY <1>1, DoneFacts, IdleFacts DEF Done
<1>3. d \in Copies /\ \A h \in Hosts \ X : copy[h] = d
  BY <1>1, <1>2, Typed DEF Level, Follows, At, Passed
<1>4. ASSUME sweep.fresh = NoCopy, c = NoCopy PROVE ReferencePushes = {}
  <2>1. ASSUME NEW s \in Shards PROVE ~(sweep.report[s] > 0)
    <3>1. CASE Addr(s) \in X
      BY <1>1, <1>4, <3>1
    <3>2. CASE Addr(s) \notin X
      <4>1. Addr(s) \in Hosts \ X /\ Settled(Addr(s)) /\ Follows(Addr(s), c)
        BY <3>2, ShardTypes DEF Level
      <4>2. copy[Addr(s)].gen = 0
        BY <1>3, <1>4, <4>1, CopyFacts DEF Spreads
      <4> QED BY <4>1, <4>2 DEF Settled, Follows, Unread
    <3> QED BY <3>1, <3>2
  <2> QED BY <2>1 DEF ReferencePushes
<1>5. sweep.fresh = NoCopy /\ c = NoCopy => UNCHANGED <<copy, faults>>
  BY <1>4 DEF SweepEndsNow
<1>6. ASSUME NEW h \in Hosts \ X PROVE copy'[h] = copy[h]
  <2>1. CASE sweep.fresh = NoCopy /\ ReferencePushes # {}
    <3>1. Addr(sweep.ref) # h
      BY <1>1, <1>4, <1>6, <2>1 DEF Level
    <3>2. \A item : [copy EXCEPT ![Addr(sweep.ref)] = ApplyNow(@, item)][h] = copy[h]
      BY <1>1, <1>6, <3>1
    <3>3. \E item \in ReferencePushes : copy' \in {copy, [copy EXCEPT ![Addr(sweep.ref)] = ApplyNow(@, item)]}
      BY <2>1 DEF SweepEndsNow
    <3> QED BY <3>2, <3>3
  <2>2. CASE ~(sweep.fresh = NoCopy /\ ReferencePushes # {})
    BY <2>2 DEF SweepEndsNow
  <2> QED BY <2>1, <2>2
<1>7. ASSUME NEW h \in Hosts \ X PROVE Settled(h)' /\ Follows(h, d)'
  <2>1. Settled(h) /\ Home(h) \in Shards
    BY <1>7, HomeFacts DEF Level
  <2>2. Settled(h)'
    BY <1>1, <2>1, IdleFacts DEF Settled
  <2>3. copy'[h] = At(d, h)'
    BY <1>1, <1>2, <1>3, <1>6, <1>7, IdleFacts DEF At, Spreads
  <2> QED BY <1>1, <2>1, <2>2, <2>3, IdleFacts DEF Follows
<1>8. grants' # 0 => d.status = "claimed"
  BY <1>1, CopyFacts DEF Level, Spreads, NoCopy
<1> QED BY <1>1, <1>5, <1>7, <1>8, IdleFacts DEF Level

\* A host that agrees does not join, leave or get anything played back.
LEMMA SettledStays ==
  ASSUME AckInv, ~raced, NEW h \in Hosts, Settled(h)
  PROVE  /\ ~JoiningNow(h)
         /\ \A s \in Shards : Addr(s) = h /\ Leaving(s) => Fault
<1>1. Current(h) = Home(h) /\ Home(h) \in Shards /\ Addr(Home(h)) = h
  BY HomeFacts DEF Settled, Current, Home
<1>2. ~JoiningNow(h)
  BY <1>1 DEF JoiningNow, Joins, Renews, SyncReads, SyncNow, Settled, Due, NoCopy
<1>3. ASSUME NEW s \in Shards, Addr(s) = h, Leaving(s) PROVE Fault
  <2>1. s = Home(h) /\ Lapses(s)
    BY <1>3 DEF Leaving, Lapses, Evicts, Settled
  <2> QED BY <1>1, <1>3, <2>1 DEF Lapses
<1> QED BY <1>2, <1>3

\* What the registry does to x leaves the others where they are.
LEMMA LevelRegistry ==
  ASSUME AckInv, ~raced, NEW X \in SUBSET Hosts, NEW c \in Copies, Level(X, c), NEW x \in X,
         JoiningNow(x) \/ ShardRestarts(x) \/ \E s \in Shards : Addr(s) = x /\ Leaving(s)
  PROVE  Level(X, c)'
<1>1. UNCHANGED <<write, sweep, grants>>
  BY DEF JoiningNow, Joins, Renews, SyncReads, SyncNow, ShardRestarts, Leaving, Lapses, Evicts, RegistryUnchanged
<1>2. ASSUME NEW h \in Hosts, h # x
      PROVE  copy'[h] = copy[h] /\ boot'[h] = boot[h] /\ sync'[h] = sync[h]
  BY <1>2, Typed DEF JoiningNow, Joins, Renews, SyncReads, SyncNow, ShardRestarts, Leaving, Lapses, Evicts
<1>3. ASSUME NEW s \in Shards, Addr(s) # x PROVE lease'[s] = lease[s]
  <2>1. lease' = lease \/ \E t \in Shards : \E l : Addr(t) = x /\ lease' = [lease EXCEPT ![t] = l]
    <3>1. Current(x) \in Shards /\ Addr(Current(x)) = x
      BY AckFacts
    <3> QED BY <3>1 DEF JoiningNow, Joins, Renews, SyncReads, SyncNow, ShardRestarts, Leaving, Lapses, Evicts
  <2> QED BY <1>3, <2>1, Typed
<1>4. \A h \in Hosts : At(c, h)' = At(c, h)
  BY <1>1 DEF At, Done, Spreads, Passed
<1>5. ASSUME NEW h \in Hosts \ X PROVE Settled(h)' /\ Follows(h, c)'
  <2>1. Settled(h) /\ Follows(h, c) /\ h # x
    BY <1>5 DEF Level
  <2>2. Settled(h)'
    BY <1>1, <1>2, <1>3, <1>5, <2>1 DEF Settled
  <2>3. Follows(h, c)'
    BY <1>1, <1>2, <1>4, <1>5, <2>1 DEF Follows
  <2> QED BY <2>2, <2>3
<1> QED BY <1>1, <1>5 DEF Level

LEMMA LevelOther ==
  ASSUME NEW X \in SUBSET Hosts, NEW c \in Copies, Level(X, c), NEW s \in Shards, OtherEnqueue(s)
  PROVE  Level(X, c)'
<1>1. UNCHANGED <<copy, boot, lease, write, sweep, sync, grants>>
  BY DEF OtherEnqueue
<1>2. \A h \in Hosts : (Settled(h)' <=> Settled(h)) /\ At(c, h)' = At(c, h)
  BY <1>1 DEF Settled, At, Done, Spreads, Passed
<1> QED BY <1>1, <1>2 DEF Level, Follows

-----------------------------------------------------------------------------
(* The odd host, where every other one agrees on c. *)

\* A call of a claim is confirmed by a copy that was waiting.
LEMMA ClaimFacts ==
  ASSUME AckInv, ~raced, NEW s \in Shards, Calling(s), write.call = "claim"
  PROVE  \/ write'.yes = write.yes
         \/ /\ write'.yes = write.yes + 1 /\ copy[Addr(s)].status = "waiting"
            /\ copy'[Addr(s)] = ClaimItem(copy[Addr(s)]) /\ UNCHANGED faults
<1> DEFINE c == copy[Addr(s)]
           confirms == c.status = "waiting"
<1>1. write \in Write /\ copy \in [Hosts -> Copies] /\ Addr(s) \in Hosts
  BY CallFacts, Typed
<1>2. ClaimCalls(s)
  BY DEF Calling, EnqueueNow, ClaimCalls, ReleaseCalls, EnsureCalls, DecideCalls
<1>3. CASE Answered(s, ClaimItem(c), confirms)
  <2>1. /\ write' = [write EXCEPT !.todo = @ \ {s}, !.yes = @ + IF confirms THEN 1 ELSE 0,
                                  !.missing = @ + IF copy[Addr(s)] = NoCopy THEN 1 ELSE 0]
        /\ copy' = [copy EXCEPT ![Addr(s)] = ClaimItem(c)] /\ UNCHANGED faults
    BY <1>3 DEF Answered
  <2>2. write'.yes = write.yes + IF confirms THEN 1 ELSE 0
    BY <1>1, <2>1 DEF Write
  <2> DEFINE d == ClaimItem(c)
  <2> HIDE DEF d
  <2>3. copy'[Addr(s)] = d
    BY <1>1, <2>1 DEF d
  <2>4. write.yes \in Nat
    BY <1>1 DEF Write
  <2> QED BY <2>1, <2>2, <2>3, <2>4 DEF d
<1>4. CASE Lost(s, ClaimItem(c))
  BY <1>1, <1>4 DEF Lost, Write
<1> QED BY <1>2, <1>3, <1>4 DEF ClaimCalls

\* A store that knows no newer copy than Top knows none after the call.
LEMMA DoneBelowTop ==
  ASSUME AckInv, ~raced, NEW c \in Copies, NEW e \in Copies, e.gen <= Top(c), ~Spreads(c)
  PROVE  Done(e).gen <= Top(c)
<1>1. e.gen \in Nat /\ c.gen \in Nat /\ write.gen \in Nat
  BY CopyFacts, Typed
<1>2. CASE write.call = "apply"
  <2>1. Done(e) = ApplyNow(e, [gen |-> write.gen, status |-> "waiting"]) /\ Top(c) = write.gen
    BY <1>2, DoneFacts DEF Top
  <2> QED BY <1>1, <2>1 DEF ApplyNow
<1>3. CASE write.call # "apply"
  <2>1. Done(e).gen \in {e.gen, 0} /\ Top(c) = c.gen
    BY <1>3, DoneFacts DEF Top
  <2> QED BY <1>1, <2>1
<1> QED BY <1>2, <1>3

LEMMA TopFacts ==
  ASSUME AckInv, ~raced, NEW c \in Copies
  PROVE  /\ Top(c) \in Nat
         /\ write = NoWrite => Top(c) = IF Spreads(c) THEN sweep.fresh.gen ELSE c.gen
BY Typed, CopyFacts DEF Top

LEMMA OddCalls ==
  ASSUME AckInv, ~raced, NEW x \in Hosts, NEW c \in Copies, Level({x}, c), Odd(x, c),
         NEW s \in Shards, Calling(s), Addr(s) = x \/ UNCHANGED faults,
         UNCHANGED faults \/ boot[x] = 1
  PROVE  Odd(x, c)'
<1>1. /\ write \in Write /\ write # NoWrite /\ s \in write.todo /\ Addr(s) \in Hosts /\ sweep = NoSweep
      /\ UNCHANGED <<boot, lease, sync, sweep>>
      /\ write'.call = write.call /\ write'.shards = write.shards /\ write'.todo = write.todo \ {s}
      /\ write'.gen = write.gen /\ write'.yes \in Nat /\ write' # NoWrite
      /\ copy'[x] \in {copy[x], Done(copy[x])}
      /\ Addr(s) = x /\ UNCHANGED faults => copy'[x] = Done(copy[x])
      /\ Addr(s) # x => copy'[x] = copy[x]
  BY CallFacts, IdleFacts, Typed
<1>2. ~Spreads(c) /\ Spreads(c)' = Spreads(c) /\ Top(c)' = Top(c) /\ Top(c) \in Nat
  BY <1>1, IdleFacts, TopFacts DEF Spreads, Top
<1>3. copy[x] \in Copies /\ write.yes \in Nat
  BY Typed
<1>4. copy[x].gen <= Top(c) => copy'[x].gen <= Top(c)
  BY <1>1, <1>2, <1>3, DoneBelowTop
<1>5. (c # NoCopy \/ Spreads(c) \/ write.call = "apply") => copy'[x].gen <= Top(c)
  BY <1>4 DEF Odd
<1>6. ASSUME boot[x] = 2, lease[Home(x)] = "living" PROVE Trails(x, c)'
  <2>1. Trails(x, c) /\ UNCHANGED faults
    BY <1>6 DEF Odd
  <2>2. Addr(Home(x)) = x
    BY HomeFacts
  <2>3. copy'[x].gen <= Top(c)
    BY <1>4, <2>1 DEF Trails
  <2>4. ASSUME write.call = "ensure", Home(x) \notin write'.todo PROVE copy'[x].status # "waiting"
    <3>1. Done(copy[x]) = ClaimItem(copy[x]) /\ ClaimItem(copy[x]).status # "waiting"
      BY <1>3, <2>4, DoneFacts, CopyFacts DEF ClaimItem
    <3>2. CASE s = Home(x)
      BY <1>1, <2>1, <2>2, <3>1, <3>2
    <3>3. CASE s # Home(x)
      BY <1>1, <2>1, <2>4, <3>1, <3>3 DEF Trails
    <3> QED BY <3>2, <3>3
  <2>5. ASSUME write.call = "delete"
        PROVE  copy'[x].status # "waiting" /\ (Home(x) \notin write'.todo => copy'[x] = NoCopy)
    <3>1. Done(copy[x]) = DecideItem(copy[x]) /\ copy[x].status # "waiting"
      BY <1>3, <2>1, <2>5, DoneFacts DEF Trails
    <3>2. DecideItem(copy[x]) = NoCopy
      BY <1>3, <3>1, CopyFacts DEF DecideItem
    <3>3. NoCopy.status # "waiting"
      BY DEF NoCopy
    <3>4. CASE s = Home(x)
      BY <1>1, <2>1, <2>2, <3>1, <3>2, <3>3, <3>4
    <3>5. CASE s # Home(x)
      BY <1>1, <2>1, <2>5, <3>1, <3>2, <3>3, <3>5 DEF Trails
    <3> QED BY <3>4, <3>5
  <2> QED BY <1>1, <1>2, <2>1, <2>3, <2>4, <2>5 DEF Trails
<1>7. ASSUME write.call = "claim", c.status # "waiting"
      PROVE  write'.yes <= 1 /\ (copy'[x].status = "waiting" => write'.yes = 0)
  <2>1. write.yes <= 1 /\ (copy[x].status = "waiting" => write.yes = 0)
    BY <1>7 DEF Odd
  <2>2. Done(copy[x]) = ClaimItem(copy[x]) /\ ClaimItem(copy[x]).status # "waiting"
    BY <1>3, <1>7, DoneFacts, CopyFacts DEF ClaimItem
  <2>3. CASE write'.yes = write.yes
    BY <1>1, <2>1, <2>2, <2>3
  <2>4. CASE /\ write'.yes = write.yes + 1 /\ copy[Addr(s)].status = "waiting"
             /\ copy'[Addr(s)] = ClaimItem(copy[Addr(s)])
    <3>1. Addr(s) = x
      <4>1. SUFFICES ASSUME Addr(s) # x PROVE FALSE
        OBVIOUS
      <4>2. Settled(Addr(s)) /\ Follows(Addr(s), c)
        BY <1>1, <4>1 DEF Level
      <4>3. s = Home(Addr(s))
        BY <1>1, <4>2 DEF Settled
      <4>4. copy[Addr(s)] = c
        BY <1>1, <1>2, <4>2, <4>3 DEF Follows, At
      <4> QED BY <1>7, <2>4, <4>4
    <3> QED BY <1>3, <2>1, <2>2, <2>4, <3>1
  <2> QED BY <1>7, <2>3, <2>4, ClaimFacts
<1>8. sweep' = NoSweep
  BY <1>1
<1> QED BY <1>1, <1>2, <1>5, <1>6, <1>7, <1>8 DEF Odd

LEMMA OddBegins ==
  ASSUME AckInv, NextNow, ~raced', NEW x \in Hosts, NEW c \in Copies, Odd(x, c),
         EnqueueBegins \/ ClaimBegins \/ ReleaseBegins \/ DecideBegins, copy[x].gen <= minted
  PROVE  Odd(x, c)'
<1>1. ~raced /\ write = NoWrite
  BY Calm DEF EnqueueBegins, ClaimBegins, ReleaseBegins, DecideBegins, Begin
<1>2. PICK call \in Calls, gen \in {0, minted + 1} :
        /\ Begin(call, gen)
        /\ call = "apply" <=> gen # 0
        /\ call # "delete"
  BY Typed, <1>1 DEF EnqueueBegins, ClaimBegins, ReleaseBegins, DecideBegins, Calls
<1>3. /\ UNCHANGED <<copy, boot, lease, sweep, sync>>
      /\ write' # NoWrite /\ write'.call = call /\ write'.shards = Living /\ write'.todo = Living /\ write'.gen = gen
      /\ write'.yes = 0
  BY <1>2 DEF Begin, NoWrite, Calls
<1>4. sweep = NoSweep /\ sweep' = NoSweep /\ sync[x] = NoCopy
  BY <1>3, Calm
<1>5. copy[x].gen \in Nat /\ c.gen \in Nat /\ minted \in Nat
  BY <1>1, Typed, CopyFacts
<1>6. ~Spreads(c) /\ ~Spreads(c)' /\ Top(c) = c.gen
      /\ Top(c)' = (IF call = "apply" THEN minted + 1 ELSE c.gen)
  BY <1>1, <1>2, <1>3, <1>4, IdleFacts DEF Spreads, Top
<1>7. (c # NoCopy \/ call = "apply") => copy[x].gen <= Top(c)'
  BY <1>5, <1>6 DEF Odd
<1>8. sync[x].gen <= Top(c)'
  BY <1>4, <1>5, <1>6 DEF NoCopy
<1>9. ASSUME boot[x] = 2, lease[Home(x)] = "living" PROVE Trails(x, c)'
  <2>1. Home(x) \in Living
    BY <1>9, HomeFacts DEF Living
  <2>2. copy[x].gen <= Top(c)'
    BY <1>5, <1>6, <1>9 DEF Odd, Trails
  <2> QED BY <1>2, <1>3, <2>1, <2>2 DEF Trails
<1> QED BY <1>3, <1>4, <1>6, <1>7, <1>8, <1>9 DEF Odd

LEMMA OddDeletes ==
  ASSUME AckInv, ~raced, NEW x \in Hosts, NEW c \in Copies, Odd(x, c), DeleteBegins,
         NEW d, d = Done(c)
  PROVE  Odd(x, d)'
<1>1. /\ write \in Write /\ write # NoWrite /\ sweep = NoSweep /\ write.call = "ensure" /\ write.todo = {}
      /\ UNCHANGED <<copy, boot, lease, sweep, sync>> /\ sync[x] = NoCopy
      /\ write'.call = "delete" /\ write'.shards = write.shards /\ write'.todo = write.shards
  BY Typed DEF DeleteBegins, NoWrite, Write
<1>2. d \in Copies /\ d.gen = c.gen /\ c.gen \in Nat /\ (d = NoCopy <=> c = NoCopy)
  <2>1. d \in Copies /\ d.gen = c.gen
    BY <1>1, DoneFacts
  <2> QED BY <2>1, CopyFacts
<1>3. ~Spreads(c) /\ ~Spreads(d)' /\ Top(c) = c.gen /\ Top(d)' = c.gen
  BY <1>1, <1>2, IdleFacts DEF Spreads, Top
<1>4. sync[x].gen <= c.gen
  BY <1>1, <1>2 DEF NoCopy
<1>5. ASSUME boot[x] = 2, lease[Home(x)] = "living" PROVE Trails(x, d)'
  BY <1>1, <1>3, <1>5 DEF Odd, Trails
<1> QED BY <1>1, <1>2, <1>3, <1>4, <1>5 DEF Odd

LEMMA OddEnds ==
  ASSUME AckInv, ~raced, NEW x \in Hosts, NEW c \in Copies, Level({x}, c), Odd(x, c), WriteEnds,
         NEW d, d = Done(c)
  PROVE  Odd(x, d)'
<1>1. /\ write \in Write /\ write # NoWrite /\ sweep = NoSweep /\ sweep' = NoSweep /\ write.todo = {}
      /\ UNCHANGED <<copy, boot, lease, sync>> /\ sync[x] = NoCopy /\ write' = NoWrite
      /\ copy[x].gen \in Nat /\ c.gen \in Nat /\ write.gen \in Nat
  BY Typed, CopyFacts DEF WriteEnds
<1>2. d \in Copies /\ d.gen \in Nat
  BY DoneFacts, CopyFacts
<1>3. ~Spreads(c) /\ ~Spreads(d)' /\ Top(d)' = d.gen
  BY <1>1, IdleFacts DEF Spreads, Top
<1>4. write.call = "apply" => d.gen = Top(c)
  <2>1. ASSUME write.call = "apply" PROVE d.gen = write.gen
    <3>1. c.gen < write.gen /\ d = ApplyNow(c, [gen |-> write.gen, status |-> "waiting"])
      BY <2>1, DoneFacts DEF Level
    <3> QED BY <1>1, <3>1 DEF ApplyNow
  <2> QED BY <1>3, <2>1 DEF Top
<1>5. write.call = "delete" => d = NoCopy
  <2>1. ASSUME write.call = "delete" PROVE d = NoCopy
    <3>1. c.status # "waiting" /\ d = DecideItem(c)
      BY <2>1, DoneFacts DEF Level
    <3> QED BY <3>1, CopyFacts DEF DecideItem
  <2> QED BY <2>1
<1>6. write.call \notin {"apply", "delete"} => d.gen = c.gen /\ Top(c) = c.gen /\ (d = NoCopy <=> c = NoCopy)
  <2>1. ASSUME write.call \notin {"apply", "delete"} PROVE d.gen = c.gen /\ Top(c) = c.gen
    BY <1>3, <2>1, DoneFacts DEF Top
  <2> QED BY <1>2, <2>1, CopyFacts
<1>7. d # NoCopy => copy[x].gen <= d.gen
  BY <1>4, <1>5, <1>6 DEF Odd
<1>8. sync[x].gen <= d.gen
  BY <1>1, <1>2 DEF NoCopy
<1>9. ASSUME boot[x] = 2, lease[Home(x)] = "living" PROVE Trails(x, d)'
  <2>1. Trails(x, c)
    BY <1>9 DEF Odd
  <2>2. copy[x].gen <= d.gen
    BY <1>1, <1>2, <1>4, <1>5, <1>6, <2>1 DEF Trails, NoCopy
  <2> QED BY <1>1, <1>3, <2>2, IdleFacts DEF Trails
<1>10. \A s \in Shards : sweep'.report[s] <= d.gen
  BY <1>1, <1>2, IdleFacts DEF Unread
<1> QED BY <1>1, <1>3, <1>7, <1>8, <1>9, <1>10, IdleFacts DEF Odd

LEMMA OddOther ==
  ASSUME NEW x \in Hosts, NEW c \in Copies, Odd(x, c), NEW s \in Shards, OtherEnqueue(s)
  PROVE  Odd(x, c)'
<1>1. UNCHANGED <<copy, boot, lease, write, sweep, sync>>
  BY DEF OtherEnqueue
<1>2. Top(c)' = Top(c) /\ (Spreads(c)' <=> Spreads(c)) /\ (Trails(x, c)' <=> Trails(x, c)) /\ (Quiet(x)' <=> Quiet(x))
      /\ \A t \in Shards : OneMouth(x, t)' <=> OneMouth(x, t)
  BY <1>1 DEF Top, Spreads, Trails, Quiet, OneMouth
<1> QED BY <1>1, <1>2 DEF Odd

\* One shard of x at most is read while x may have what no other host has.
LEMMA OddSweepBegins ==
  ASSUME AckInv, NextNow, ~raced', NEW x \in Hosts, NEW c \in Copies, Level({x}, c), Odd(x, c), SweepBegins
  PROVE  Odd(x, c)'
<1>1. /\ ~raced /\ write = NoWrite /\ sweep = NoSweep /\ freshest \in Living /\ freshest \in Shards
      /\ Addr(freshest) \in Hosts
      /\ UNCHANGED <<copy, boot, lease, write, sync>>
      /\ sweep' = [NoSweep EXCEPT !.ref = freshest, !.unread = Living \ {freshest}, !.fresh = copy[Addr(freshest)]]
  <2>1. sweep' # NoSweep
    BY ShardTypes DEF SweepBegins, NoSweep, NoShard
  <2> QED BY <2>1, Calm, ShardTypes DEF SweepBegins, SweepUnchanged
<1>2. /\ sweep'.unread = Living \ {freshest} /\ sweep'.todo = {}
      /\ sweep'.fresh = copy[Addr(freshest)] /\ sweep'.report = NoSweep.report
      /\ \A s \in Shards : sweep'.report[s] = Unread
  BY <1>1, IdleFacts DEF NoSweep
<1>3. copy[x] \in Copies /\ copy[x].gen \in Nat /\ c.gen \in Nat /\ copy[Addr(freshest)] \in Copies
      /\ (c = NoCopy <=> c.gen = 0) /\ (copy[x] = NoCopy <=> copy[x].gen = 0)
      /\ sync[x].gen \in Nat /\ copy[Addr(freshest)].gen \in Nat
  BY <1>1, Typed, CopyFacts DEF Due
<1>4. ~Spreads(c) /\ Top(c) = c.gen /\ Done(c) = c
  BY <1>1, IdleFacts, DoneFacts DEF Spreads, Top
<1>5. Spreads(c)' => Addr(freshest) = x
  <2>1. SUFFICES ASSUME Addr(freshest) # x, Spreads(c)' PROVE FALSE
    OBVIOUS
  <2>2. copy[Addr(freshest)] = c
    BY <1>1, <1>4, <2>1, IdleFacts DEF Level, Follows, At
  <2> QED BY <1>2, <2>1, <2>2 DEF Spreads
<1>6. Top(c)' = (IF Spreads(c)' THEN copy[x].gen ELSE c.gen) /\ Top(c)' \in Nat /\ Top(c) <= Top(c)'
  BY <1>1, <1>2, <1>3, <1>4, <1>5, IdleFacts DEF Top, Spreads
<1>7. (c # NoCopy \/ Spreads(c)') => copy[x].gen <= Top(c)'
  BY <1>3, <1>4, <1>6 DEF Odd
<1>8. sync[x].gen <= Top(c)'
  BY <1>3, <1>4, <1>6 DEF Odd
<1>9. \A s \in Shards : sweep'.report[s] <= c.gen
  BY <1>2, <1>3 DEF Unread
<1>10. ASSUME c = NoCopy PROVE Quiet(x)' \/ \E s \in Shards : OneMouth(x, s)'
  <2>1. CASE copy[x] = NoCopy
    BY <1>1, <1>2, <2>1 DEF Quiet, Unread
  <2>2. CASE copy[x] # NoCopy
    <3>1. ~(boot[x] = 2 /\ lease[Home(x)] = "living")
      BY <1>3, <1>4, <1>10, <2>2 DEF Odd, Trails
    <3>2. Current(x) \in Shards /\ Addr(Current(x)) = x /\ Current(x)[2] = boot[x]
      BY <1>1, AckFacts DEF Current
    <3>3. ASSUME NEW t \in Shards, Addr(t) = x, t # Current(x) PROVE t \notin Living
      <4>1. t = <<x, t[2]>> /\ t[2] \in 1..MaxBoots
        BY <3>3 DEF Shards, Addr
      <4>2. t[2] # boot[x]
        BY <3>3, <4>1 DEF Current
      <4>3. CASE t[2] > boot[x]
        BY <3>3, <4>3 DEF Odd, Living
      <4>4. CASE t[2] < boot[x]
        <5>1. t[2] = 1 /\ boot[x] = 2
          BY <4>1, <4>4 DEF Odd
        <5>2. t = Home(x)
          BY <4>1, <5>1 DEF Home
        <5> QED BY <3>1, <5>1, <5>2 DEF Living
      <4>5. boot[x] \in {1, 2}
        BY DEF Odd
      <4> QED BY <4>1, <4>2, <4>3, <4>4, <4>5
    <3>4. OneMouth(x, Current(x))'
      <4>1. ASSUME NEW t \in Shards \ {Current(x)}, Addr(t) = x
            PROVE  t \notin sweep'.unread /\ sweep'.report[t] <= 0
        BY <1>2, <3>3, <4>1 DEF Unread
      <4>2. Current(x)' = Current(x)
        BY <1>1 DEF Current
      <4> QED BY <1>2, <3>2, <4>1, <4>2 DEF OneMouth, Unread
    <3>5. PICK s \in Shards : s = Current(x)
      BY <3>2
    <3>6. Current(x)' = s
      BY <1>1, <3>5 DEF Current
    <3> QED BY <3>4, <3>6
  <2> QED BY <2>1, <2>2
<1>11. ASSUME boot[x] = 2, lease[Home(x)] = "living" PROVE Trails(x, c)'
  BY <1>1, <1>3, <1>4, <1>6, <1>11, IdleFacts DEF Odd, Trails
<1> QED BY <1>1, <1>7, <1>8, <1>9, <1>10, <1>11, IdleFacts DEF Odd

LEMMA OddReads ==
  ASSUME AckInv, ~raced, NEW x \in Hosts, NEW c \in Copies, Level({x}, c), Odd(x, c),
         NEW s \in Shards, SweepReads(s), Addr(s) = x \/ UNCHANGED faults,
         UNCHANGED faults \/ (Settled(x) /\ Follows(x, c))
  PROVE  Odd(x, c)'
<1>1. /\ sweep # NoSweep /\ sweep \in Sweep /\ write = NoWrite /\ s \in sweep.unread /\ sweep' # NoSweep
      /\ UNCHANGED <<copy, boot, lease, write, sync>>
      /\ sweep'.fresh = sweep.fresh /\ sweep'.unread = sweep.unread \ {s}
      /\ sweep.report \in [Shards -> Unread..MaxGen] /\ copy[x] \in Copies /\ copy[x].gen \in Nat
      /\ faults \in Nat
  <2>1. /\ sweep # NoSweep /\ sweep \in Sweep /\ write = NoWrite /\ s \in sweep.unread /\ sweep' # NoSweep
        /\ UNCHANGED <<copy, boot, lease, write, sync>>
        /\ sweep'.fresh = sweep.fresh /\ sweep'.unread = sweep.unread \ {s}
    BY ReadFacts
  <2> QED BY <2>1, Typed, CopyFacts, QueueAssumption
<1>2. Top(c)' = Top(c) /\ Spreads(c)' = Spreads(c) /\ (c # NoCopy => Top(c) = c.gen)
  BY <1>1, TopFacts DEF Top, Spreads
<1>3. Trails(x, c)' <=> Trails(x, c)
  BY <1>1, <1>2 DEF Trails
<1>4. CASE /\ sweep'.todo = sweep.todo \cup {s}
           /\ sweep'.report = [sweep.report EXCEPT ![s] = copy[Addr(s)].gen]
  <2>1. /\ \A t \in Shards \ {s} : sweep'.report[t] = sweep.report[t]
        /\ sweep'.report[s] = copy[Addr(s)].gen
    BY <1>1, <1>4
  <2>2. c # NoCopy => \A t \in Shards : Addr(t) = x => sweep'.report[t] <= c.gen
    BY <1>2, <2>1 DEF Odd
  <2>3. Quiet(x) => Quiet(x)'
    <3>1. copy[x] = NoCopy => copy[x].gen = 0
      BY <1>1, CopyFacts
    <3> QED BY <1>1, <2>1, <3>1 DEF Quiet
  <2>4. ASSUME NEW t \in Shards, OneMouth(x, t) PROVE OneMouth(x, t)'
    <3>1. s = t \/ Addr(s) # x
      BY <1>1, <2>4 DEF OneMouth
    <3> QED BY <1>1, <1>4, <2>1, <2>4, <3>1 DEF OneMouth
  <2> QED BY <1>1, <1>2, <1>3, <2>2, <2>3, <2>4, IdleFacts DEF Odd
<1>5. CASE sweep'.report = sweep.report /\ Fault
  <2>1. Settled(x) /\ Follows(x, c)
    BY <1>1, <1>5 DEF Fault
  <2>2. ASSUME sweep.fresh = NoCopy, c = NoCopy PROVE Quiet(x)'
    <3>1. copy[x] = c
      BY <1>1, <2>1, <2>2, DoneFacts, IdleFacts DEF Follows, At, Spreads
    <3>2. copy[x].gen = 0
      BY <2>2, <3>1, CopyFacts
    <3>3. \A t \in Shards : Addr(t) = x => sweep.report[t] <= 0
      BY <2>1, <3>2 DEF Settled, Follows, Unread
    <3> QED BY <1>1, <1>5, <2>2, <3>1, <3>3 DEF Quiet
  <2> QED BY <1>1, <1>2, <1>3, <1>5, <2>2, IdleFacts DEF Odd
<1> QED BY <1>4, <1>5, ReadFacts

\* What only x has is dropped before it is pushed to the reference.
LEMMA OddConverges ==
  ASSUME AckInv, ~raced, NEW x \in Hosts, NEW c \in Copies, Level({x}, c), Odd(x, c),
         NEW s \in Shards, ConvergesNow(s), UNCHANGED faults
  PROVE  Odd(x, c)'
<1>1. /\ sweep # NoSweep /\ sweep \in Sweep /\ write = NoWrite /\ sweep.unread = {} /\ s \in sweep.todo
      /\ sweep' # NoSweep /\ sweep.report[s] \in Nat
      /\ UNCHANGED <<boot, lease, write, sync>>
      /\ sweep'.fresh = sweep.fresh /\ sweep'.unread = sweep.unread
      /\ sweep'.todo = sweep.todo \ {s}
      /\ \A h \in Hosts \ {Addr(s)} : copy'[h] = copy[h]
      /\ \A t \in Shards \ {s} : sweep'.report[t] = sweep.report[t]
      /\ copy'[Addr(s)] = ConvergedNow(s) /\ sweep'.report[s] = ReportedNow(s)
  <2>1. faults \in Nat /\ MaxGen \in Nat
    BY Typed, QueueAssumption
  <2> QED BY <2>1, ConvergeFacts DEF Fault
<1>2. copy[x] \in Copies /\ copy[x].gen \in Nat /\ sweep.fresh \in Copies /\ sweep.fresh.gen \in Nat
      /\ (c = NoCopy <=> c.gen = 0) /\ (copy[x] = NoCopy <=> copy[x].gen = 0)
      /\ (sweep.fresh = NoCopy <=> sweep.fresh.gen = 0) /\ c.gen \in Nat /\ Top(c) \in Nat
      /\ NoCopy.gen = 0
  BY Typed, CopyFacts, TopFacts DEF NoCopy
<1>3. Top(c)' = Top(c) /\ Spreads(c)' = Spreads(c) /\ (Top(c) = IF Spreads(c) THEN sweep.fresh.gen ELSE c.gen)
      /\ (Trails(x, c) <=> copy[x].gen <= Top(c)) /\ (Trails(x, c)' <=> copy'[x].gen <= Top(c))
  <2>1. Top(c)' = Top(c) /\ Spreads(c)' = Spreads(c)
    BY <1>1, TopFacts DEF Top, Spreads
  <2>2. (Trails(x, c) <=> copy[x].gen <= Top(c)) /\ (Trails(x, c)' <=> copy'[x].gen <= Top(c))
    BY <1>1, <2>1, IdleFacts DEF Trails
  <2> QED BY <1>1, <2>1, <2>2, TopFacts
<1>4. CASE Addr(s) # x
  <2>1. copy'[x] = copy[x] /\ \A t \in Shards : Addr(t) = x => t # s /\ sweep'.report[t] = sweep.report[t]
    BY <1>1, <1>4
  <2>2. (Quiet(x) => Quiet(x)') /\ \A t \in Shards : OneMouth(x, t) => OneMouth(x, t)'
    BY <1>1, <2>1 DEF Quiet, OneMouth
  <2> QED BY <1>1, <1>3, <2>1, <2>2, IdleFacts DEF Odd
<1>5. CASE Addr(s) = x
  <2>1. /\ copy'[x] = IF Pushes(s) THEN ApplyNow(copy[x], sweep.fresh)
                      ELSE IF Drops(s) THEN DropItem(copy[x], sweep.report[s]) ELSE copy[x]
        /\ sweep'.report[s] = IF Pushes(s) THEN sweep.fresh.gen
                              ELSE IF Drops(s) /\ copy[x].gen = sweep.report[s] THEN 0 ELSE sweep.report[s]
    BY <1>1, <1>5 DEF ConvergedNow, ReportedNow
  <2>2. CASE c # NoCopy \/ sweep.fresh # NoCopy
    <3>1. sweep.fresh.gen <= Top(c)
      BY <1>1, <1>2, <1>3, <2>2 DEF Level, Spreads
    <3>2. copy[x].gen <= Top(c)
      BY <2>2 DEF Odd, Spreads
    <3>3. copy'[x].gen <= Top(c)
      BY <1>2, <2>1, <3>1, <3>2 DEF ApplyNow, DropItem
    <3>4. c # NoCopy => \A t \in Shards : Addr(t) = x => sweep'.report[t] <= c.gen
      <4>1. ASSUME c # NoCopy PROVE sweep'.report[s] <= c.gen
        <5>1. sweep.report[s] <= c.gen
          BY <1>5, <4>1 DEF Odd
        <5> QED BY <1>2, <1>3, <2>1, <3>1, <4>1, <5>1 DEF Spreads
      <4> QED BY <1>1, <4>1 DEF Odd
    <3> QED BY <1>1, <1>3, <2>2, <3>3, <3>4, IdleFacts DEF Odd
  <2>3. CASE c = NoCopy /\ sweep.fresh = NoCopy
    <3>1. ~Pushes(s) /\ ~Spreads(c) /\ Top(c) = 0
      BY <1>1, <1>2, <1>3, <2>3 DEF Pushes, Spreads
    <3>2. copy'[x] \in {copy[x], NoCopy}
      BY <2>1, <3>1 DEF DropItem
    <3>3. copy[x].gen <= Top(c) => copy'[x].gen <= Top(c)
      BY <1>2, <3>1, <3>2
    <3>4. Quiet(x)' \/ \E t \in Shards : OneMouth(x, t)'
      <4>1. CASE sweep.report[s] = 0
        <5>1. ~Drops(s) /\ copy'[x] = copy[x] /\ sweep'.report[s] = sweep.report[s]
          BY <2>1, <3>1, <4>1 DEF Drops
        <5>2. (Quiet(x) => Quiet(x)') /\ \A t \in Shards : OneMouth(x, t) => OneMouth(x, t)'
          BY <1>1, <4>1, <5>1 DEF Quiet, OneMouth
        <5> QED BY <1>1, <2>3, <5>2 DEF Odd
      <4>2. CASE sweep.report[s] # 0
        <5>1. OneMouth(x, s)
          <6>1. ~Quiet(x)
            BY <1>1, <1>5, <4>2 DEF Quiet
          <6>2. PICK t \in Shards : OneMouth(x, t)
            BY <1>1, <2>3, <6>1 DEF Odd
          <6>3. t = s
            BY <1>1, <1>5, <4>2, <6>2 DEF OneMouth
          <6> QED BY <6>2, <6>3
        <5>2. sweep.report[s] = copy[x].gen
          BY <1>1, <5>1 DEF OneMouth
        <5>3. ~Corroborated(s)
          <6>1. SUFFICES ASSUME NEW t \in Shards \ {s}, sweep.report[t] > 0 PROVE FALSE
            BY DEF Corroborated
          <6>2. sweep.report[t] \in Unread..MaxGen
            BY Typed
          <6>3. Addr(t) # x
            BY <5>1, <6>1, <6>2, QueueAssumption DEF OneMouth, Unread
          <6>4. Addr(t) \in Hosts \ {x} /\ Settled(Addr(t)) /\ Follows(Addr(t), c)
            BY <6>3, ShardTypes DEF Level
          <6>5. copy[Addr(t)] = c
            BY <1>1, <3>1, <6>4, DoneFacts, IdleFacts DEF Follows, At
          <6> QED BY <1>2, <2>3, <6>1, <6>4, <6>5 DEF Settled, Follows, Unread
        <5>4. Drops(s) /\ copy'[x] = NoCopy /\ sweep'.report[s] = 0
          BY <1>1, <2>1, <2>3, <3>1, <4>2, <5>2, <5>3 DEF Drops, DropItem
        <5> QED BY <1>1, <5>1, <5>4 DEF OneMouth, Quiet
      <4> QED BY <4>1, <4>2
    <3> QED BY <1>1, <1>3, <2>3, <3>1, <3>3, <3>4, IdleFacts DEF Odd
  <2> QED BY <2>2, <2>3
<1> QED BY <1>4, <1>5

\* At the end of a pass nothing is known that only x has, or everyone has it.
LEMMA OddSweepEnds ==
  ASSUME AckInv, ~raced, NEW x \in Hosts, NEW c \in Copies, Level({x}, c), Odd(x, c), SweepEndsNow,
         NEW d, d = IF Spreads(c) THEN sweep.fresh ELSE c
  PROVE  /\ Odd(x, d)'
         /\ sweep.fresh = NoCopy /\ c = NoCopy => \A s \in Shards : Addr(s) = x => sweep.report[s] <= 0
<1>1. /\ sweep # NoSweep /\ sweep \in Sweep /\ write = NoWrite
      /\ sweep.unread = {} /\ sweep.todo = {} /\ sweep' = NoSweep
      /\ UNCHANGED <<boot, lease, write, sync>>
      /\ copy \in [Hosts -> Copies] /\ sweep.report \in [Shards -> Unread..MaxGen] /\ Addr(sweep.ref) \in Hosts
      /\ MaxGen \in Nat
  BY Typed, IdleFacts, ShardTypes, QueueAssumption DEF SweepEndsNow, SweepUnchanged
<1>2. ASSUME sweep.fresh = NoCopy, c = NoCopy PROVE \A s \in Shards : Addr(s) = x => sweep.report[s] <= 0
  <2>1. Quiet(x) \/ \E s \in Shards : OneMouth(x, s)
    BY <1>1, <1>2 DEF Odd
  <2> QED BY <1>1, <2>1 DEF Quiet, OneMouth
<1>3. d \in Copies /\ d.gen \in Nat /\ c.gen \in Nat /\ (d = NoCopy <=> d.gen = 0) /\ copy[x].gen \in Nat
      /\ sync[x].gen \in Nat
  BY <1>1, Typed, CopyFacts DEF Due
<1>4. Top(c) = d.gen /\ ~Spreads(d)' /\ Top(d)' = d.gen
  BY <1>1, TopFacts, IdleFacts DEF Spreads, Top
<1>5. d # NoCopy => copy[x].gen <= d.gen
  BY <1>4 DEF Odd, Spreads
<1>6. copy[x].gen <= d.gen => copy'[x].gen <= d.gen
  <2>1. CASE sweep.fresh = NoCopy /\ c = NoCopy
    <3>1. UNCHANGED copy
      BY <1>2, <2>1, LevelSweepEnds
    <3> QED BY <3>1
  <2>2. CASE sweep.fresh # NoCopy
    <3>1. UNCHANGED copy
      BY <2>2 DEF SweepEndsNow
    <3> QED BY <3>1
  <2>3. CASE sweep.fresh = NoCopy /\ c # NoCopy
    <3>1. d = c /\ ~Spreads(c)
      BY <2>3 DEF Spreads
    <3>2. \A s \in Shards : sweep.report[s] <= c.gen
      <4>1. SUFFICES ASSUME NEW s \in Shards PROVE sweep.report[s] <= c.gen
        OBVIOUS
      <4>2. CASE Addr(s) = x
        BY <2>3, <4>2 DEF Odd
      <4>3. CASE Addr(s) # x
        <5>1. Addr(s) \in Hosts \ {x} /\ Settled(Addr(s)) /\ Follows(Addr(s), c)
          BY <4>3, ShardTypes DEF Level
        <5>2. copy[Addr(s)] = c
          BY <1>1, <3>1, <5>1, DoneFacts, IdleFacts DEF Follows, At
        <5> QED BY <1>3, <5>1, <5>2 DEF Settled, Follows, Unread
      <4> QED BY <4>2, <4>3
    <3>3. ASSUME NEW item \in ReferencePushes, copy[x].gen <= d.gen,
                 copy' \in {copy, [copy EXCEPT ![Addr(sweep.ref)] = ApplyNow(@, item)]}
          PROVE  copy'[x].gen <= d.gen
      <4>1. PICK s \in Shards : item = [gen |-> sweep.report[s], status |-> "waiting"]
        BY DEF ReferencePushes
      <4>2. item.gen <= d.gen
        BY <3>1, <3>2, <4>1
      <4>3. copy'[x] \in {copy[x], ApplyNow(copy[x], item)}
        BY <1>1, <3>3
      <4> QED BY <3>3, <4>2, <4>3 DEF ApplyNow
    <3> QED BY <3>3 DEF SweepEndsNow
  <2> QED BY <2>1, <2>2, <2>3
<1>7. sync[x].gen <= d.gen
  BY <1>4 DEF Odd
<1>8. ASSUME boot[x] = 2, lease[Home(x)] = "living" PROVE Trails(x, d)'
  <2>1. copy[x].gen <= d.gen
    BY <1>4, <1>8 DEF Odd, Trails
  <2> QED BY <1>1, <1>4, <1>6, <2>1, IdleFacts DEF Trails
<1>9. \A s \in Shards : sweep'.report[s] <= d.gen
  BY <1>1, <1>3, IdleFacts DEF Unread
<1> QED BY <1>1, <1>2, <1>4, <1>5, <1>6, <1>7, <1>8, <1>9, IdleFacts DEF Odd

LEMMA OddRegistry ==
  ASSUME AckInv, NextNow, ~raced', NEW x \in Hosts, NEW c \in Copies, Level({x}, c), Odd(x, c),
         JoiningNow(x) \/ \E s \in Shards : Addr(s) = x /\ Leaving(s)
  PROVE  Odd(x, c)'
<1>1. /\ ~raced /\ UNCHANGED <<boot, write, sweep>>
      /\ copy \in [Hosts -> Copies] /\ boot \in [Hosts -> 1..MaxBoots] /\ sync \in [Hosts -> Copies \cup {Due}]
      /\ lease \in [Shards -> {"absent", "living", "stale"}]
      /\ copy[x].gen \in Nat /\ c.gen \in Nat /\ Top(c) \in Nat
      /\ Current(x) \in Shards /\ Addr(Current(x)) = x /\ Current(x)[2] = boot[x]
  <2>1. ~raced
    BY Calm
  <2>2. UNCHANGED <<boot, write, sweep>>
    BY DEF JoiningNow, Joins, Renews, SyncReads, SyncNow, Leaving, Lapses, Evicts, RegistryUnchanged
  <2> QED BY <2>1, <2>2, Typed, CopyFacts, TopFacts, AckFacts DEF Current
<1>2. /\ Top(c)' = Top(c) /\ Spreads(c)' = Spreads(c)
      /\ write # NoWrite => UNCHANGED <<copy, sync>>
  <2>1. Top(c)' = Top(c) /\ Spreads(c)' = Spreads(c)
    BY <1>1 DEF Top, Spreads
  <2>2. ASSUME write # NoWrite PROVE UNCHANGED <<copy, sync>>
    <3>1. (\A h \in Hosts : sync[h] = NoCopy) /\ (\A h \in Hosts : sync'[h] = NoCopy)
      BY <1>1, <2>2, Typed, Calm
    <3>2. ~Joins(x) /\ ~SyncReads(x) /\ ~SyncNow(x)
      BY <1>1, <3>1 DEF Joins, SyncReads, SyncNow, Due, NoCopy
    <3> QED BY <3>2 DEF JoiningNow, Renews, Leaving, Lapses, Evicts
  <2> QED BY <2>1, <2>2
<1>3. ASSUME NEW s \in Shards, Addr(s) = x, s[2] > boot[x] PROVE lease'[s] = "absent"
  <2>1. lease[s] = "absent" /\ s # Current(x)
    BY <1>1, <1>3 DEF Odd
  <2> QED BY <1>1, <2>1 DEF JoiningNow, Joins, Renews, SyncReads, SyncNow, Leaving, Lapses, Evicts
<1>4. ASSUME boot[x] = 2, lease'[Home(x)] = "living" PROVE lease[Home(x)] = "living"
  <2>1. Current(x) # Home(x) /\ Home(x) \in Shards
    BY <1>1, <1>4, HomeFacts
  <2> QED BY <1>1, <1>4, <2>1 DEF JoiningNow, Joins, Renews, SyncReads, SyncNow, Leaving, Lapses, Evicts
<1>5. sync'[x].gen <= Top(c)
  <2>1. CASE sync' = sync
    BY <2>1 DEF Odd
  <2>2. CASE sync' # sync
    <3>1. write = NoWrite /\ sync' # sync
      BY <1>2, <2>2
    <3>2. sync'[x] \in {Due, NoCopy} \/ (SyncReads(x) /\ freshest \in Living /\ Addr(freshest) # x
                                         /\ sync'[x] = copy[Addr(freshest)])
      BY <1>1, <3>1 DEF JoiningNow, Joins, Renews, SyncReads, SyncNow, Leaving, Lapses, Evicts
    <3>3. CASE freshest \in Living /\ Addr(freshest) # x /\ sync'[x] = copy[Addr(freshest)]
      <4>1. Addr(freshest) \in Hosts \ {x}
        BY <3>3, ShardTypes
      <4>2. copy[Addr(freshest)] = At(c, Addr(freshest)) /\ Done(c) = c
        BY <1>1, <3>1, <4>1, DoneFacts DEF Level, Follows
      <4>3. copy[Addr(freshest)] = c \/ (Spreads(c) /\ copy[Addr(freshest)] = sweep.fresh)
        BY <4>2 DEF At
      <4>4. Top(c) = IF Spreads(c) THEN sweep.fresh.gen ELSE c.gen
        BY <1>1, <3>1, TopFacts
      <4>5. sweep.fresh.gen \in Nat /\ (c = NoCopy => c.gen = 0)
        BY <1>1, Typed, CopyFacts
      <4> QED BY <1>1, <3>3, <4>3, <4>4, <4>5 DEF Spreads
    <3> QED BY <1>1, <3>2, <3>3 DEF Due, NoCopy
  <2> QED BY <2>1, <2>2
<1>6. CASE SyncNow(x)
  <2>1. /\ write = NoWrite /\ sync[x] \in Copies /\ sync[x].gen \in Nat /\ sync[x].gen > 0
        /\ UNCHANGED lease /\ copy'[x] \in {copy[x], ApplyNow(copy[x], sync[x])}
    <3>1. sync[x] \in Copies /\ sync[x] # NoCopy
      BY <1>1, <1>6 DEF SyncNow
    <3>2. copy'[x] \in {copy[x], ApplyNow(copy[x], sync[x])}
      BY <1>1, <1>6 DEF SyncNow
    <3>3. write = NoWrite
      BY <1>1, <3>1, Typed
    <3> QED BY <1>6, <3>1, <3>2, <3>3, CopyFacts DEF SyncNow
  <2>2. c # NoCopy \/ Spreads(c)
    <3>1. Top(c) > 0
      BY <1>1, <2>1 DEF Odd
    <3> QED BY <1>1, <2>1, <3>1, TopFacts, CopyFacts
  <2>3. copy[x].gen <= Top(c) /\ sync[x].gen <= Top(c)
    BY <2>2 DEF Odd
  <2>4. copy'[x].gen <= Top(c)
    BY <2>1, <2>3 DEF ApplyNow
  <2>5. sweep.fresh = NoCopy => c # NoCopy
    BY <2>2 DEF Spreads
  <2>6. Trails(x, c)'
    BY <1>1, <1>2, <2>1, <2>4, IdleFacts DEF Trails
  <2> QED BY <1>1, <1>2, <1>3, <1>5, <2>1, <2>4, <2>5, <2>6, IdleFacts DEF Odd
<1>7. CASE ~SyncNow(x)
  <2>1. copy' = copy
    BY <1>7 DEF JoiningNow, Joins, Renews, SyncReads, Leaving, Lapses, Evicts
  <2>2. (Trails(x, c)' <=> Trails(x, c)) /\ (Quiet(x)' <=> Quiet(x))
        /\ \A t \in Shards : OneMouth(x, t)' <=> OneMouth(x, t)
    BY <1>1, <1>2, <2>1 DEF Trails, Quiet, OneMouth
  <2> QED BY <1>1, <1>2, <1>3, <1>4, <1>5, <2>1, <2>2 DEF Odd
<1> QED BY <1>6, <1>7

\* A host that agreed comes back empty, behind the lease of its former boot.
LEMMA OddRestarts ==
  ASSUME AckInv, ~raced, NEW x \in Hosts, NEW c \in Copies, Even(c), Odd(x, c), ShardRestarts(x)
  PROVE  Odd(x, c)'
<1>1. /\ Settled(x) /\ Follows(x, c) /\ UNCHANGED <<lease, write, sweep, sync>>
      /\ copy'[x] = NoCopy /\ boot'[x] = 2 /\ boot[x] = 1 /\ sync[x] = NoCopy
      /\ Top(c) \in Nat /\ write.yes \in Nat /\ NoCopy.gen = 0 /\ NoCopy.status = "absent"
  <2>1. Settled(x) /\ Follows(x, c)
    BY DEF Even, Level
  <2>2. copy \in [Hosts -> Copies] /\ boot \in [Hosts -> 1..MaxBoots] /\ Top(c) \in Nat /\ write.yes \in Nat
    BY Typed, TopFacts
  <2> QED BY <2>1, <2>2 DEF ShardRestarts, RegistryUnchanged, Settled, NoCopy
<1>2. /\ Top(c)' = Top(c) /\ Spreads(c)' = Spreads(c)
  BY <1>1 DEF Top, Spreads
<1>3. ASSUME NEW s \in Shards, Addr(s) = x, s[2] > 2 PROVE lease[s] = "absent"
  BY <1>1, <1>3, HomeFacts DEF Settled
<1>4. ASSUME sweep # NoSweep, sweep.fresh = NoCopy, c = NoCopy PROVE Quiet(x)'
  <2>1. copy[x] = c /\ c.gen = 0
    BY <1>1, <1>4, Typed, DoneFacts, CopyFacts DEF Follows, At, Spreads
  <2>2. \A s \in Shards : Addr(s) = x => sweep.report[s] <= 0
    BY <1>1, <2>1 DEF Settled, Follows, Unread
  <2> QED BY <1>1, <2>2 DEF Quiet
<1>5. Trails(x, c)'
  BY <1>1, <1>2 DEF Trails, Settled
<1>6. write.call = "claim" /\ c.status # "waiting" => write.yes <= 1
  BY DEF Even
<1> QED BY <1>1, <1>2, <1>3, <1>4, <1>5, <1>6 DEF Odd

-----------------------------------------------------------------------------
(* While no fault happened every host agrees, and any of them may become odd. *)

LEMMA EvenIsOdd ==
  ASSUME AckInv, ~raced, NEW c \in Copies, Even(c), NEW x \in Hosts
  PROVE  Level({x}, c) /\ Odd(x, c) /\ Settled(x) /\ Follows(x, c) /\ ~Spreads(c)
<1>1. /\ Settled(x) /\ Follows(x, c) /\ sync[x] = NoCopy /\ boot[x] = 1
      /\ sweep # NoSweep => sweep.fresh = c
      /\ copy[x] \in Copies /\ copy[x].gen \in Nat /\ c.gen \in Nat /\ Top(c) \in Nat /\ write.gen \in Nat
  BY Typed, CopyFacts, TopFacts DEF Even, Level, Settled
<1>2. ~Spreads(c)
  BY <1>1, IdleFacts DEF Spreads
<1>3. Level({x}, c)
  BY DEF Even, Level
<1>4. copy[x] \in {c, Done(c)}
  BY <1>1, <1>2 DEF Follows, At
<1>5. c.gen <= Top(c)
  BY <1>1, <1>2 DEF Top, Even, Level
<1>6. copy[x].gen <= Top(c)
  BY <1>2, <1>4, <1>5, DoneBelowTop
<1>7. ASSUME c # NoCopy, NEW s \in Shards, Addr(s) = x PROVE sweep.report[s] <= c.gen
  <2>1. sweep # NoSweep => copy[x] = c
    BY <1>4, DoneFacts, Typed
  <2> QED BY <1>1, <1>7, <2>1, IdleFacts DEF Settled, Follows, Unread
<1>8. ASSUME sweep # NoSweep, c = NoCopy PROVE Quiet(x)
  <2>1. copy[x] = NoCopy /\ NoCopy.gen = 0
    BY <1>4, <1>8, DoneFacts, Typed DEF NoCopy
  <2> QED BY <1>1, <2>1 DEF Settled, Follows, Unread, Quiet
<1>9. ASSUME NEW s \in Shards, Addr(s) = x, s[2] > boot[x] PROVE lease[s] = "absent"
  BY <1>1, <1>9, HomeFacts DEF Settled
<1>10. sync[x].gen <= Top(c)
  BY <1>1 DEF NoCopy
<1>11. write.call = "claim" /\ c.status # "waiting" => write.yes = 0
  BY DEF Even
<1> QED BY <1>1, <1>2, <1>3, <1>6, <1>7, <1>8, <1>9, <1>10, <1>11 DEF Odd

-----------------------------------------------------------------------------
(* Nothing is newer than what was minted. *)

MintedStores == \A h \in Hosts : copy[h].gen <= minted
MintedSyncs == \A h \in Hosts : sync[h].gen <= minted
MintedSweep == sweep.fresh.gen <= minted /\ \A s \in Shards : sweep.report[s] <= minted
MintedWrite == write.call = "apply" => write.gen = minted

LEMMA MintedParts == Minted <=> MintedStores /\ MintedSyncs /\ MintedSweep /\ MintedWrite
BY DEF Minted, MintedStores, MintedSyncs, MintedSweep, MintedWrite

LEMMA MintedFunnel ==
  ASSUME AckInv, ~raced, Minted, FunnelNow
  PROVE  Minted'
<1>1. /\ minted \in Nat /\ \A h \in Hosts : copy[h] \in Copies /\ copy[h].gen \in Nat /\ sync[h].gen \in Nat
      /\ sweep.fresh.gen \in Nat /\ \A s \in Shards : sweep.report[s] \in Int
  BY Typed, CopyFacts, QueueAssumption DEF Due, Unread
<1>2. ASSUME UNCHANGED <<copy, sync, sweep>>, minted' \in {minted, minted + 1}, MintedWrite'
      PROVE  Minted'
  BY <1>1, <1>2 DEF Minted, MintedWrite
<1>3. CASE EnqueueBegins
  BY <1>1, <1>2, <1>3 DEF EnqueueBegins, Begin, MintedWrite
<1>4. CASE ClaimBegins \/ ReleaseBegins \/ DecideBegins
  BY <1>1, <1>2, <1>4 DEF ClaimBegins, ReleaseBegins, DecideBegins, Begin, MintedWrite
<1>5. CASE DeleteBegins \/ WriteEnds
  <2>1. write'.call # "apply"
    <3>1. CASE DeleteBegins
      <4>1. write \in Write
        BY <3>1, Typed DEF DeleteBegins, NoWrite
      <4> QED BY <3>1, <4>1 DEF DeleteBegins, Write
    <3> QED BY <1>5, <3>1, IdleFacts DEF WriteEnds
  <2> QED BY <1>1, <1>2, <1>5, <2>1 DEF DeleteBegins, WriteEnds, MintedWrite
<1>6. ASSUME NEW s \in Shards, OtherEnqueue(s) PROVE Minted'
  BY <1>6 DEF OtherEnqueue, Minted
<1>7. ASSUME NEW s \in Shards, Calling(s) PROVE Minted'
  <2> DEFINE e == copy[Addr(s)]
  <2>1. /\ UNCHANGED <<sync, sweep, minted>> /\ write'.call = write.call /\ write'.gen = write.gen
        /\ Addr(s) \in Hosts /\ copy'[Addr(s)] \in {e, Done(e)}
        /\ \A h \in Hosts \ {Addr(s)} : copy'[h] = copy[h]
    BY <1>7, CallFacts
  <2>2. Done(e).gen <= minted
    <3>1. e.gen <= minted /\ e \in Copies /\ e.gen \in Nat
      BY <1>1, <2>1 DEF Minted
    <3>2. write.call = "apply" => Done(e) = ApplyNow(e, [gen |-> minted, status |-> "waiting"])
      BY <3>1, DoneFacts DEF Minted
    <3>3. write.call # "apply" => Done(e).gen \in {e.gen, 0}
      BY <3>1, DoneFacts
    <3> QED BY <1>1, <3>1, <3>2, <3>3 DEF ApplyNow
  <2>3. MintedStores'
    BY <2>1, <2>2 DEF Minted, MintedStores
  <2> QED BY <2>1, <2>3 DEF Minted, MintedStores
<1> QED BY <1>3, <1>4, <1>5, <1>6, <1>7 DEF FunnelNow, Calling

LEMMA MintedSweeper ==
  ASSUME AckInv, ~raced, Minted, SweeperNow
  PROVE  Minted'
<1>1. /\ minted \in Nat /\ \A h \in Hosts : copy[h] \in Copies /\ copy[h].gen \in Nat
      /\ copy \in [Hosts -> Copies] /\ sweep.report \in [Shards -> Unread..MaxGen]
      /\ sweep.fresh.gen \in Nat /\ sweep.fresh.gen <= minted
      /\ \A s \in Shards : sweep.report[s] \in Int /\ sweep.report[s] <= minted
      /\ \A h \in Hosts : copy[h].gen <= minted
  BY Typed, CopyFacts, QueueAssumption DEF Unread, Minted
<1>2. UNCHANGED <<sync, minted, write>>
  BY DEF SweeperNow, SweepBegins, SweepReads, ConvergesNow, SweepEndsNow, SweepUnchanged
<1>3. SUFFICES MintedStores' /\ MintedSweep'
  BY <1>2 DEF Minted, MintedStores, MintedSweep
<1>4. CASE SweepBegins
  <2>1. sweep'.fresh = copy[Addr(freshest)] /\ sweep'.report = NoSweep.report /\ UNCHANGED copy
        /\ Addr(freshest) \in Hosts
    BY <1>4, ShardTypes DEF SweepBegins, NoSweep
  <2> QED BY <1>1, <1>2, <2>1, IdleFacts DEF MintedStores, MintedSweep, Unread
<1>5. ASSUME NEW s \in Shards, SweepReads(s) PROVE MintedStores' /\ MintedSweep'
  <2>1. UNCHANGED copy /\ sweep'.fresh = sweep.fresh /\ Addr(s) \in Hosts
        /\ (sweep'.report = sweep.report \/ sweep'.report = [sweep.report EXCEPT ![s] = copy[Addr(s)].gen])
    BY <1>5, ReadFacts, ShardTypes, Calm
  <2> QED BY <1>1, <1>2, <2>1 DEF MintedStores, MintedSweep
<1>6. ASSUME NEW s \in Shards, ConvergesNow(s) PROVE MintedStores' /\ MintedSweep'
  <2>1. /\ sweep'.fresh = sweep.fresh /\ Addr(s) \in Hosts
        /\ \A h \in Hosts \ {Addr(s)} : copy'[h] = copy[h]
        /\ \A t \in Shards \ {s} : sweep'.report[t] = sweep.report[t]
        /\ copy'[Addr(s)] \in {copy[Addr(s)], ConvergedNow(s)}
        /\ sweep'.report[s] \in {sweep.report[s], ReportedNow(s)}
    BY <1>6, ConvergeFacts
  <2>2. ConvergedNow(s).gen <= minted
    BY <1>1, <2>1 DEF ConvergedNow, ApplyNow, DropItem, NoCopy
  <2>3. ReportedNow(s) <= minted
    BY <1>1, <2>1 DEF ReportedNow
  <2> QED BY <1>1, <1>2, <2>1, <2>2, <2>3 DEF MintedStores, MintedSweep
<1>7. CASE SweepEndsNow
  <2>1. sweep' = NoSweep /\ sweep \in Sweep /\ Addr(sweep.ref) \in Hosts
    BY <1>7, Typed, ShardTypes DEF SweepEndsNow
  <2>2. ASSUME NEW item \in ReferencePushes, NEW h \in Hosts,
               copy' \in {copy, [copy EXCEPT ![Addr(sweep.ref)] = ApplyNow(@, item)]}
        PROVE  copy'[h].gen <= minted
    <3>1. item.gen <= minted
      BY <1>1 DEF ReferencePushes
    <3>2. copy'[h] \in {copy[h], ApplyNow(copy[h], item)}
      BY <1>1, <2>1, <2>2
    <3> QED BY <1>1, <3>1, <3>2 DEF ApplyNow
  <2>3. MintedStores'
    <3>1. CASE sweep.fresh = NoCopy /\ ReferencePushes # {}
      BY <1>2, <1>7, <2>2, <3>1 DEF SweepEndsNow, MintedStores
    <3>2. CASE ~(sweep.fresh = NoCopy /\ ReferencePushes # {})
      BY <1>1, <1>2, <1>7, <3>2 DEF SweepEndsNow, MintedStores
    <3> QED BY <3>1, <3>2
  <2> QED BY <1>1, <1>2, <2>1, <2>3, IdleFacts DEF MintedSweep, NoCopy, Unread
<1> QED BY <1>4, <1>5, <1>6, <1>7 DEF SweeperNow

LEMMA MintedRegistry ==
  ASSUME AckInv, ~raced, Minted, NEW h \in Hosts, NEW s \in Shards,
         JoiningNow(h) \/ Leaving(s) \/ ServiceRestarts \/ ShardRestarts(h)
  PROVE  Minted'
<1>1. /\ minted \in Nat /\ \A g \in Hosts : copy[g] \in Copies /\ copy[g].gen \in Nat /\ sync[g].gen \in Nat
      /\ copy \in [Hosts -> Copies] /\ sync \in [Hosts -> Copies \cup {Due}] /\ NoCopy.gen = 0 /\ Due.gen = 0
      /\ \A g \in Hosts : copy[g].gen <= minted /\ sync[g].gen <= minted
      /\ MintedSweep /\ MintedWrite
  BY Typed, CopyFacts, MintedParts DEF Due, NoCopy, Minted
<1>2. CASE ServiceRestarts
  BY <1>1, <1>2, IdleFacts DEF ServiceRestarts, Minted, Unread
<1>3. CASE ~ServiceRestarts
  <2>1. UNCHANGED <<minted, write, sweep>>
    BY <1>3 DEF JoiningNow, Joins, Renews, SyncReads, SyncNow, Leaving, Lapses, Evicts, ShardRestarts, RegistryUnchanged
  <2>2. MintedStores'
    <3>1. \A g \in Hosts : copy'[g] \in {copy[g], ApplyNow(copy[g], sync[g]), NoCopy}
      BY <1>1, <1>3 DEF JoiningNow, Joins, Renews, SyncReads, SyncNow, Leaving, Lapses, Evicts, ShardRestarts
    <3> QED BY <1>1, <2>1, <3>1 DEF ApplyNow, MintedStores
  <2>3. MintedSyncs'
    <3>1. freshest \in Living => Addr(freshest) \in Hosts
      BY ShardTypes
    <3>2. \A g \in Hosts : \/ sync'[g] \in {sync[g], Due, NoCopy}
                           \/ \E k \in Hosts : sync'[g] = copy[k]
      BY <1>1, <1>3, <3>1 DEF JoiningNow, Joins, Renews, SyncReads, SyncNow, Leaving, Lapses, Evicts, ShardRestarts
    <3> QED BY <1>1, <2>1, <3>2 DEF MintedSyncs
  <2> QED BY <1>1, <2>1, <2>2, <2>3 DEF Minted, MintedStores, MintedSyncs, MintedSweep, MintedWrite
<1> QED BY <1>2, <1>3

LEMMA MintedNext ==
  ASSUME Enough, AckInv, Minted, NextNow, ~raced'
  PROVE  Minted'
<1>1. ~raced
  BY Calm
<1>2. \A h \in Hosts : Home(h) \in Shards
  BY HomeFacts
<1>3. \E h \in Hosts : TRUE
  BY <1>1, AnotherServes
<1>4. ASSUME NEW s \in Shards PROVE Addr(s) \in Hosts
  BY ShardTypes
<1>5. CASE FunnelNow
  BY <1>1, <1>5, MintedFunnel
<1>6. CASE SweeperNow
  BY <1>1, <1>6, MintedSweeper
<1>7. CASE Restarts
  BY <1>1, <1>2, <1>3, <1>7, MintedRegistry DEF Restarts
<1>8. CASE \E h \in Hosts : JoiningNow(h)
  BY <1>1, <1>2, <1>8, MintedRegistry
<1>9. CASE \E s \in Shards : Leaving(s)
  BY <1>1, <1>4, <1>9, MintedRegistry
<1> QED BY <1>5, <1>6, <1>7, <1>8, <1>9 DEF NextNow

-----------------------------------------------------------------------------
(* How many hosts there are, and how many shards a write is sent to. *)

LEMMA TwoHosts ==
  ASSUME Enough
  PROVE  /\ \E h, k \in Hosts : h # k
         /\ MaxFaults >= 1 => \A x : \E h, k \in Hosts \ {x} : h # k
<1>1. Cardinality(Hosts) \in Nat /\ MaxFaults \in Nat /\ MaxFaults + 2 <= Cardinality(Hosts)
  BY FS_CardinalityType, QueueAssumption DEF Enough
<1>2. ASSUME NEW S, IsFiniteSet(S), Cardinality(S) \in Nat, Cardinality(S) >= 2 PROVE \E h, k \in S : h # k
  <2>1. PICK h \in S : TRUE
    BY <1>2, FS_EmptySet
  <2>2. IsFiniteSet(S \ {h}) /\ Cardinality(S \ {h}) = Cardinality(S) - 1
    BY <1>2, FS_RemoveElement
  <2>3. PICK k \in S \ {h} : TRUE
    BY <1>2, <2>2, FS_EmptySet
  <2> QED BY <2>3
<1>3. \E h, k \in Hosts : h # k
  BY <1>1, <1>2 DEF Enough
<1>4. ASSUME MaxFaults >= 1, NEW x PROVE \E h, k \in Hosts \ {x} : h # k
  <2>1. IsFiniteSet(Hosts \ {x}) /\ Cardinality(Hosts \ {x}) \in Nat /\ Cardinality(Hosts \ {x}) >= Cardinality(Hosts) - 1
    BY <1>1, FS_RemoveElement DEF Enough
  <2> QED BY <1>1, <1>2, <1>4, <2>1
<1> QED BY <1>3, <1>4

LEMMA ShardsFinite == ASSUME Enough PROVE IsFiniteSet(Shards)
<1>1. IsFiniteSet(1..MaxBoots)
  BY FS_Interval, QueueAssumption
<1> QED BY <1>1, FS_Product DEF Shards, Enough

\* One vote is no quorum where two hosts are called.
LEMMA OneIsNoQuorum ==
  ASSUME Enough, AckInv, ~raced, NEW X \in SUBSET Hosts, NEW c \in Copies, Level(X, c),
         \E h, k \in Hosts \ X : h # k, write # NoWrite, write.yes <= 1
  PROVE  ~HasQuorum
<1>1. PICK h \in Hosts \ X, k \in Hosts \ X : h # k
  OBVIOUS
<1>2. {Home(h), Home(k)} \subseteq write.shards /\ Home(h) # Home(k)
  BY <1>1 DEF Level, Settled, Home
<1>3. IsFiniteSet(write.shards) /\ Cardinality(write.shards) \in Nat
  BY Typed, ShardsFinite, FS_Subset, FS_CardinalityType
<1>4. Cardinality({Home(h), Home(k)}) = 2 /\ IsFiniteSet({Home(h), Home(k)})
  <2>1. IsFiniteSet({Home(h)}) /\ Cardinality({Home(h)}) = 1
    BY FS_Singleton
  <2>2. {Home(h), Home(k)} = {Home(h)} \cup {Home(k)} /\ Home(k) \notin {Home(h)}
    BY <1>2
  <2>3. /\ IsFiniteSet({Home(h)} \cup {Home(k)})
        /\ Cardinality({Home(h)} \cup {Home(k)}) = Cardinality({Home(h)}) + 1
    BY <2>1, <2>2, FS_AddElement
  <2> QED BY <2>1, <2>2, <2>3
<1>5. Cardinality(write.shards) >= 2
  BY <1>2, <1>3, <1>4, FS_Subset
<1>6. Cardinality(write.shards) \div 2 >= 1
  BY <1>3, <1>5
<1> QED BY <1>3, <1>6, Typed DEF HasQuorum, Quorum

-----------------------------------------------------------------------------
(* A step without a fault leaves an odd host odd. *)

LEMMA Faultless == ASSUME AckInv, UNCHANGED faults PROVE ~Fault
BY QueueAssumption DEF AckInv, StoreInv, TypeOK, Fault

\* A generation that every host but x has is one of the minted ones.
LEMMA LevelMinted ==
  ASSUME AckInv, ~raced, Minted, NEW X \in SUBSET Hosts, NEW c \in Copies, Level(X, c), NEW h \in Hosts \ X,
         write = NoWrite, sweep = NoSweep
  PROVE  c.gen <= minted
<1>1. copy[h] = c
  BY DoneFacts, IdleFacts DEF Level, Follows, At, Spreads
<1> QED BY <1>1 DEF Minted

LEMMA GrantsFollow ==
  ASSUME AckInv, ~raced, NextNow
  PROVE  \/ grants' \in {grants, 0}
         \/ WriteEnds /\ write.call = "claim" /\ HasQuorum /\ grants' = grants + 1
BY DEF NextNow, FunnelNow, EnqueueBegins, ClaimBegins, ReleaseBegins, DecideBegins, DeleteBegins, WriteEnds, Begin,
       EnqueueNow, ClaimCalls, ReleaseCalls, EnsureCalls, DecideCalls, OtherEnqueue, FunnelUnchanged,
       SweeperNow, SweepBegins, SweepReads, ConvergesNow, SweepEndsNow, SweepUnchanged,
       JoiningNow, Joins, Renews, SyncReads, SyncNow, Leaving, Lapses, Evicts, RegistryUnchanged,
       Restarts, ServiceRestarts, ShardRestarts

\* A granted claim is the first since the copies were waiting.
LEMMA GrantIsFirst ==
  ASSUME Enough, AckInv, ~raced, NEW X \in SUBSET Hosts, NEW c \in Copies, Level(X, c),
         \E h, k \in Hosts \ X : h # k, write.call = "claim" /\ c.status # "waiting" => write.yes <= 1,
         grants <= 1, NextNow
  PROVE  /\ grants' <= 1
         /\ WriteEnds /\ write.call = "claim" /\ HasQuorum => c.status = "waiting"
<1>1. ASSUME WriteEnds, write.call = "claim", HasQuorum PROVE c.status = "waiting" /\ grants = 0
  <2>1. c.status = "waiting"
    BY <1>1, OneIsNoQuorum DEF WriteEnds
  <2> QED BY <2>1 DEF Level
<1> QED BY <1>1, GrantsFollow

LEMMA OddNext ==
  ASSUME Enough, AckInv, Minted, NextNow, ~raced', MaxFaults >= 1, NEW x \in Hosts, NEW c \in Copies,
         Level({x}, c), Odd(x, c), UNCHANGED faults, grants <= 1
  PROVE  grants' <= 1 /\ \E d \in Copies : Level({x}, d)' /\ Odd(x, d)'
<1>1. ~raced /\ {x} \in SUBSET Hosts /\ ~Fault
  BY Calm, Faultless
<1>2. PICK h \in Hosts \ {x}, k \in Hosts \ {x} : h # k
  BY TwoHosts
<1>3. grants' <= 1 /\ (WriteEnds /\ write.call = "claim" /\ HasQuorum => c.status = "waiting")
  BY <1>1, <1>2, GrantIsFirst DEF Odd
<1>4. SUFFICES \E d \in Copies : Level({x}, d)' /\ Odd(x, d)'
  BY <1>3
<1>5. CASE EnqueueBegins \/ ClaimBegins \/ ReleaseBegins \/ DecideBegins
  <2>1. write = NoWrite /\ sweep = NoSweep
    <3>1. write = NoWrite /\ write' # NoWrite /\ UNCHANGED sweep
      BY <1>5 DEF EnqueueBegins, ClaimBegins, ReleaseBegins, DecideBegins, Begin, NoWrite
    <3> QED BY <3>1, Calm
  <2>2. c.gen <= minted /\ copy[x].gen <= minted
    BY <1>1, <1>2, <2>1, LevelMinted DEF Minted
  <2> QED BY <1>1, <1>5, <2>2, LevelBegins, OddBegins
<1>6. CASE DeleteBegins \/ WriteEnds
  <2>1. PICK d : d = Done(c)
    OBVIOUS
  <2>2. d \in Copies
    BY <1>1, <2>1, DoneFacts
  <2>3. CASE DeleteBegins
    BY <1>1, <2>1, <2>2, <2>3, LevelDeletes, OddDeletes
  <2>4. CASE WriteEnds
    BY <1>1, <1>3, <2>1, <2>2, <2>4, LevelEnds, OddEnds
  <2> QED BY <1>6, <2>3, <2>4
<1>7. ASSUME NEW s \in Shards, Calling(s) PROVE \E d \in Copies : Level({x}, d)' /\ Odd(x, d)'
  BY <1>1, <1>7, LevelCalls, OddCalls
<1>8. ASSUME NEW s \in Shards, OtherEnqueue(s) PROVE \E d \in Copies : Level({x}, d)' /\ Odd(x, d)'
  BY <1>1, <1>8, LevelOther, OddOther
<1>9. CASE SweepBegins
  <2>1. write = NoWrite /\ sweep = NoSweep
    <3>1. sweep' # NoSweep /\ sweep = NoSweep /\ UNCHANGED write
      BY <1>9, ShardTypes DEF SweepBegins, SweepUnchanged, NoSweep, NoShard
    <3> QED BY <3>1, Calm
  <2>2. c # NoCopy => copy[x].gen <= c.gen
    BY <1>1, <2>1, TopFacts DEF Odd, Spreads
  <2> QED BY <1>1, <1>9, <2>2, LevelSweepBegins, OddSweepBegins
<1>10. ASSUME NEW s \in Shards, SweepReads(s) PROVE \E d \in Copies : Level({x}, d)' /\ Odd(x, d)'
  BY <1>1, <1>10, LevelReads, OddReads
<1>11. ASSUME NEW s \in Shards, ConvergesNow(s) PROVE \E d \in Copies : Level({x}, d)' /\ Odd(x, d)'
  BY <1>1, <1>2, <1>11, LevelConverges, OddConverges
<1>12. CASE SweepEndsNow
  <2>1. PICK d : d = IF Spreads(c) THEN sweep.fresh ELSE c
    OBVIOUS
  <2>2. d \in Copies
    BY <1>1, <2>1, Typed
  <2>3. /\ Odd(x, d)'
        /\ sweep.fresh = NoCopy /\ c = NoCopy => \A s \in Shards : Addr(s) \in {x} => sweep.report[s] <= 0
    BY <1>1, <1>12, <2>1, OddSweepEnds
  <2>4. Level({x}, d)'
    BY <1>1, <1>12, <2>1, <2>3, LevelSweepEnds
  <2> QED BY <2>2, <2>3, <2>4
<1>13. ASSUME NEW g \in Hosts, JoiningNow(g) PROVE \E d \in Copies : Level({x}, d)' /\ Odd(x, d)'
  <2>1. g = x
    BY <1>1, <1>13, SettledStays DEF Level
  <2> QED BY <1>1, <1>13, <2>1, LevelRegistry, OddRegistry
<1>14. ASSUME NEW s \in Shards, Leaving(s) PROVE \E d \in Copies : Level({x}, d)' /\ Odd(x, d)'
  <2>1. Addr(s) = x
    BY <1>1, <1>14, SettledStays, ShardTypes DEF Level
  <2> QED BY <1>1, <1>14, <2>1, LevelRegistry, OddRegistry
<1>15. ~Restarts
  BY <1>1 DEF Restarts, ServiceRestarts, ShardRestarts
<1> QED BY <1>5, <1>6, <1>7, <1>8, <1>9, <1>10, <1>11, <1>12, <1>13, <1>14, <1>15 DEF NextNow, FunnelNow, SweeperNow, Calling

-----------------------------------------------------------------------------
(* While there is no fault every host agrees. *)

LEMMA EvenNext ==
  ASSUME Enough, AckInv, Minted, NextNow, ~raced', NEW c \in Copies, Even(c), UNCHANGED faults, grants <= 1
  PROVE  grants' <= 1 /\ \E d \in Copies : Even(d)'
<1>1. ~raced /\ {} \in SUBSET Hosts /\ ~Fault /\ Level({}, c) /\ Hosts \ {} = Hosts
  BY Calm, Faultless DEF Even
<1>2. PICK h \in Hosts, k \in Hosts : h # k
  BY TwoHosts
<1>3. write.yes \in Nat /\ write \in Write \cup {NoWrite}
  BY <1>1, Typed
<1>4. grants' <= 1 /\ (WriteEnds /\ write.call = "claim" /\ HasQuorum => c.status = "waiting")
  BY <1>1, <1>2, GrantIsFirst DEF Even
<1>5. SUFFICES \E d \in Copies : Even(d)'
  BY <1>4
<1>6. ASSUME Level({}, c)', UNCHANGED write PROVE Even(c)'
  BY <1>6 DEF Even
<1>7. CASE EnqueueBegins \/ ClaimBegins \/ ReleaseBegins \/ DecideBegins
  <2>1. write = NoWrite /\ sweep = NoSweep /\ write'.yes = 0
    <3>1. write = NoWrite /\ write' # NoWrite /\ UNCHANGED sweep /\ write'.yes = 0
      BY <1>7 DEF EnqueueBegins, ClaimBegins, ReleaseBegins, DecideBegins, Begin, NoWrite
    <3> QED BY <3>1, Calm
  <2>2. c.gen <= minted
    BY <1>1, <1>2, <2>1, LevelMinted
  <2> QED BY <1>1, <1>7, <2>1, <2>2, LevelBegins DEF Even
<1>8. CASE DeleteBegins \/ WriteEnds
  <2>1. PICK d : d = Done(c)
    OBVIOUS
  <2>2. d \in Copies
    BY <1>1, <2>1, DoneFacts
  <2>3. write'.call # "claim"
    <3>1. DeleteBegins => write \in Write
      BY <1>3 DEF DeleteBegins, NoWrite
    <3> QED BY <1>8, <3>1, IdleFacts DEF DeleteBegins, WriteEnds, Write
  <2>4. Level({}, d)'
    BY <1>1, <1>4, <1>8, <2>1, LevelDeletes, LevelEnds
  <2> QED BY <2>2, <2>3, <2>4 DEF Even
<1>9. ASSUME NEW s \in Shards, Calling(s) PROVE \E d \in Copies : Even(d)'
  <2>1. Level({}, c)'
    BY <1>1, <1>9, LevelCalls
  <2>2. /\ write # NoWrite /\ write'.call = write.call /\ Addr(s) \in Hosts /\ s \in write.todo
    BY <1>1, <1>9, CallFacts
  <2>3. ASSUME write.call = "claim", c.status # "waiting" PROVE write'.yes = 0
    <3>1. write.yes = 0 /\ Settled(Addr(s)) /\ Follows(Addr(s), c) /\ ~Spreads(c)
      BY <1>1, <2>2, <2>3, EvenIsOdd DEF Even
    <3>2. s = Home(Addr(s))
      BY <2>2, <3>1 DEF Settled
    <3>3. copy[Addr(s)] = c
      BY <2>2, <3>1, <3>2 DEF Follows, At
    <3> QED BY <1>1, <1>9, <2>3, <3>1, <3>3, ClaimFacts
  <2> QED BY <2>1, <2>2, <2>3 DEF Even
<1>10. ASSUME NEW s \in Shards, OtherEnqueue(s) PROVE \E d \in Copies : Even(d)'
  BY <1>1, <1>6, <1>10, LevelOther DEF OtherEnqueue
<1>11. CASE SweepBegins
  BY <1>1, <1>6, <1>11, LevelSweepBegins DEF SweepBegins, SweepUnchanged
<1>12. ASSUME NEW s \in Shards, SweepReads(s) PROVE \E d \in Copies : Even(d)'
  BY <1>1, <1>6, <1>12, LevelReads DEF SweepReads, SweepUnchanged
<1>13. ASSUME NEW s \in Shards, ConvergesNow(s) PROVE \E d \in Copies : Even(d)'
  BY <1>1, <1>2, <1>6, <1>13, LevelConverges DEF ConvergesNow, SweepUnchanged
<1>14. CASE SweepEndsNow
  <2>1. ~Spreads(c)
    BY <1>1, <1>2, EvenIsOdd
  <2>2. Level({}, c)'
    BY <1>1, <1>14, <2>1, LevelSweepEnds
  <2> QED BY <1>6, <1>14, <2>2 DEF SweepEndsNow, SweepUnchanged
<1>15. ASSUME NEW g \in Hosts PROVE ~JoiningNow(g)
  BY <1>1, SettledStays DEF Level
<1>16. ASSUME NEW s \in Shards PROVE ~Leaving(s)
  BY <1>1, SettledStays, ShardTypes DEF Level
<1>17. ~Restarts
  BY <1>1 DEF Restarts, ServiceRestarts, ShardRestarts
<1> QED BY <1>7, <1>8, <1>9, <1>10, <1>11, <1>12, <1>13, <1>14, <1>15, <1>16, <1>17 DEF NextNow, FunnelNow, SweeperNow, Calling

\* The first fault, but for a restart of the service, makes one host odd.
LEMMA FirstFault ==
  ASSUME Enough, AckInv, NextNow, ~raced', NEW c \in Copies, Even(c), ~UNCHANGED faults, ~ServiceRestarts
  PROVE  \E x \in Hosts : Level({x}, c)' /\ Odd(x, c)'
<1>1. ~raced /\ faults \in Nat /\ \A x \in Hosts : {x} \in SUBSET Hosts /\ x \in {x}
  BY Calm, Typed, QueueAssumption
<1>2. \A x \in Hosts : Level({x}, c) /\ Odd(x, c) /\ Settled(x) /\ Follows(x, c) /\ ~Spreads(c) /\ boot[x] = 1
  BY <1>1, EvenIsOdd DEF Settled
<1>3. ASSUME NEW s \in Shards, Calling(s) PROVE Level({Addr(s)}, c)' /\ Odd(Addr(s), c)' /\ Addr(s) \in Hosts
  BY <1>1, <1>2, <1>3, ShardTypes, LevelCalls, OddCalls
<1>4. ASSUME NEW s \in Shards, SweepReads(s) PROVE Level({Addr(s)}, c)' /\ Odd(Addr(s), c)' /\ Addr(s) \in Hosts
  BY <1>1, <1>2, <1>4, ShardTypes, LevelReads, OddReads
<1>5. ASSUME NEW s \in Shards, ConvergesNow(s) PROVE FALSE
  <2>1. Pushes(s) \/ Drops(s)
    BY <1>1, <1>5, ConvergeFacts
  <2>2. /\ sweep # NoSweep /\ write = NoWrite /\ s \in sweep.unread \cup sweep.todo
        /\ sweep.report[s] \in 0..MaxGen /\ Addr(s) \in Hosts
    BY <1>1, <1>5, ConvergeFacts
  <2>3. sweep.fresh = c /\ Follows(Addr(s), c) /\ s = Home(Addr(s))
    BY <1>2, <2>2, LevelShard DEF Even, Level
  <2>4. copy[Addr(s)] = c
    BY <1>1, <1>2, <2>2, <2>3, DoneFacts, IdleFacts DEF Follows, At
  <2>5. sweep.report[s] = c.gen
    BY <2>2, <2>3, <2>4, QueueAssumption DEF Follows, Unread
  <2> QED BY <2>1, <2>3, <2>5, CopyFacts DEF Pushes, Drops
<1>6. CASE SweepEndsNow
  <2>1. sweep.fresh = NoCopy /\ c = NoCopy
    BY <1>6, IdleFacts DEF SweepEndsNow, Even, Level
  <2>2. UNCHANGED faults
    <3>1. PICK d : d = IF Spreads(c) THEN sweep.fresh ELSE c
      OBVIOUS
    <3> QED BY <1>1, <1>6, <2>1, <3>1, LevelSweepEnds DEF Even
  <2> QED BY <2>2
<1>7. ASSUME NEW s \in Shards, Leaving(s) PROVE Level({Addr(s)}, c)' /\ Odd(Addr(s), c)' /\ Addr(s) \in Hosts
  BY <1>1, <1>2, <1>7, ShardTypes, LevelRegistry, OddRegistry
<1>8. ASSUME NEW x \in Hosts, ShardRestarts(x) PROVE Level({x}, c)' /\ Odd(x, c)'
  BY <1>1, <1>2, <1>8, LevelRegistry, OddRestarts
<1>9. ASSUME NEW x \in Hosts PROVE ~JoiningNow(x)
  BY <1>1, <1>2, SettledStays
<1>10. ~(EnqueueBegins \/ ClaimBegins \/ ReleaseBegins \/ DecideBegins \/ DeleteBegins \/ WriteEnds \/ SweepBegins
         \/ \E s \in Shards : OtherEnqueue(s))
  BY DEF EnqueueBegins, ClaimBegins, ReleaseBegins, DecideBegins, Begin, DeleteBegins, WriteEnds, SweepBegins, OtherEnqueue
<1> QED BY <1>3, <1>4, <1>5, <1>6, <1>7, <1>8, <1>9, <1>10 DEF NextNow, FunnelNow, SweeperNow, Restarts, Calling

-----------------------------------------------------------------------------
(* The service restarts in the midst of a write: no host differs from the    *)
(* others by its registration, only the copies may.                          *)

LEMMA HostCounts ==
  ASSUME Enough, NEW S \in SUBSET Hosts, NEW T \in SUBSET S
  PROVE  /\ Cardinality(S) \in Nat /\ Cardinality(T) \in Nat /\ Cardinality(Hosts) \in Nat
         /\ Cardinality(T) <= Cardinality(S) /\ Cardinality(S) <= Cardinality(Hosts)
         /\ \A h \in S \ T : Cardinality(T) + 1 <= Cardinality(S)
<1>1. IsFiniteSet(Hosts) /\ IsFiniteSet(S) /\ IsFiniteSet(T)
  BY FS_Subset DEF Enough
<1>2. Cardinality(S) \in Nat /\ Cardinality(T) \in Nat /\ Cardinality(Hosts) \in Nat
  BY <1>1, FS_CardinalityType
<1>3. Cardinality(T) <= Cardinality(S) /\ Cardinality(S) <= Cardinality(Hosts)
  BY <1>1, FS_Subset
<1>4. ASSUME NEW h \in S \ T PROVE Cardinality(T) + 1 <= Cardinality(S)
  <2>1. IsFiniteSet(S \ {h}) /\ Cardinality(S \ {h}) = Cardinality(S) - 1
    BY <1>1, FS_RemoveElement
  <2>2. Cardinality(T) <= Cardinality(S \ {h})
    BY <2>1, FS_Subset
  <2> QED BY <1>2, <2>1, <2>2
<1> QED BY <1>2, <1>3, <1>4

LEMMA OpenSets == /\ Waiting \subseteq Unclaimed /\ Unclaimed \subseteq Hosts /\ Open \subseteq Hosts
                  /\ Unclaimed \subseteq Open /\ Waiting \subseteq Hosts
BY DEF Waiting, Unclaimed, Open

LEMMA TornRestarts ==
  ASSUME Enough, AckInv, ~raced, NEW c \in Copies, Even(c), ServiceRestarts
  PROVE  Torn'
<1>1. /\ UNCHANGED <<copy, boot, lease, grants>> /\ write' = NoWrite /\ sweep' = NoSweep
      /\ \A h \in Hosts : sync'[h] = NoCopy
      /\ copy \in [Hosts -> Copies]
  BY Typed DEF ServiceRestarts
<1>2. \A h \in Hosts : Settled(h) /\ copy[h] \in {c, Done(c)}
  BY EvenIsOdd DEF Follows, At
<1>3. TornHosts'
  <2>1. ASSUME NEW h \in Hosts PROVE Settled(h)'
    BY <1>1, <1>2, <2>1, IdleFacts DEF Settled
  <2> QED BY <1>1, <2>1, IdleFacts, HomeFacts DEF TornHosts
<1>4. SameGen' \/ AllThere'
  <2>1. CASE c = NoCopy
    BY <1>1, <1>2, <2>1 DEF SameGen
  <2>2. CASE c # NoCopy /\ Done(c) = NoCopy
    BY <1>1, <1>2, <2>2 DEF SameGen
  <2>3. CASE c # NoCopy /\ Done(c) # NoCopy
    BY <1>1, <1>2, <2>3 DEF AllThere
  <2> QED BY <2>1, <2>2, <2>3
<1>5. TornGrants'
  <2>1. ASSUME grants # 0 PROVE Unclaimed' = {}
    <3>1. c.status = "claimed" /\ (write = NoWrite \/ write.call \in {"claim", "ensure"})
      BY <2>1, Typed DEF Even, Level
    <3>2. Done(c) = c
      BY <3>1, DoneFacts DEF ClaimItem
    <3> QED BY <1>1, <1>2, <3>1, <3>2 DEF Unclaimed
  <2>2. Unclaimed' = {} => Cardinality(Unclaimed') = 0
    BY FS_EmptySet
  <2>3. Cardinality(Hosts) \in Nat /\ Cardinality(Hosts) >= 2
    BY HostCounts, QueueAssumption DEF Enough
  <2>4. write'.call = "none"
    BY <1>1, IdleFacts
  <2> QED BY <1>1, <2>1, <2>2, <2>3, <2>4 DEF TornGrants
<1> QED BY <1>1, <1>3, <1>4, <1>5, IdleFacts DEF Torn, TornFresh, TornCopies, TornWrite

-----------------------------------------------------------------------------
(* What a service that restarted leaves, the writes and the sweeps keep.     *)

LEMMA TornBegins ==
  ASSUME Enough, AckInv, NextNow, ~raced', Torn, EnqueueBegins \/ ClaimBegins \/ ReleaseBegins \/ DecideBegins
  PROVE  Torn'
<1>1. ~raced /\ write = NoWrite
  BY Calm DEF EnqueueBegins, ClaimBegins, ReleaseBegins, DecideBegins, Begin
<1>2. PICK call, gen :
        /\ call \in Calls /\ Begin(call, gen)
        /\ call \in {"apply", "release"} => grants' = 0
        /\ call \in {"claim", "ensure"} => grants' = grants
        /\ call # "delete"
  BY <1>1 DEF EnqueueBegins, ClaimBegins, ReleaseBegins, DecideBegins, Calls
<1>3. /\ UNCHANGED <<copy, boot, lease, sweep, sync>>
      /\ write' # NoWrite /\ write'.call = call /\ write'.shards = Living /\ write'.todo = Living /\ write'.yes = 0
  BY <1>2 DEF Begin, NoWrite, Calls
<1>4. sweep = NoSweep
  BY <1>3, Calm
<1>5. ASSUME NEW h \in Hosts
      PROVE  Settled(h)' /\ Home(h) \in Living
  <2>1. Settled(h) /\ Home(h) \in Shards /\ Addr(Home(h)) = h
    BY HomeFacts DEF Torn, TornHosts
  <2>2. Home(h) \in Living /\ \A s \in Shards \ {Home(h)} : Addr(s) = h => s \notin Living
    BY <2>1 DEF Settled, Living
  <2> QED BY <1>3, <2>1, <2>2 DEF Settled
<1>6. TornHosts' /\ TornFresh'
  BY <1>3, <1>4, <1>5, IdleFacts, HomeFacts DEF Torn, TornHosts, TornFresh
<1>7. SameGen' = SameGen /\ AllThere' = AllThere /\ Unclaimed' = Unclaimed /\ Waiting' = Waiting
  BY <1>3 DEF SameGen, AllThere, Unclaimed, Waiting
<1>8. TornCopies'
  BY <1>1, <1>7, IdleFacts DEF Torn, TornCopies
<1>9. TornWrite'
  <2>1. Open' \subseteq Hosts
    BY DEF Open
  <2>2. Cardinality(Open') <= Cardinality(Hosts) /\ Cardinality(Open') \in Nat
    BY <2>1, HostCounts
  <2> QED BY <1>2, <1>3, <1>5, <2>2 DEF TornWrite
<1>10. TornGrants'
  <2>1. Cardinality(Waiting) <= Cardinality(Unclaimed) /\ Cardinality(Waiting) \in Nat
        /\ Cardinality(Unclaimed) \in Nat /\ Cardinality(Hosts) \in Nat
    BY HostCounts, OpenSets
  <2>2. SUFFICES ASSUME grants' # 0 PROVE TornGrants'
    BY DEF TornGrants
  <2>3. grants # 0 /\ call \in {"claim", "ensure"}
    BY <1>2, <2>2 DEF Calls
  <2> QED BY <1>3, <1>7, <2>1, <2>3 DEF Torn, TornGrants
<1> QED BY <1>6, <1>8, <1>9, <1>10 DEF Torn

LEMMA TornCalls ==
  ASSUME Enough, AckInv, ~raced, Minted, Torn, NEW s \in Shards, Calling(s), UNCHANGED faults
  PROVE  Torn'
<1> DEFINE h == Addr(s)
<1>1. /\ write \in Write /\ write # NoWrite /\ s \in write.todo /\ h \in Hosts /\ sweep = NoSweep
      /\ UNCHANGED <<boot, lease, sync, sweep, grants>>
      /\ write'.call = write.call /\ write'.shards = write.shards /\ write'.todo = write.todo \ {s}
      /\ write'.gen = write.gen /\ write'.yes \in Nat
      /\ \A k \in Hosts \ {h} : copy'[k] = copy[k]
      /\ copy'[h] = Done(copy[h]) /\ copy \in [Hosts -> Copies] /\ copy[h] \in Copies
  BY CallFacts, Typed
<1>2. s = Home(h) /\ \A k \in Hosts : Settled(k) /\ Home(k) \in Shards /\ Addr(Home(k)) = k /\ (k # h => Home(k) # s)
  BY <1>1, HomeFacts DEF Torn, TornHosts, Settled
<1>3. TornHosts' /\ TornFresh'
  <2>1. ASSUME NEW k \in Hosts PROVE Settled(k)'
    BY <1>1, <1>2, <2>1 DEF Settled
  <2> QED BY <1>1, <1>2, <2>1, IdleFacts DEF TornHosts, TornFresh
<1>4. ASSUME write.call \in {"claim", "ensure", "release"}
      PROVE  SameGen' = SameGen /\ AllThere' = AllThere
  <2>1. Done(copy[h]) \in Copies /\ Done(copy[h]).gen = copy[h].gen
    BY <1>1, <1>4, DoneFacts
  <2>2. \A k \in Hosts : copy[k] \in Copies /\ copy'[k] \in Copies /\ copy'[k].gen = copy[k].gen
    BY <1>1, <2>1
  <2>3. \A k \in Hosts : copy'[k] = NoCopy <=> copy[k] = NoCopy
    BY <2>2, CopyFacts
  <2> QED BY <2>2, <2>3 DEF SameGen, AllThere
<1>5. TornCopies'
  BY <1>1, <1>4, IdleFacts, Typed DEF Torn, TornCopies
<1>6. ASSUME write.call \in {"claim", "ensure"}
      PROVE  /\ copy'[h].status # "waiting" /\ (copy[h].status = "claimed" => copy'[h].status = "claimed")
             /\ Unclaimed' \subseteq Unclaimed /\ Waiting' \subseteq Waiting \ {h} /\ Open' \subseteq Open /\ h \in Open
             /\ copy[h].status = "waiting" => h \in Waiting /\ h \notin Open'
  <2>1. copy'[h] = ClaimItem(copy[h])
    BY <1>1, <1>6, DoneFacts
  <2>2. copy[h].status = "waiting" => copy'[h].status = "claimed"
    BY <1>1, <2>1 DEF ClaimItem, Copies, Copy, NoCopy
  <2>3. copy[h].status # "waiting" => copy'[h] = copy[h]
    BY <2>1 DEF ClaimItem
  <2>4. Home(h) \in write.todo /\ Home(h) \notin write'.todo
    BY <1>1, <1>2
  <2> QED BY <1>1, <1>2, <2>2, <2>3, <2>4 DEF Unclaimed, Waiting, Open
<1>7. /\ {Unclaimed, Unclaimed', Waiting, Waiting', Open, Open'} \subseteq SUBSET Hosts
      /\ write.yes \in Nat
  BY Typed DEF Unclaimed, Waiting, Open
<1>8. ASSUME write.call = "claim"
      PROVE  /\ write'.yes + Cardinality(Open') <= write.yes + Cardinality(Open)
             /\ write'.yes + Cardinality(Waiting') <= write.yes + Cardinality(Waiting)
  <2>1. /\ Cardinality(Open') <= Cardinality(Open) /\ Cardinality(Waiting') <= Cardinality(Waiting)
        /\ {Cardinality(Open), Cardinality(Open'), Cardinality(Waiting), Cardinality(Waiting')} \subseteq Nat
    BY <1>6, <1>7, <1>8, HostCounts
  <2>2. CASE write'.yes = write.yes
    BY <1>7, <2>1, <2>2
  <2>3. CASE write'.yes = write.yes + 1 /\ copy[h].status = "waiting"
    <3>1. Cardinality(Open') + 1 <= Cardinality(Open)
      BY <1>6, <1>7, <1>8, <2>3, HostCounts
    <3>2. Cardinality(Waiting') + 1 <= Cardinality(Waiting)
      BY <1>6, <1>7, <1>8, <2>3, HostCounts
    <3> QED BY <1>7, <2>1, <2>3, <3>1, <3>2
  <2> QED BY <1>8, <2>2, <2>3, ClaimFacts
<1>9. TornWrite'
  <2>1. ASSUME write.call = "apply" PROVE copy'[h].gen = write.gen
    <3>1. copy[h].gen \in Nat /\ write.gen \in Nat /\ copy[h].gen <= write.gen
      BY <1>1, <2>1, CopyFacts, Typed DEF Minted
    <3> QED BY <1>1, <2>1, <3>1, DoneFacts DEF ApplyNow
  <2>2. ASSUME write.call = "delete" PROVE copy'[h] = NoCopy /\ Waiting' = {}
    <3>1. Waiting = {} /\ copy[h].status # "waiting"
      BY <1>1, <2>2 DEF Torn, TornWrite, Waiting
    <3>2. copy'[h] = NoCopy
      BY <1>1, <2>2, <3>1, DoneFacts, CopyFacts DEF DecideItem
    <3> QED BY <1>1, <3>1, <3>2 DEF Waiting, NoCopy
  <2>3. ASSUME write.call = "claim" PROVE write'.yes + Cardinality(Open') <= Cardinality(Hosts)
    <3>1. {Cardinality(Open), Cardinality(Open'), Cardinality(Hosts)} \subseteq Nat
      BY <1>7, HostCounts
    <3> QED BY <1>1, <1>7, <1>8, <2>3, <3>1 DEF Torn, TornWrite
  <2>4. ASSUME NEW k \in Hosts \ {h}, Home(k) \notin write'.todo
        PROVE  copy'[k] = copy[k] /\ Home(k) \notin write.todo
    BY <1>1, <1>2, <2>4
  <2> QED BY <1>1, <1>6, <2>1, <2>2, <2>3, <2>4 DEF Torn, TornWrite
<1>10. TornGrants'
  <2>1. SUFFICES ASSUME grants' # 0 PROVE TornGrants'
    BY DEF TornGrants
  <2>2. grants # 0 /\ write.call \in {"claim", "ensure"}
    BY <1>1, <2>1, Typed DEF Torn, TornGrants
  <2>3. SameGen' \/ Unclaimed' = {}
    BY <1>4, <1>6, <2>2 DEF Torn, TornGrants
  <2>4. Cardinality(Unclaimed') <= Cardinality(Unclaimed)
        /\ {Cardinality(Unclaimed), Cardinality(Unclaimed'), Cardinality(Waiting), Cardinality(Waiting'),
            Cardinality(Hosts)} \subseteq Nat
    BY <1>6, <1>7, <2>2, HostCounts
  <2> QED BY <1>1, <1>7, <1>8, <2>2, <2>3, <2>4 DEF Torn, TornGrants
<1> QED BY <1>3, <1>5, <1>9, <1>10 DEF Torn

LEMMA TornDeletes == ASSUME AckInv, ~raced, Torn, DeleteBegins PROVE Torn'
<1>1. /\ write \in Write /\ write # NoWrite /\ sweep = NoSweep /\ write.call = "ensure" /\ write.todo = {}
      /\ UNCHANGED <<copy, boot, lease, sweep, sync>> /\ grants' = 0
      /\ write'.call = "delete" /\ write'.shards = write.shards /\ write'.todo = write.shards
  BY Typed DEF DeleteBegins, NoWrite, Write
<1>2. ASSUME NEW h \in Hosts PROVE Settled(h)' /\ Home(h) \in write.shards
  BY <1>1 DEF Torn, TornHosts, Settled
<1>3. Waiting' = {}
  BY <1>1 DEF Torn, TornWrite, Waiting
<1> QED BY <1>1, <1>2, <1>3, IdleFacts, HomeFacts DEF Torn, TornHosts, TornFresh, TornCopies, TornWrite, TornGrants

\* A majority of a write's shards is more than half of the hosts.
LEMMA TornQuorum ==
  ASSUME Enough, AckInv, ~raced, Torn, write # NoWrite, HasQuorum
  PROVE  2 * write.yes > Cardinality(Hosts)
<1> DEFINE f == [h \in Hosts |-> Home(h)]
<1>1. f \in Injection(Hosts, write.shards)
  BY DEF Injection, IsInjective, Home, Torn, TornHosts, Settled
<1>2. IsFiniteSet(write.shards)
  BY Typed, ShardsFinite, FS_Subset
<1>3. Cardinality(Hosts) <= Cardinality(write.shards)
  BY <1>1, <1>2, FS_Injection
<1>4. Cardinality(Hosts) \in Nat /\ Cardinality(write.shards) \in Nat /\ write.yes \in Nat
  BY <1>2, Typed, FS_CardinalityType DEF Enough
<1> QED BY <1>3, <1>4 DEF HasQuorum, Quorum

LEMMA TornEnds ==
  ASSUME Enough, AckInv, ~raced, Torn, WriteEnds, grants <= 1
  PROVE  Torn' /\ grants' <= 1
<1>1. /\ write \in Write /\ write # NoWrite /\ sweep = NoSweep /\ write.todo = {}
      /\ UNCHANGED <<copy, boot, lease, sweep, sync>> /\ write' = NoWrite
      /\ grants' = IF write.call = "claim" /\ HasQuorum THEN grants + 1 ELSE grants
      /\ write.call \in Calls
  BY Typed DEF WriteEnds
<1>2. /\ {Cardinality(Unclaimed), Cardinality(Waiting), Cardinality(Open), Cardinality(Hosts), write.yes} \subseteq Nat
      /\ Open = Unclaimed
      /\ SameGen' = SameGen /\ AllThere' = AllThere /\ Unclaimed' = Unclaimed
  <2>1. Open = Unclaimed
    BY <1>1 DEF Open, Unclaimed
  <2>2. SameGen' = SameGen /\ AllThere' = AllThere /\ Unclaimed' = Unclaimed
    BY <1>1 DEF SameGen, AllThere, Unclaimed
  <2> QED BY <2>1, <2>2, OpenSets, HostCounts, Typed
<1>3. TornHosts' /\ TornFresh' /\ TornWrite'
  <2>1. ASSUME NEW h \in Hosts PROVE Settled(h)'
    BY <1>1, IdleFacts DEF Torn, TornHosts, Settled
  <2> QED BY <1>1, <2>1, IdleFacts, HomeFacts DEF TornHosts, TornFresh, TornWrite
<1>4. TornCopies'
  <2>1. write.call \in {"apply", "delete"} => SameGen
    BY <1>1 DEF Torn, TornWrite, SameGen
  <2> QED BY <1>1, <1>2, <2>1 DEF Torn, TornCopies, Calls
<1>5. CASE write.call = "claim" /\ HasQuorum
  <2>1. 2 * write.yes > Cardinality(Hosts)
    BY <1>1, <1>5, TornQuorum
  <2>2. grants = 0
    BY <1>2, <1>5, <2>1 DEF Torn, TornGrants
  <2>3. 2 * Cardinality(Unclaimed) < Cardinality(Hosts)
    BY <1>2, <1>5, <2>1 DEF Torn, TornWrite
  <2>4. SameGen \/ Unclaimed = {}
    <3>1. ASSUME AllThere, NEW h \in Hosts PROVE copy[h].status = "claimed"
      <4>1. copy[h].status # "waiting" /\ copy[h] # NoCopy /\ copy[h] \in Copies
        BY <1>1, <1>5, <3>1, Typed DEF AllThere, Torn, TornWrite
      <4> QED BY <4>1, CopyFacts
    <3> QED BY <1>5, <3>1 DEF Torn, TornCopies, Unclaimed
  <2> QED BY <1>1, <1>2, <1>3, <1>4, <1>5, <2>2, <2>3, <2>4, IdleFacts DEF Torn, TornGrants
<1>6. CASE ~(write.call = "claim" /\ HasQuorum)
  <2>1. TornGrants'
    BY <1>1, <1>2, <1>6, IdleFacts DEF Torn, TornGrants
  <2> QED BY <1>1, <1>3, <1>4, <1>6, <2>1 DEF Torn
<1> QED BY <1>5, <1>6

LEMMA TornOther == ASSUME Torn, NEW s \in Shards, OtherEnqueue(s) PROVE Torn'
<1>1. UNCHANGED <<copy, boot, lease, write, sweep, sync, grants>>
  BY DEF OtherEnqueue
<1>2. \A h \in Hosts : Settled(h)' <=> Settled(h)
  BY <1>1 DEF Settled
<1>3. SameGen' = SameGen /\ AllThere' = AllThere /\ Unclaimed' = Unclaimed /\ Waiting' = Waiting /\ Open' = Open
  BY <1>1 DEF SameGen, AllThere, Unclaimed, Waiting, Open
<1> QED BY <1>1, <1>2, <1>3 DEF Torn, TornHosts, TornFresh, TornCopies, TornWrite, TornGrants

LEMMA TornSweepBegins ==
  ASSUME AckInv, NextNow, ~raced', Torn, SweepBegins
  PROVE  Torn'
<1>1. /\ ~raced /\ write = NoWrite /\ sweep = NoSweep /\ freshest \in Living /\ freshest \in Shards
      /\ UNCHANGED <<copy, boot, lease, write, sync, grants>>
      /\ sweep' = [NoSweep EXCEPT !.ref = freshest, !.unread = Living \ {freshest}, !.fresh = copy[Addr(freshest)]]
  <2>1. sweep' # NoSweep
    BY ShardTypes DEF SweepBegins, NoSweep, NoShard
  <2> QED BY <2>1, Calm, ShardTypes DEF SweepBegins, SweepUnchanged
<1>2. /\ sweep'.ref = freshest /\ sweep'.unread = Living \ {freshest} /\ sweep'.todo = {}
      /\ sweep'.fresh = copy[Addr(freshest)] /\ sweep'.report = NoSweep.report
  BY <1>1 DEF NoSweep
<1>3. ASSUME NEW h \in Hosts
      PROVE  /\ Settled(h)' /\ Home(h) \in Shards
             /\ Addr(freshest) # h => Home(h) \in sweep'.unread
  <2>1. Settled(h) /\ Home(h) \in Shards /\ Addr(Home(h)) = h
    BY HomeFacts DEF Torn, TornHosts
  <2>2. Home(h) \in Living /\ \A s \in Living : Addr(s) = h => s = Home(h)
    BY <2>1 DEF Settled, Living
  <2> QED BY <1>1, <1>2, <2>1, <2>2, IdleFacts DEF Settled
<1>4. TornHosts' /\ TornFresh'
  BY <1>1, <1>2, <1>3, IdleFacts DEF TornHosts, TornFresh
<1>5. SameGen' = SameGen /\ AllThere' = AllThere /\ Unclaimed' = Unclaimed /\ Waiting' = Waiting /\ Open' = Open
  BY <1>1 DEF SameGen, AllThere, Unclaimed, Waiting, Open
<1> QED BY <1>1, <1>4, <1>5 DEF Torn, TornCopies, TornWrite, TornGrants

LEMMA TornReads ==
  ASSUME AckInv, ~raced, Torn, NEW s \in Shards, SweepReads(s), UNCHANGED faults
  PROVE  Torn'
<1>1. /\ sweep # NoSweep /\ write = NoWrite /\ s \in sweep.unread /\ sweep' # NoSweep
      /\ UNCHANGED <<copy, boot, lease, write, sync, grants>>
      /\ sweep'.ref = sweep.ref /\ sweep'.fresh = sweep.fresh /\ sweep'.unread = sweep.unread \ {s}
      /\ sweep'.todo = sweep.todo \cup {s}
      /\ sweep'.report[s] = copy[Addr(s)].gen /\ copy[Addr(s)].gen \in Nat
      /\ \A t \in Shards \ {s} : sweep'.report[t] = sweep.report[t]
  <2>1. faults \in Nat /\ sweep.report \in [Shards -> Unread..MaxGen] /\ copy[Addr(s)].gen \in Nat
    BY Typed, CopyFacts, ShardTypes, QueueAssumption
  <2>2. ~Fault
    BY <2>1 DEF Fault
  <2> QED BY <2>1, <2>2, ReadFacts
<1>2. ASSUME NEW h \in Hosts
      PROVE  /\ Settled(h)' /\ sweep'.report[Home(h)] \in {Unread, copy[h].gen}
             /\ Addr(sweep.ref) # h => Home(h) \in sweep'.unread \/ sweep'.report[Home(h)] # Unread
  <2>1. Settled(h) /\ Home(h) \in Shards /\ Addr(Home(h)) = h
    BY HomeFacts DEF Torn, TornHosts
  <2>2. s # Home(h) => Addr(s) # h
    BY <1>1, <2>1 DEF Settled
  <2>3. Settled(h)'
    BY <1>1, <2>1, <2>2 DEF Settled
  <2> QED BY <1>1, <2>1, <2>3 DEF Torn, TornHosts, Unread
<1>3. TornHosts' /\ TornFresh'
  BY <1>1, <1>2 DEF Torn, TornHosts, TornFresh
<1>4. SameGen' = SameGen /\ AllThere' = AllThere /\ Unclaimed' = Unclaimed /\ Waiting' = Waiting /\ Open' = Open
  BY <1>1 DEF SameGen, AllThere, Unclaimed, Waiting, Open
<1> QED BY <1>1, <1>3, <1>4 DEF Torn, TornCopies, TornWrite, TornGrants

\* Where more than half of three hosts are claimed, one of them is not h.
LEMMA ClaimedElsewhere ==
  ASSUME Enough, MaxFaults >= 1, 2 * Cardinality(Unclaimed) < Cardinality(Hosts), NEW h \in Hosts
  PROVE  \E k \in Hosts \ {h} : copy[k].status = "claimed"
<1>1. SUFFICES ASSUME Hosts \ {h} \subseteq Unclaimed PROVE FALSE
  BY DEF Unclaimed
<1>2. Cardinality(Hosts) \in Nat /\ Cardinality(Hosts) >= 3
  BY QueueAssumption, FS_CardinalityType DEF Enough
<1>3. Cardinality(Hosts \ {h}) = Cardinality(Hosts) - 1
  BY FS_RemoveElement DEF Enough
<1>4. Cardinality(Hosts \ {h}) <= Cardinality(Unclaimed) /\ Cardinality(Unclaimed) \in Nat
  BY <1>1, OpenSets, HostCounts
<1> QED BY <1>2, <1>3, <1>4

LEMMA TornConverges ==
  ASSUME Enough, AckInv, ~raced, Torn, MaxFaults >= 1, NEW s \in Shards, ConvergesNow(s), UNCHANGED faults
  PROVE  Torn'
<1> DEFINE h == Addr(s)
<1>1. /\ sweep # NoSweep /\ sweep \in Sweep /\ write = NoWrite /\ sweep.unread = {} /\ s \in sweep.todo
      /\ sweep' # NoSweep /\ sweep.report[s] \in 0..MaxGen /\ h \in Hosts
      /\ UNCHANGED <<boot, lease, write, sync, grants>>
      /\ sweep'.ref = sweep.ref /\ sweep'.fresh = sweep.fresh /\ sweep'.unread = sweep.unread
      /\ sweep'.todo = sweep.todo \ {s}
      /\ \A k \in Hosts \ {h} : copy'[k] = copy[k]
      /\ \A t \in Shards \ {s} : sweep'.report[t] = sweep.report[t]
      /\ copy'[h] = ConvergedNow(s) /\ sweep'.report[s] = ReportedNow(s)
      /\ copy \in [Hosts -> Copies] /\ copy[h] \in Copies /\ sweep.fresh \in Copies /\ Addr(sweep.ref) \in Hosts
  BY ConvergeFacts, Typed, ShardTypes, QueueAssumption DEF Fault
<1>2. s = Home(h) /\ \A k \in Hosts : Settled(k) /\ Home(k) \in Shards /\ Addr(Home(k)) = k /\ (k # h => Home(k) # s)
  BY <1>1, HomeFacts DEF Torn, TornHosts, Settled
<1>3. sweep.report[s] = copy[h].gen /\ sweep.fresh = copy[Addr(sweep.ref)]
  BY <1>1, <1>2 DEF Torn, TornHosts, TornFresh, Unread
<1>4. \/ copy'[h] = copy[h]
      \/ Pushes(s) /\ copy'[h] = sweep.fresh
      \/ Drops(s) /\ copy'[h] = NoCopy
  <2>1. copy[h].gen \in Nat /\ sweep.fresh.gen \in Nat
    BY <1>1, CopyFacts
  <2> QED BY <1>1, <1>3, <2>1 DEF ConvergedNow, Pushes, Drops, ApplyNow, DropItem
<1>5. sweep'.report[s] = copy'[h].gen
  <2>1. copy[h].gen \in Nat /\ sweep.fresh.gen \in Nat
    BY <1>1, CopyFacts
  <2> QED BY <1>1, <1>3, <2>1 DEF ConvergedNow, ReportedNow, Pushes, Drops, ApplyNow, DropItem, NoCopy
<1>6. Addr(sweep.ref) = h => copy'[h] = copy[h]
  BY <1>1, <1>3, CopyFacts DEF Pushes, Drops, ConvergedNow
<1>7. Pushes(s) => sweep.fresh # NoCopy /\ sweep.fresh.gen # copy[h].gen
  BY <1>1, <1>3, CopyFacts DEF Pushes
<1>8. (SameGen => SameGen') /\ (AllThere => AllThere')
  <2>1. AllThere => AllThere'
    BY <1>1, <1>3, <1>4, <1>7 DEF AllThere, Drops
  <2>2. CASE copy'[h] = copy[h] \/ copy'[h] = NoCopy
    BY <1>1, <2>1, <2>2 DEF SameGen
  <2>3. CASE Pushes(s) /\ copy'[h] = sweep.fresh
    BY <1>1, <1>3, <1>7, <2>1, <2>3 DEF SameGen
  <2> QED BY <1>4, <2>1, <2>2, <2>3
<1>9. TornHosts' /\ TornFresh'
  <2>1. ASSUME NEW k \in Hosts
        PROVE  /\ Settled(k)' /\ sweep'.report[Home(k)] \in {Unread, copy'[k].gen}
               /\ Addr(sweep.ref) # k => sweep'.report[Home(k)] # Unread
    <3>1. Settled(k)'
      BY <1>1, <1>2 DEF Settled
    <3>2. CASE k = h
      <4>1. copy'[h] \in Copies
        BY <1>1, <1>4 DEF Copies
      <4> QED BY <1>2, <1>5, <3>1, <3>2, <4>1, CopyFacts DEF Unread
    <3>3. CASE k # h
      BY <1>1, <1>2, <3>1, <3>3 DEF Torn, TornHosts
    <3> QED BY <3>2, <3>3
  <2> QED BY <1>1, <1>3, <1>6, <2>1 DEF TornHosts, TornFresh
<1>10. TornGrants'
  <2>1. SUFFICES ASSUME grants # 0
                 PROVE  (SameGen' \/ Unclaimed' = {}) /\ Unclaimed' \subseteq Unclaimed
    <3>1. /\ {Cardinality(Unclaimed), Cardinality(Hosts)} \subseteq Nat
          /\ Unclaimed' \subseteq Unclaimed => Cardinality(Unclaimed') \in Nat /\ Cardinality(Unclaimed') <= Cardinality(Unclaimed)
      BY OpenSets, HostCounts
    <3>2. write'.call = "none"
      BY <1>1, IdleFacts
    <3> QED BY <1>1, <2>1, <3>1, <3>2 DEF Torn, TornGrants
  <2>2. SameGen \/ Unclaimed = {}
    BY <2>1 DEF Torn, TornGrants
  <2>3. CASE copy'[h] = copy[h]
    BY <1>1, <1>8, <2>2, <2>3 DEF Unclaimed
  <2>4. CASE Pushes(s) /\ copy'[h] = sweep.fresh
    <3>1. CASE SameGen
      <4>1. copy[h] = NoCopy
        BY <1>1, <1>3, <1>7, <2>4, <3>1 DEF SameGen
      <4> QED BY <1>1, <1>8, <3>1, <4>1 DEF Unclaimed, NoCopy
    <3>2. CASE Unclaimed = {}
      BY <1>1, <1>3, <2>4, <3>2 DEF Unclaimed
    <3> QED BY <2>2, <3>1, <3>2
  <2>5. ~Drops(s)
    <3>1. PICK k \in Hosts \ {h} : copy[k].status = "claimed"
      BY <1>1, <2>1, ClaimedElsewhere DEF Torn, TornGrants
    <3>2. copy[k].gen \in Nat /\ copy[k].gen > 0 /\ copy[k] # NoCopy
      BY <1>1, <3>1, CopyFacts
    <3>3. sweep.fresh = NoCopy => sweep.report[Home(k)] = copy[k].gen
      BY <1>1, <1>3, <3>2 DEF Torn, TornHosts
    <3> QED BY <1>2, <3>2, <3>3 DEF Drops, Corroborated
  <2> QED BY <1>4, <2>3, <2>4, <2>5
<1> QED BY <1>1, <1>8, <1>9, <1>10, IdleFacts DEF Torn, TornCopies, TornWrite

LEMMA TornSweepEnds ==
  ASSUME Enough, AckInv, ~raced, Torn, SweepEndsNow, UNCHANGED faults
  PROVE  Torn'
<1> DEFINE r == Addr(sweep.ref)
<1>1. /\ sweep # NoSweep /\ write = NoWrite /\ sweep' = NoSweep /\ r \in Hosts
      /\ UNCHANGED <<boot, lease, write, sync, grants>>
      /\ copy \in [Hosts -> Copies] /\ sweep.report \in [Shards -> Unread..MaxGen] /\ ~Fault
  BY Typed, IdleFacts, ShardTypes, QueueAssumption DEF SweepEndsNow, SweepUnchanged, Fault
<1>2. ASSUME NEW h \in Hosts PROVE Settled(h)'
  BY <1>1, IdleFacts DEF Torn, TornHosts, Settled
<1>3. TornHosts' /\ TornFresh' /\ TornWrite'
  BY <1>1, <1>2, IdleFacts, HomeFacts DEF TornHosts, TornFresh, TornWrite
<1>4. CASE UNCHANGED copy
  <2>1. SameGen' = SameGen /\ AllThere' = AllThere /\ Unclaimed' = Unclaimed /\ Waiting' = Waiting
    BY <1>4 DEF SameGen, AllThere, Unclaimed, Waiting
  <2> QED BY <1>1, <1>3, <2>1 DEF Torn, TornCopies, TornGrants
<1>5. CASE ~UNCHANGED copy
  <2>1. PICK t \in Shards :
          /\ sweep.fresh = NoCopy /\ sweep.report[t] > 0
          /\ copy' = [copy EXCEPT ![r] = ApplyNow(@, [gen |-> sweep.report[t], status |-> "waiting"])]
    BY <1>1, <1>5 DEF SweepEndsNow, ReferencePushes
  <2>2. copy[r] = NoCopy
    BY <1>1, <2>1 DEF Torn, TornFresh
  <2>3. sweep.report[t] = copy[Addr(t)].gen /\ Addr(t) \in Hosts /\ copy[Addr(t)] # NoCopy
    <3>1. Addr(t) \in Hosts /\ Settled(Addr(t)) /\ sweep.report[Home(Addr(t))] \in {Unread, copy[Addr(t)].gen}
      BY ShardTypes DEF Torn, TornHosts
    <3> QED BY <2>1, <3>1 DEF Settled, Unread, NoCopy
  <2>4. copy'[r].gen = copy[Addr(t)].gen /\ copy'[r].status = "waiting" /\ \A k \in Hosts \ {r} : copy'[k] = copy[k]
    <3>1. copy[r].gen = 0 /\ sweep.report[t] \in Int
      BY <1>1, <2>2, QueueAssumption DEF NoCopy, Unread
    <3>2. copy'[r] = [gen |-> sweep.report[t], status |-> "waiting"]
      BY <1>1, <2>1, <3>1 DEF ApplyNow
    <3> QED BY <1>1, <2>1, <2>3, <3>2
  <2>5. ~AllThere /\ Unclaimed # {}
    BY <1>1, <2>2 DEF AllThere, Unclaimed, NoCopy
  <2>6. SameGen'
    BY <1>1, <2>3, <2>4, <2>5, IdleFacts DEF Torn, TornCopies, SameGen
  <2>7. Unclaimed' = Unclaimed
    BY <1>1, <2>2, <2>4 DEF Unclaimed, NoCopy
  <2> QED BY <1>1, <1>3, <2>6, <2>7, IdleFacts DEF Torn, TornCopies, TornGrants
<1> QED BY <1>4, <1>5

LEMMA TornNext ==
  ASSUME Enough, AckInv, Minted, NextNow, ~raced', MaxFaults >= 1, Torn, UNCHANGED faults, grants <= 1
  PROVE  Torn' /\ grants' <= 1
<1>1. ~raced /\ ~Fault
  BY Calm, Faultless
<1>2. grants' <= 1
  BY <1>1, GrantsFollow, TornEnds
<1>3. SUFFICES Torn'
  BY <1>2
<1>4. CASE EnqueueBegins \/ ClaimBegins \/ ReleaseBegins \/ DecideBegins \/ DeleteBegins \/ WriteEnds
  BY <1>1, <1>4, TornBegins, TornDeletes, TornEnds
<1>5. ASSUME NEW s \in Shards, Calling(s) \/ OtherEnqueue(s) PROVE Torn'
  BY <1>1, <1>5, TornCalls, TornOther
<1>6. CASE SweepBegins \/ SweepEndsNow
  BY <1>1, <1>6, TornSweepBegins, TornSweepEnds
<1>7. ASSUME NEW s \in Shards, SweepReads(s) \/ ConvergesNow(s) PROVE Torn'
  BY <1>1, <1>7, TornReads, TornConverges
<1>8. ASSUME NEW h \in Hosts PROVE ~JoiningNow(h)
  BY <1>1, SettledStays DEF Torn, TornHosts
<1>9. ASSUME NEW s \in Shards PROVE ~Leaving(s)
  BY <1>1, SettledStays, ShardTypes DEF Torn, TornHosts
<1>10. ~Restarts
  BY <1>1 DEF Restarts, ServiceRestarts, ShardRestarts
<1> QED BY <1>4, <1>5, <1>6, <1>7, <1>8, <1>9, <1>10 DEF NextNow, FunnelNow, SweeperNow, Calling

-----------------------------------------------------------------------------
(* The claim stays exclusive. *)

\* A step meets one fault at most.
LEMMA OneFault == ASSUME AckInv, NextNow PROVE UNCHANGED faults \/ Fault
BY DEF NextNow, FunnelNow, EnqueueBegins, ClaimBegins, ReleaseBegins, DecideBegins, DeleteBegins, WriteEnds, Begin,
       EnqueueNow, ClaimCalls, ReleaseCalls, EnsureCalls, DecideCalls, OtherEnqueue, Answered, Lost,
       SweeperNow, SweepBegins, SweepReads, ConvergesNow, SweepEndsNow,
       JoiningNow, Joins, Renews, SyncReads, SyncNow, Leaving, Lapses, Evicts,
       Restarts, ServiceRestarts, ShardRestarts

LEMMA GrantInvInit == ASSUME Init PROVE GrantInv
<1>1. /\ \A h \in Hosts : copy[h] = NoCopy /\ boot[h] = 1 /\ sync[h] = NoCopy
      /\ \A s \in Shards : lease[s] = IF s[2] = 1 THEN "living" ELSE "absent"
      /\ write = NoWrite /\ sweep = NoSweep /\ faults = 0 /\ grants = 0 /\ minted = 0
  BY DEF Init
<1>2. Minted
  BY <1>1, IdleFacts DEF Minted, NoCopy, Unread
<1>3. ASSUME NEW h \in Hosts PROVE Settled(h) /\ Follows(h, NoCopy)
  <2>1. \A s \in Shards : Addr(s) = h => (s[2] = 1 <=> s = Home(h))
    BY DEF Home, Addr, Shards
  <2>2. Settled(h)
    BY <1>1, <2>1, IdleFacts DEF Settled
  <2>3. Done(NoCopy) = NoCopy /\ ~Spreads(NoCopy)
    BY <1>1, IdleFacts DEF Done, Spreads
  <2> QED BY <1>1, <2>2, <2>3, IdleFacts, HomeFacts DEF Follows, At
<1>4. Even(NoCopy) /\ NoCopy \in Copies
  BY <1>1, <1>3, IdleFacts DEF Even, Level, Copies
<1> QED BY <1>1, <1>2, <1>4 DEF GrantInv

LEMMA GrantInvNext == ASSUME Enough, MaxFaults <= 1, AckInv, GrantInv, [Next]_vars PROVE GrantInv'
<1>1. CASE Still
  <2>1. UNCHANGED <<copy, boot, lease, write, sweep, sync, minted, grants, faults>> /\ (~raced' => ~raced)
    BY <1>1 DEF Still
  <2>2. /\ \A h \in Hosts : Settled(h)' = Settled(h)
        /\ \A c, h : Follows(h, c)' = Follows(h, c)
        /\ Minted' = Minted
    BY <2>1 DEF Settled, Follows, At, Spreads, Passed, Done, Minted
  <2>3. \A X, c : Level(X, c)' = Level(X, c)
    BY <2>1, <2>2 DEF Level
  <2>4. \A x, c : Odd(x, c)' = Odd(x, c)
    BY <2>1 DEF Odd, Trails, Top, Spreads, Quiet, OneMouth
  <2>5. SameGen' = SameGen /\ AllThere' = AllThere /\ Unclaimed' = Unclaimed /\ Waiting' = Waiting /\ Open' = Open
    BY <2>1 DEF SameGen, AllThere, Unclaimed, Waiting, Open
  <2>6. Torn' = Torn
    BY <2>1, <2>2, <2>5 DEF Torn, TornHosts, TornFresh, TornCopies, TornWrite, TornGrants
  <2>7. \A c : Even(c)' = Even(c)
    BY <2>1, <2>3 DEF Even
  <2> QED BY <2>1, <2>2, <2>3, <2>4, <2>6, <2>7 DEF GrantInv
<1>2. CASE NextNow
  <2>1. SUFFICES ASSUME ~raced' PROVE GrantInv'
    BY DEF GrantInv
  <2>2. ~raced /\ Minted /\ grants <= 1 /\ Minted' /\ faults \in Nat /\ MaxFaults \in Nat /\ grants \in Nat
    BY <1>2, <2>1, Calm, Typed, MintedNext, QueueAssumption DEF GrantInv
  <2>3. CASE faults = 0
    <3>1. PICK c \in Copies : Even(c)
      BY <2>2, <2>3 DEF GrantInv
    <3>2. CASE UNCHANGED faults
      BY <1>2, <2>1, <2>2, <2>3, <3>1, <3>2, EvenNext DEF GrantInv
    <3>3. CASE ~UNCHANGED faults
      <4>1. faults' = 1
        BY <1>2, <2>3, <3>3, OneFault DEF Fault
      <4>2. grants' <= 1
        <5>1. ~WriteEnds
          BY <3>3 DEF WriteEnds
        <5> QED BY <1>2, <2>2, <5>1, GrantsFollow
      <4>3. CASE ServiceRestarts
        BY <2>2, <3>1, <4>1, <4>2, <4>3, TornRestarts DEF GrantInv
      <4>4. CASE ~ServiceRestarts
        BY <1>2, <2>1, <2>2, <3>1, <3>3, <4>1, <4>2, <4>4, FirstFault DEF GrantInv
      <4> QED BY <4>3, <4>4
    <3> QED BY <3>2, <3>3
  <2>4. CASE faults # 0
    <3>1. faults = 1 /\ MaxFaults >= 1 /\ UNCHANGED faults
      <4>1. faults = 1
        BY <2>2, <2>4 DEF GrantInv
      <4>2. faults <= MaxFaults
        BY <2>2, Typed
      <4>3. ~Fault
        BY <2>2, <4>1, <4>2 DEF Fault
      <4> QED BY <1>2, <2>2, <4>1, <4>2, <4>3, OneFault
    <3>2. CASE Torn
      BY <1>2, <2>1, <2>2, <3>1, <3>2, TornNext DEF GrantInv
    <3>3. CASE ~Torn
      <4>1. \E c \in Copies, x \in Hosts : Level({x}, c) /\ Odd(x, c)
        BY <2>2, <2>4, <3>3, Zenon DEF GrantInv
      <4>2. PICK c \in Copies, x \in Hosts : Level({x}, c) /\ Odd(x, c)
        BY <4>1
      <4>3. grants' <= 1 /\ \E d \in Copies : Level({x}, d)' /\ Odd(x, d)'
        BY <1>2, <2>1, <2>2, <3>1, <4>2, OddNext
      <4> QED BY <2>2, <3>1, <4>3 DEF GrantInv
    <3> QED BY <3>2, <3>3
  <2> QED BY <2>3, <2>4
<1>3. CASE UNCHANGED vars
  BY <1>1, <1>3 DEF vars, Still
<1>4. CASE Next
  <2>1. SUFFICES ASSUME ~raced' PROVE GrantInv'
    BY DEF GrantInv
  <2>2. ~raced
    BY <1>4, <2>1, NextWatches DEF Watch
  <2> QED BY <1>1, <1>2, <1>4, <2>2, NextIsNow DEF AckInv
<1> QED BY <1>3, <1>4

\* claimBroadcast grants an item to one claimer, on any number of hosts: as long
\* as the sweeper and the playbacks kept clear of the writes, no store's row
\* changed between an apply call's comparison and its write, and at most one
\* fault happened, wherever it hit - a lost call, a lapsed lease, a store or the
\* service restarted in the midst of a write.
THEOREM ClaimStaysExclusiveApart == ASSUME Enough, MaxFaults <= 1 PROVE Spec => []ClaimIsExclusiveApart
<1>1. Init => AckInv /\ GrantInv
  BY AckInvInit, GrantInvInit
<1>2. AckInv /\ GrantInv /\ [Next]_vars => (AckInv /\ GrantInv)'
  BY AckInvNext, GrantInvNext
<1>3. AckInv /\ GrantInv => ClaimIsExclusiveApart
  BY DEF GrantInv, AckInv, StoreInv, TypeOK, ClaimIsExclusiveApart, ClaimIsExclusive
<1> QED BY <1>1, <1>2, <1>3, PTL DEF Spec

=============================================================================
