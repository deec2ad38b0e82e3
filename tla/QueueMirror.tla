---------------------------- MODULE QueueMirror ----------------------------
(***************************************************************************)
(* One item of a mirrored HITL queue.  The queue-service keeps no items:   *)
(* it fans every write out to the stores of the living shards and acks it  *)
(* when a majority confirmed, a sweeper makes the stores agree with the    *)
(* shard that confirmed last, and a shard that joins is played back what   *)
(* that shard holds.  A store is the memory of a sidecar; a sidecar takes  *)
(* a new shard identity at every boot and may keep its address, so that a  *)
(* lease of its former identity still reaches it.                          *)
(*                                                                         *)
(* The writes of one item are serialised (lockItem); other items matter    *)
(* only because their enqueues move the queue's freshest shard.            *)
(***************************************************************************)
EXTENDS Integers, FiniteSets

CONSTANTS
  Hosts,       \* addresses of sidecars that serve a shard of the queue
  MaxBoots,    \* boots of a sidecar
  MaxGen,      \* enqueues of the item
  MaxWrites,   \* writes of the item and enqueues of other items
  MaxEarly,    \* calls at a time that compared and have yet to write
  MaxFaults    \* lost calls, lapsed leases of running shards and restarts

ASSUME QueueAssumption ==
  /\ MaxBoots \in Nat \ {0}
  /\ {MaxGen, MaxWrites, MaxEarly, MaxFaults} \subseteq Nat

VARIABLES
  copy,       \* what the store behind each address holds of the item
  boot,       \* the boot each sidecar is in
  lease,      \* the shard entries of the Queue resource
  freshest,   \* the shard recorded as the queue's freshest mirror
  write,      \* the write that holds the item's lock
  sweep,      \* the pass of the sweeper
  sync,       \* the playback to each sidecar that (re)joined
  early,      \* calls of ApplyItem that compared with a row and have yet to write
  minted,     \* generations minted
  writes,     \* writes begun
  acked,      \* generation acknowledged to an enqueuer and not yet decided
  grants,     \* claims granted since the item was last parked or released
  raced,      \* a sweep or a playback overlapped a write, or an apply call was overtaken
  faults

vars == <<copy, boot, lease, freshest, write, sweep, sync, early, minted, writes, acked, grants, raced, faults>>

Shards == Hosts \X (1..MaxBoots)
NoShard == <<>>
Addr(s) == s[1]
Current(h) == <<h, boot[h]>>
Living == {s \in Shards : lease[s] = "living"}
\* Mutant of Quorum: half of the shards.
QuorumHalf(n) == n \div 2
Quorum(n) == (n \div 2) + 1

Copy == [gen : 1..MaxGen, status : {"waiting", "claimed"}]
NoCopy == [gen |-> 0, status |-> "absent"]

\* A playback is none, due, or the copy it is about to apply.
Due == [gen |-> 0, status |-> "due"]

Calls == {"apply", "claim", "release", "ensure", "delete"}
Write == [call : Calls, shards : SUBSET Shards, todo : SUBSET Shards,
          yes : Nat, missing : Nat, gen : 0..MaxGen]
NoWrite == [call |-> "none", shards |-> {}, todo |-> {}, yes |-> 0, missing |-> 0, gen |-> 0]

\* A report is a generation, 0 where the shard has no copy; a shard that did
\* not answer has none.
Unread == -1
Sweep == [ref : Shards, unread : SUBSET Shards, todo : SUBSET Shards,
          fresh : Copy \cup {NoCopy}, report : [Shards -> Unread..MaxGen]]
NoSweep == [ref |-> NoShard, unread |-> {}, todo |-> {}, fresh |-> NoCopy,
            report |-> [s \in Shards |-> Unread]]

\* Who calls ApplyItem: a write one shard after the other, so does a pass of the
\* sweeper, and a playback its own sidecar.
Writers == {"write", "sweep", "sync"}
ApplyCall == [by : Writers, shard : Shards, row : Copy \cup {NoCopy}]

Init ==
  /\ copy = [h \in Hosts |-> NoCopy]
  /\ boot = [h \in Hosts |-> 1]
  /\ lease = [s \in Shards |-> IF s[2] = 1 THEN "living" ELSE "absent"]
  /\ freshest = NoShard
  /\ write = NoWrite
  /\ sweep = NoSweep
  /\ sync = [h \in Hosts |-> NoCopy]
  /\ early = {}
  /\ minted = 0 /\ writes = 0 /\ acked = 0 /\ grants = 0 /\ raced = FALSE /\ faults = 0

-----------------------------------------------------------------------------
(* The store of a shard.                                                   *)

\* Mutant of ApplyItem: the generation is not compared.
ApplyAnyItem(c, row, item) == IF row = NoCopy <=> c = NoCopy THEN item ELSE c

\* ApplyItem selects the row, compares the generations and writes in statements
\* of their own, so that the write meets the row c where the comparison was with
\* row: the INSERT after no row fails on a row that came since, the UPDATE finds
\* no row that is gone, and else overwrites whatever is there.
ApplyItem(c, row, item) == IF (row = NoCopy <=> c = NoCopy) /\ item.gen >= row.gen THEN item ELSE c
Applied(c, row) == row = NoCopy => c = NoCopy
ClaimItem(c) == IF c.status = "waiting" THEN [c EXCEPT !.status = "claimed"] ELSE c
ReleaseItem(c) == IF c.status = "claimed" THEN [c EXCEPT !.status = "waiting"] ELSE c
DecideItem(c) == IF c.status = "claimed" THEN NoCopy ELSE c
DropItem(c, gen) == IF c.gen = gen THEN NoCopy ELSE c

-----------------------------------------------------------------------------
(* The write funnel.                                                       *)

\* The per-item lock keeps writes apart, not a sweep or a playback from a write.
Overlap == write # NoWrite /\ (sweep # NoSweep \/ \E h \in Hosts : sync[h] # NoCopy)
\* The row changed between a call's comparison and its write.
Overtaken == \E e \in early : e.row # copy[Addr(e.shard)]
Watch == raced' = (raced \/ Overlap' \/ Overtaken')

Fault == faults < MaxFaults /\ faults' = faults + 1

Begin(call, gen) ==
  /\ write = NoWrite /\ writes < MaxWrites /\ Living # {}
  /\ writes' = writes + 1
  /\ write' = [call |-> call, shards |-> Living, todo |-> Living,
               yes |-> 0, missing |-> 0, gen |-> gen]
  /\ UNCHANGED <<copy, boot, lease, freshest, sweep, sync, early, faults>>
  /\ Watch

\* The calls of w to s that compared early, the rows that a call of w to s that
\* writes now may have compared with, and the end of that call.
Begun(w, s) == {e \in early : e.by = w /\ e.shard = s}
Rows(w, s) == IF Begun(w, s) = {} THEN {copy[Addr(s)]} ELSE {e.row : e \in Begun(w, s)}
CallEnds(w, s) == early' = early \ Begun(w, s)
Turn(w, s) == \A e \in early : e.by = w => e.shard = s

\* The store behind s executes the call and its answer arrives.
Answered(s, after, confirms) ==
  /\ copy' = [copy EXCEPT ![Addr(s)] = after]
  /\ write' = [write EXCEPT !.todo = @ \ {s},
                            !.yes = @ + IF confirms THEN 1 ELSE 0,
                            !.missing = @ + IF copy[Addr(s)] = NoCopy THEN 1 ELSE 0]
  /\ UNCHANGED faults

\* The call fails before or after the store executed it: it is not retried.
Lost(s, after) ==
  /\ Fault
  /\ copy' \in {copy, [copy EXCEPT ![Addr(s)] = after]}
  /\ write' = [write EXCEPT !.todo = @ \ {s}]

FunnelUnchanged == UNCHANGED <<boot, lease, sweep, sync, minted, writes, acked, grants>> /\ Watch

EnqueueBegins ==
  /\ minted < MaxGen
  /\ Begin("apply", minted + 1)
  /\ minted' = minted + 1
  /\ grants' = 0
  /\ UNCHANGED acked

\* enqueueBroadcast: every confirmer becomes the freshest mirror, quorum or not.
EnqueueCalls(s) ==
  /\ write.call = "apply" /\ s \in write.todo /\ Turn("write", s)
  /\ \E row \in Rows("write", s) :
     LET after == ApplyItem(copy[Addr(s)], row, [gen |-> write.gen, status |-> "waiting"])
         confirms == Applied(copy[Addr(s)], row)
     IN \/ Answered(s, after, confirms) /\ freshest' = IF confirms THEN s ELSE freshest
        \/ Lost(s, after) /\ UNCHANGED freshest
  /\ CallEnds("write", s)
  /\ FunnelUnchanged

ClaimBegins == Begin("claim", 0) /\ UNCHANGED <<minted, acked, grants>>

ClaimCalls(s) ==
  /\ write.call = "claim" /\ s \in write.todo
  /\ LET c == copy[Addr(s)]
     IN Answered(s, ClaimItem(c), c.status = "waiting") \/ Lost(s, ClaimItem(c))
  /\ UNCHANGED <<freshest, early>>
  /\ FunnelUnchanged

ReleaseBegins == Begin("release", 0) /\ grants' = 0 /\ UNCHANGED <<minted, acked>>

\* releaseBroadcast: a copy that is already waiting confirms.
ReleaseCalls(s) ==
  /\ write.call = "release" /\ s \in write.todo
  /\ LET c == copy[Addr(s)]
     IN Answered(s, ReleaseItem(c), c # NoCopy) \/ Lost(s, ReleaseItem(c))
  /\ UNCHANGED <<freshest, early>>
  /\ FunnelUnchanged

\* decideBroadcast: Decide and CancelQueuedItem first claim the item on every
\* shard, whoever holds it, and then delete it on every shard.
DecideBegins == Begin("ensure", 0) /\ UNCHANGED <<minted, acked, grants>>

EnsureCalls(s) ==
  /\ write.call = "ensure" /\ s \in write.todo
  /\ LET c == copy[Addr(s)]
     IN Answered(s, ClaimItem(c), c # NoCopy) \/ Lost(s, ClaimItem(c))
  /\ UNCHANGED <<freshest, early>>
  /\ FunnelUnchanged

AbsentEverywhere == write.yes = 0 /\ write.missing = Cardinality(write.shards)

DeleteBegins ==
  /\ write.call = "ensure" /\ write.todo = {} /\ ~AbsentEverywhere
  /\ write' = [write EXCEPT !.call = "delete", !.todo = write.shards, !.yes = 0, !.missing = 0]
  /\ acked' = 0 /\ grants' = 0
  /\ UNCHANGED <<copy, boot, lease, freshest, sweep, sync, early, minted, writes, faults>>
  /\ Watch

DecideCalls(s) ==
  /\ write.call = "delete" /\ s \in write.todo
  /\ LET c == copy[Addr(s)]
     IN Answered(s, DecideItem(c), c.status = "claimed") \/ Lost(s, DecideItem(c))
  /\ UNCHANGED <<freshest, early>>
  /\ FunnelUnchanged

HasQuorum == write.yes >= Quorum(Cardinality(write.shards))

\* The caller gets its answer; what the shards already did stays done.
WriteEnds ==
  /\ write # NoWrite /\ write.todo = {}
  /\ write.call = "ensure" => AbsentEverywhere
  /\ write' = NoWrite
  /\ acked' = IF write.call = "apply" /\ HasQuorum THEN write.gen ELSE acked
  /\ grants' = IF write.call = "claim" /\ HasQuorum THEN grants + 1 ELSE grants
  /\ UNCHANGED <<copy, boot, lease, freshest, sweep, sync, early, minted, writes, faults>>
  /\ Watch

\* An enqueue of another item of the queue, confirmed last by s.
OtherEnqueue(s) ==
  /\ s \in Living /\ s # freshest /\ writes < MaxWrites
  /\ freshest' = s
  /\ writes' = writes + 1
  /\ UNCHANGED <<copy, boot, lease, write, sweep, sync, early, minted, acked, grants, faults>>
  /\ Watch

-----------------------------------------------------------------------------
(* The sweeper.                                                            *)

SweepUnchanged == UNCHANGED <<boot, lease, freshest, write, sync, minted, writes, acked, grants>> /\ Watch

\* The shards are fetched and the freshest one is read in full.
SweepBegins ==
  /\ sweep = NoSweep /\ freshest \in Living
  /\ sweep' = [NoSweep EXCEPT !.ref = freshest, !.unread = Living \ {freshest},
                              !.fresh = copy[Addr(freshest)]]
  /\ UNCHANGED <<copy, early, faults>>
  /\ SweepUnchanged

\* Every other shard reports the generation it holds; one that does not answer
\* is left out of the pass.
SweepReads(s) ==
  /\ s \in sweep.unread
  /\ \/ /\ sweep' = [sweep EXCEPT !.unread = @ \ {s}, !.todo = @ \cup {s},
                                  !.report[s] = copy[Addr(s)].gen]
        /\ UNCHANGED faults
     \/ /\ sweep' = [sweep EXCEPT !.unread = @ \ {s}]
        /\ Fault
  /\ UNCHANGED <<copy, early>>
  /\ SweepUnchanged

\* planConvergence: what to push to a shard and what to drop from it.
\* Mutant of Pushes: a shard that lacks the item is left alone.
PushesToHolders(s) == sweep.report[s] > 0 /\ sweep.fresh.gen > sweep.report[s]
Pushes(s) == sweep.fresh.gen > sweep.report[s]
Corroborated(s) == \E t \in Shards \ {s} : sweep.report[t] > 0
\* Mutant of Drops: what the freshest mirror lacks is dropped.
DropsUncorroborated(s) == sweep.fresh = NoCopy /\ sweep.report[s] > 0
Drops(s) == sweep.fresh = NoCopy /\ sweep.report[s] > 0 /\ ~Corroborated(s)

\* What the sweeper's calls to s leave in its store.
Converged(s, row) ==
  LET c == copy[Addr(s)]
  IN IF Pushes(s) THEN ApplyItem(c, row, sweep.fresh)
     ELSE IF Drops(s) THEN DropItem(c, sweep.report[s]) ELSE c

\* The report follows an answered push, and a drop that found its generation.
Reported(s, row) ==
  IF Pushes(s) /\ Applied(copy[Addr(s)], row) THEN sweep.fresh.gen
  ELSE IF Drops(s) /\ copy[Addr(s)].gen = sweep.report[s] THEN 0 ELSE sweep.report[s]

SweepConverges(s) ==
  /\ sweep.unread = {} /\ s \in sweep.todo /\ Turn("sweep", s)
  /\ \E row \in Rows("sweep", s) :
       LET after == [copy EXCEPT ![Addr(s)] = Converged(s, row)]
       IN \/ /\ copy' = after
             /\ sweep' = [sweep EXCEPT !.todo = @ \ {s}, !.report[s] = Reported(s, row)]
             /\ UNCHANGED faults
          \/ /\ Pushes(s) \/ Drops(s)
             /\ Fault
             /\ copy' \in {copy, after}
             /\ sweep' = [sweep EXCEPT !.todo = @ \ {s}]
  /\ CallEnds("sweep", s)
  /\ SweepUnchanged

\* planPushToReference: an item the reference lacks is pushed to it with a
\* generation some shard reported and nothing else, so that it is waiting.
ReferencePushes ==
  {[gen |-> sweep.report[s], status |-> "waiting"] : s \in {t \in Shards : sweep.report[t] > 0}}

RepairsReference == sweep.fresh = NoCopy /\ ReferencePushes # {}

SweepEnds ==
  /\ sweep # NoSweep /\ sweep.unread = {} /\ sweep.todo = {}
  /\ sweep' = NoSweep
  /\ IF RepairsReference
     THEN \E item \in ReferencePushes, row \in Rows("sweep", sweep.ref) :
            LET after == [copy EXCEPT ![Addr(sweep.ref)] = ApplyItem(@, row, item)]
            IN \/ copy' = after /\ UNCHANGED faults
               \/ copy' \in {copy, after} /\ Fault
     ELSE UNCHANGED <<copy, faults>>
  /\ CallEnds("sweep", sweep.ref)
  /\ SweepUnchanged

-----------------------------------------------------------------------------
(* The registry of shards.                                                 *)

RegistryUnchanged == UNCHANGED <<write, sweep, minted, writes, acked, grants>> /\ Watch

\* RegisterQueue, or the heartbeat of a shard the registry does not list.
Joins(h) ==
  /\ lease[Current(h)] = "absent"
  /\ lease' = [lease EXCEPT ![Current(h)] = "living"]
  /\ sync' = [sync EXCEPT ![h] = Due]
  /\ UNCHANGED <<copy, boot, freshest, early, faults>>
  /\ RegistryUnchanged

\* HeartbeatQueue: a lapsed entry that is still listed needs no playback.
Renews(h) ==
  /\ lease[Current(h)] = "stale"
  /\ lease' = [lease EXCEPT ![Current(h)] = "living"]
  /\ UNCHANGED <<copy, boot, freshest, sync, early, faults>>
  /\ RegistryUnchanged

\* The lease runs out: heartbeats were missed, or the identity is a past boot's.
Lapses(s) ==
  /\ lease[s] = "living"
  /\ lease' = [lease EXCEPT ![s] = "stale"]
  /\ IF s = Current(Addr(s)) THEN Fault ELSE UNCHANGED faults
  /\ UNCHANGED <<copy, boot, freshest, sync, early>>
  /\ RegistryUnchanged

Evicts(s) ==
  /\ lease[s] = "stale"
  /\ lease' = [lease EXCEPT ![s] = "absent"]
  /\ UNCHANGED <<copy, boot, freshest, sync, early, faults>>
  /\ RegistryUnchanged

\* syncOnRegistration reads the freshest mirror, unless it is the shard itself.
SyncReads(h) ==
  /\ sync[h] = Due
  /\ LET played == IF freshest \in Living /\ Addr(freshest) # h
                   THEN copy[Addr(freshest)] ELSE NoCopy
     IN \/ sync' = [sync EXCEPT ![h] = played] /\ UNCHANGED faults
        \/ /\ played # NoCopy
           /\ sync' = [sync EXCEPT ![h] = NoCopy]
           /\ Fault
  /\ UNCHANGED <<copy, boot, lease, freshest, early>>
  /\ RegistryUnchanged

SyncApplies(h) ==
  /\ sync[h] \notin {NoCopy, Due}
  /\ \/ /\ \E row \in Rows("sync", Current(h)) : copy' = [copy EXCEPT ![h] = ApplyItem(@, row, sync[h])]
        /\ UNCHANGED faults
     \/ UNCHANGED copy /\ Fault
  /\ sync' = [sync EXCEPT ![h] = NoCopy]
  /\ CallEnds("sync", Current(h))
  /\ UNCHANGED <<boot, lease, freshest>>
  /\ RegistryUnchanged

-----------------------------------------------------------------------------
(* The store's half of a call that applies the item.                       *)

Applying(w, s) ==
  \/ w = "write" /\ write.call = "apply" /\ s \in write.todo
  \/ w = "sweep" /\ sweep.unread = {} /\ s \in sweep.todo /\ Pushes(s)
  \/ w = "sweep" /\ s = sweep.ref /\ sweep.unread \cup sweep.todo = {} /\ RepairsReference
  \/ w = "sync" /\ s = Current(Addr(s)) /\ sync[Addr(s)] \notin {NoCopy, Due}

\* Another writer is about to change a row of the store behind s.
Contended(w, s) ==
  \E t \in Shards :
    /\ Addr(t) = Addr(s)
    /\ \/ w # "write" /\ t \in write.todo
       \/ w # "sweep" /\ Applying("sweep", t)
       \/ w # "sweep" /\ sweep.unread = {} /\ t \in sweep.todo /\ Drops(t)
       \/ w # "sync" /\ Applying("sync", t)

\* A store selects the row and compares, and others write before it does.  A
\* comparison that nobody is about to overtake may as well be made later, and is
\* no step.  The playbacks run side by side.
Compares(w, s) ==
  /\ Applying(w, s) /\ Contended(w, s) /\ Begun(w, s) = {} /\ Cardinality(early) < MaxEarly
  /\ w # "sync" => Turn(w, s)
  /\ early' = early \cup {[by |-> w, shard |-> s, row |-> copy[Addr(s)]]}
  /\ UNCHANGED <<copy, boot, lease, freshest, write, sweep, sync, minted, writes, acked, grants, faults>>
  /\ Watch

-----------------------------------------------------------------------------
(* Restarts.                                                               *)

\* A sidecar restarts with an empty store and a new identity.
ShardRestarts(h) ==
  /\ Fault
  /\ boot[h] < MaxBoots
  /\ boot' = [boot EXCEPT ![h] = @ + 1]
  /\ copy' = [copy EXCEPT ![h] = NoCopy]
  /\ early' = {e \in early : Addr(e.shard) # h}
  /\ UNCHANGED <<lease, freshest, sync>>
  /\ RegistryUnchanged

\* The queue-service restarts: what it held in memory is gone.
ServiceRestarts ==
  /\ Fault
  /\ freshest' = NoShard /\ write' = NoWrite /\ sweep' = NoSweep
  /\ sync' = [h \in Hosts |-> NoCopy]
  /\ early' = {}
  /\ UNCHANGED <<copy, boot, lease, minted, writes, acked, grants>>
  /\ Watch

-----------------------------------------------------------------------------

Funnel ==
  \/ EnqueueBegins \/ ClaimBegins \/ ReleaseBegins \/ DecideBegins \/ DeleteBegins \/ WriteEnds
  \/ \E s \in Shards : \/ EnqueueCalls(s) \/ ClaimCalls(s) \/ ReleaseCalls(s)
                       \/ EnsureCalls(s) \/ DecideCalls(s) \/ OtherEnqueue(s)
Sweeper ==
  \/ SweepBegins \/ SweepEnds
  \/ \E s \in Shards : SweepReads(s) \/ SweepConverges(s)
Joining(h) == Joins(h) \/ Renews(h) \/ SyncReads(h) \/ SyncApplies(h)
Leaving(s) == Lapses(s) \/ Evicts(s)
Restarts == ServiceRestarts \/ \E h \in Hosts : ShardRestarts(h)

Next ==
  \/ Funnel \/ Sweeper \/ Restarts
  \/ \E h \in Hosts : Joining(h)
  \/ \E s \in Shards : Leaving(s) \/ \E w \in Writers : Compares(w, s)

Spec == Init /\ [][Next]_vars

\* A write that holds the lock goes on, the two sweeps and the heartbeats keep
\* ticking, a playback goes on and the lease of a past boot runs out.
FairSpec ==
  /\ Spec
  /\ WF_vars(write # NoWrite /\ Funnel)
  /\ WF_vars(Sweeper)
  /\ \A h \in Hosts : WF_vars(Joining(h))
  /\ \A s \in Shards : WF_vars(s # Current(Addr(s)) /\ Leaving(s))

-----------------------------------------------------------------------------

TypeOK ==
  /\ copy \in [Hosts -> Copy \cup {NoCopy}]
  /\ boot \in [Hosts -> 1..MaxBoots]
  /\ lease \in [Shards -> {"absent", "living", "stale"}]
  /\ freshest \in Shards \cup {NoShard}
  /\ write \in Write \cup {NoWrite}
  /\ sweep \in Sweep \cup {NoSweep}
  /\ sync \in [Hosts -> Copy \cup {NoCopy, Due}]
  /\ early \subseteq ApplyCall
  /\ minted \in 0..MaxGen /\ writes \in 0..MaxWrites
  /\ acked \in 0..MaxGen /\ grants \in Nat /\ raced \in BOOLEAN /\ faults \in 0..MaxFaults

\* enqueueBroadcast, the sweeper and the playback: a read of every living shard
\* finds an acknowledged generation that nobody began to decide, or a newer one,
\* as long as the sweeper kept clear of the writes and no apply call was overtaken.
AckedIsVisible ==
  acked # 0 /\ Living # {} /\ ~raced => \E s \in Living : copy[Addr(s)].gen >= acked

\* sweep.go: the sweeper is "never a reason to destroy copies", so that an
\* acknowledged item that nobody began to decide is in some store.
AckedSurvives == acked # 0 => \E h \in Hosts : copy[h].gen >= acked

\* claimBroadcast: an item is granted to one claimer until it is released,
\* decided or parked again.
ClaimIsExclusive == grants <= 1
\* The same as long as the sweeper and playbacks kept clear of the writes, and no
\* apply call was overtaken.
ClaimIsExclusiveApart == raced \/ ClaimIsExclusive

\* Store.ApplyItem under every writer - funnel, sweeper, playback - with what
\* they read however long ago: a shard goes back to an older parking only in a
\* call that compared with a row no newer than what it then wrote, and was
\* overtaken by the newer one before its UPDATE.
Compared(h, gen) == \E e \in early : Addr(e.shard) = h /\ e.row # NoCopy /\ e.row.gen <= gen
GenerationFallsOnlyOvertaken ==
  [][\A h \in Hosts :
       copy'[h] # NoCopy /\ copy'[h].gen < copy[h].gen => Compared(h, copy'[h].gen)]_vars

\* The sweeper makes the living shards agree on whether the item is there, as
\* long as the freshest mirror is living.
Agree == \A s, t \in Living : copy[Addr(s)] = NoCopy <=> copy[Addr(t)] = NoCopy
Converges == <>[](freshest \in Living => Agree)

=============================================================================
