----------------------- MODULE GraphTransaction_proofs -----------------------
(***************************************************************************)
(* Proofs about the Cartographer's transactions, for any number of them,   *)
(* of elements, changes, failed operations, restarts and foreign pushes:   *)
(* the git lock, what a branch can be, what main's database holds, what an *)
(* answered commit left on main and in the remote, what a restart finds,   *)
(* and that no commit overwrites what its transaction had not seen.        *)
(***************************************************************************)
EXTENDS GraphTransaction, SequenceTheorems, TLAPS

-----------------------------------------------------------------------------
(* Histories *)

LEMMA PrefixIs ==
  ASSUME NEW S, NEW s \in Seq(S), NEW t \in Seq(S)
  PROVE  IsPrefix(s, t) <=> Len(s) <= Len(t) /\ \A i \in 1..Len(s) : s[i] = t[i]
<1> DEFINE m == Len(s)  n == Len(t)
<1>1. m \in Nat /\ n \in Nat
  OBVIOUS
<1>2. CASE m <= n
  <2>1. \A i \in 1..m : i \in 1..m /\ i \in 1..n
    BY <1>1, <1>2
  <2>2. /\ SubSeq(s, 1, m) \in Seq(S) /\ Len(SubSeq(s, 1, m)) = m
        /\ \A i \in 1..m : SubSeq(s, 1, m)[i] = s[i]
    BY <1>1, SubSeqProperties
  <2>3. /\ SubSeq(t, 1, m) \in Seq(S) /\ Len(SubSeq(t, 1, m)) = m
        /\ \A i \in 1..m : SubSeq(t, 1, m)[i] = t[i]
    BY <1>1, <1>2, SubSeqProperties
  <2>4. SubSeq(s, 1, m) = SubSeq(t, 1, m) <=> \A i \in 1..m : s[i] = t[i]
    BY <2>2, <2>3, SeqEqual
  <2> QED BY <1>2, <2>4 DEF IsPrefix
<1> QED BY <1>1, <1>2 DEF IsPrefix

LEMMA PrefixRefl ==
  ASSUME NEW S, NEW s \in Seq(S) PROVE IsPrefix(s, s)
BY PrefixIs

LEMMA PrefixTrans ==
  ASSUME NEW S, NEW s \in Seq(S), NEW t \in Seq(S), NEW u \in Seq(S),
         IsPrefix(s, t), IsPrefix(t, u)
  PROVE  IsPrefix(s, u)
<1>1. Len(s) \in Nat /\ Len(t) \in Nat /\ Len(u) \in Nat
  OBVIOUS
<1>2. /\ Len(s) <= Len(t) /\ Len(t) <= Len(u)
      /\ \A i \in 1..Len(s) : s[i] = t[i]
      /\ \A i \in 1..Len(t) : t[i] = u[i]
  BY PrefixIs
<1>3. Len(s) <= Len(u) /\ \A i \in 1..Len(s) : s[i] = u[i]
  BY <1>1, <1>2
<1> QED BY <1>3, PrefixIs

LEMMA PrefixAntisym ==
  ASSUME NEW S, NEW s \in Seq(S), NEW t \in Seq(S), IsPrefix(s, t), IsPrefix(t, s)
  PROVE  s = t
<1>1. Len(s) = Len(t) /\ \A i \in 1..Len(s) : s[i] = t[i]
  BY PrefixIs
<1> QED BY <1>1, SeqEqual

LEMMA PrefixOfAppended ==
  ASSUME NEW S, NEW s \in Seq(S), NEW e \in S
  PROVE  Append(s, e) \in Seq(S) /\ Append(s, e) # <<>> /\ IsPrefix(s, Append(s, e))
         /\ Last(Append(s, e)) = e
<1> DEFINE t == Append(s, e)
<1>1. /\ t \in Seq(S) /\ Len(t) = Len(s) + 1 /\ Len(s) \in Nat /\ t[Len(s) + 1] = e
      /\ \A i \in 1..Len(s) : t[i] = s[i]
  BY AppendProperties
<1> HIDE DEF t
<1>2. IsPrefix(s, t)
  BY <1>1, PrefixIs
<1>3. Last(t) = e /\ t # <<>>
  BY <1>1 DEF Last
<1> QED BY <1>1, <1>2, <1>3 DEF t

\* Whose commits a history has.
LEMMA CommittedInPrefix ==
  ASSUME NEW s \in Seq(Commits), NEW t \in Seq(Commits), IsPrefix(s, t), NEW u,
         CommittedBy(u, s)
  PROVE  CommittedBy(u, t)
<1>1. Len(s) <= Len(t) /\ \A i \in 1..Len(s) : s[i] = t[i]
  BY PrefixIs
<1> QED BY <1>1 DEF CommittedBy

LEMMA CommittedInAppended ==
  ASSUME NEW s \in Seq(Commits), NEW e \in Commits, NEW u
  PROVE  CommittedBy(u, Append(s, e)) <=> CommittedBy(u, s) \/ e.by = u
<1> DEFINE t == Append(s, e)
<1>1. /\ t \in Seq(Commits) /\ Len(t) = Len(s) + 1 /\ Len(s) \in Nat /\ t[Len(s) + 1] = e
      /\ \A i \in 1..Len(s) : t[i] = s[i]
  BY AppendProperties
<1> HIDE DEF t
<1>2. DOMAIN t = 1 .. Len(s) + 1 /\ DOMAIN s = 1..Len(s)
  BY <1>1
<1>3. CommittedBy(u, t) <=> CommittedBy(u, s) \/ e.by = u
  BY <1>1, <1>2 DEF CommittedBy
<1> QED BY <1>3 DEF t

LEMMA TreeType ==
  ASSUME NEW s \in Seq(Commits), s # <<>>
  PROVE  Tree(s) \in Trees /\ Last(s) \in Commits
<1>1. Len(s) \in 1..Len(s) /\ s[Len(s)] \in Commits
  <2>1. Len(s) \in Nat \ {0}
    BY EmptySeq
  <2>2. Len(s) \in 1..Len(s)
    BY <2>1
  <2> QED BY <2>2, ElementOfSeq
<1> QED BY <1>1 DEF Tree, Last, Commits

-----------------------------------------------------------------------------
(* Types, and what the record of one transaction owes itself: which flags  *)
(* it has at which step, and that a transaction at work has a history.     *)

Ops == {"none", "commit", "resume", "empty", "rollback", "collect"}
Active == {"open"} \cup Locked \cup CleanupSteps
SavedFlags == (SUBSET Flags) \cup {{Missing}}
Record == [pc : Steps, op : Ops, branch : Seq(Commits), db : Trees \cup {None},
           base : Seq(Commits), log : SUBSET (Kinds \X Keys), stale : SUBSET Keys,
           mem : SUBSET Flags, dur : SavedFlags, before : Trees \cup {None}]

FlagsFit(r) ==
  /\ Valid(r.mem) /\ Valid(r.dur)
  /\ r.pc \in CommitSteps \cup RefreshSteps => "merged" \notin r.mem
  /\ "started" \in r.dur => "started" \in r.mem
  /\ r.pc \in {"create", "created"} => "started" \in r.dur
  /\ r.pc \in {"start", "create", "created"} => "created" \notin r.mem
  /\ r.pc \in {"load", "merge", "merged"} => "created" \in r.mem
  /\ r.pc \in RefreshSteps \cup CleanupSteps => "rehydrated" \notin r.mem

StepFits(r) ==
  /\ r.pc \in Active => r.branch # <<>> /\ r.base # <<>>
  /\ r.pc \in CleanupSteps <=> r.op # "none"
  /\ r.pc \notin Active => r.mem = {}

Sound == {r \in Record : FlagsFit(r) /\ StepFits(r)}

TxsSound == tx \in [Txs -> Sound]
HistoriesOk == /\ main \in Seq(Commits) /\ main # <<>>
               /\ remote \in Seq(Commits) /\ remote # <<>>
               /\ store \in Trees
SyncType == sync \in [at : {"idle", "push", "pushing", "pushed"}, pending : Nat,
                      gen : Nat, serving : SUBSET Txs, unhydrated : BOOLEAN, skipped : Nat]
TouchedType == touched \in [Txs -> [Keys -> {None} \cup Touches]]
TypeInv == /\ TxsSound /\ HistoriesOk /\ SyncType /\ TouchedType
           /\ events \in 0 .. MaxEvents /\ lapses \subseteq Lapses

\* A record with these values of the fields that the invariants are about.
Same(r, pc, op, branch, base, mem, dur) ==
  r.pc = pc /\ r.op = op /\ r.branch = branch /\ r.base = base /\ r.mem = mem /\ r.dur = dur

\* The step gives t's record these values and leaves the others alone.
Becomes(t, pc, op, branch, base, mem, dur) ==
  /\ Same(tx'[t], pc, op, branch, base, mem, dur)
  /\ \A u \in Txs \ {t} : tx'[u] = tx[u]

LEMMA OneBecomes ==
  ASSUME TypeInv, NEW t \in Txs, NEW s \in Sound, tx' = [tx EXCEPT ![t] = s],
         NEW pc, NEW op, NEW branch, NEW base, NEW mem, NEW dur, Same(s, pc, op, branch, base, mem, dur)
  PROVE  TxsSound' /\ Becomes(t, pc, op, branch, base, mem, dur)
BY DEF TypeInv, TxsSound, Becomes

LEMMA BeginBecomes ==
  ASSUME TypeInv, NEW t \in Txs, BeginTransaction(t)
  PROVE  TxsSound' /\ Becomes(t, "open", "none", main, main, tx[t].mem, tx[t].dur)
<1> DEFINE r == tx[t]
           s == [r EXCEPT !.pc = "open", !.branch = main, !.db = Tree(main), !.base = main]
<1>1. r \in Record /\ FlagsFit(r) /\ StepFits(r) /\ r.pc = "new"
  BY DEF TypeInv, TxsSound, Sound, BeginTransaction
<1>2. tx' = [tx EXCEPT ![t] = s]
  BY <1>1 DEF BeginTransaction, TypeInv, TxsSound, Sound, Record
<1>3. Tree(main) \in Trees
  BY TreeType DEF TypeInv, HistoriesOk
<1>4. s \in Record
  BY <1>1, <1>3 DEF Record, TypeInv, HistoriesOk, Steps, CommitSteps, RefreshSteps, CleanupSteps, Locked, Ops, SavedFlags, Flags, Milestones
<1>5. Same(s, "open", "none", main, main, tx[t].mem, tx[t].dur)
  BY <1>1 DEF Record, Same, StepFits, CleanupSteps
<1>6. FlagsFit(s) /\ StepFits(s)
  BY <1>1, <1>5, <1>3 DEF Same, TypeInv, HistoriesOk, FlagsFit, StepFits, Valid, CommitSteps, RefreshSteps, CleanupSteps, Active, Locked
<1> HIDE DEF s
<1> QED BY <1>2, <1>4, <1>5, <1>6, OneBecomes DEF Sound


LEMMA RollbackBecomes ==
  ASSUME TypeInv, NEW t \in Txs, RollbackTransaction(t)
  PROVE  TxsSound' /\ Becomes(t, "drop", "rollback", tx[t].branch, tx[t].base, tx[t].mem \ {"rehydrated"}, tx[t].dur)
<1> DEFINE r == tx[t]
           s == [r EXCEPT !.pc = "drop", !.op = "rollback", !.mem = @ \ {"rehydrated"}]
<1>1. r \in Record /\ FlagsFit(r) /\ StepFits(r) /\ r.pc = "open"
  BY DEF TypeInv, TxsSound, Sound, RollbackTransaction
<1>2. tx' = [tx EXCEPT ![t] = s]
  BY <1>1 DEF RollbackTransaction, TypeInv, TxsSound, Sound, Record, CleansUp
<1>3. s \in Record
  BY <1>1 DEF Record, TypeInv, HistoriesOk, Steps, CommitSteps, RefreshSteps, CleanupSteps, Locked, Ops, SavedFlags, Flags, Milestones
<1>4. Same(s, "drop", "rollback", tx[t].branch, tx[t].base, tx[t].mem \ {"rehydrated"}, tx[t].dur)
  BY <1>1 DEF Record, Same
<1>5. FlagsFit(s) /\ StepFits(s)
  BY <1>1, <1>4 DEF Same, TypeInv, HistoriesOk, FlagsFit, StepFits, Valid, CommitSteps, RefreshSteps, CleanupSteps, Active, Locked
<1> HIDE DEF s
<1> QED BY <1>2, <1>3, <1>4, <1>5, OneBecomes DEF Sound

LEMMA ResumeBecomes ==
  ASSUME TypeInv, NEW t \in Txs, CommitResumesCleanup(t)
  PROVE  TxsSound' /\ Becomes(t, "drop", "resume", tx[t].branch, tx[t].base, tx[t].mem \ {"rehydrated"}, tx[t].dur)
<1> DEFINE r == tx[t]
           s == [r EXCEPT !.pc = "drop", !.op = "resume", !.mem = @ \ {"rehydrated"}]
<1>1. r \in Record /\ FlagsFit(r) /\ StepFits(r) /\ r.pc = "open"
  BY DEF TypeInv, TxsSound, Sound, CommitResumesCleanup
<1>2. tx' = [tx EXCEPT ![t] = s]
  BY <1>1 DEF CommitResumesCleanup, TypeInv, TxsSound, Sound, Record, CleansUp
<1>3. s \in Record
  BY <1>1 DEF Record, TypeInv, HistoriesOk, Steps, CommitSteps, RefreshSteps, CleanupSteps, Locked, Ops, SavedFlags, Flags, Milestones
<1>4. Same(s, "drop", "resume", tx[t].branch, tx[t].base, tx[t].mem \ {"rehydrated"}, tx[t].dur)
  BY <1>1 DEF Record, Same
<1>5. FlagsFit(s) /\ StepFits(s)
  BY <1>1, <1>4 DEF Same, TypeInv, HistoriesOk, FlagsFit, StepFits, Valid, CommitSteps, RefreshSteps, CleanupSteps, Active, Locked
<1> HIDE DEF s
<1> QED BY <1>2, <1>3, <1>4, <1>5, OneBecomes DEF Sound

LEMMA EmptyBecomes ==
  ASSUME TypeInv, NEW t \in Txs, CommitOfNothing(t)
  PROVE  TxsSound' /\ Becomes(t, "drop", "empty", tx[t].branch, tx[t].base, tx[t].mem \ {"rehydrated"}, tx[t].dur)
<1> DEFINE r == tx[t]
           s == [r EXCEPT !.pc = "drop", !.op = "empty", !.mem = @ \ {"rehydrated"}]
<1>1. r \in Record /\ FlagsFit(r) /\ StepFits(r) /\ r.pc = "open"
  BY DEF TypeInv, TxsSound, Sound, CommitOfNothing
<1>2. tx' = [tx EXCEPT ![t] = s]
  BY <1>1 DEF CommitOfNothing, TypeInv, TxsSound, Sound, Record, CleansUp
<1>3. s \in Record
  BY <1>1 DEF Record, TypeInv, HistoriesOk, Steps, CommitSteps, RefreshSteps, CleanupSteps, Locked, Ops, SavedFlags, Flags, Milestones
<1>4. Same(s, "drop", "empty", tx[t].branch, tx[t].base, tx[t].mem \ {"rehydrated"}, tx[t].dur)
  BY <1>1 DEF Record, Same
<1>5. FlagsFit(s) /\ StepFits(s)
  BY <1>1, <1>4 DEF Same, TypeInv, HistoriesOk, FlagsFit, StepFits, Valid, CommitSteps, RefreshSteps, CleanupSteps, Active, Locked
<1> HIDE DEF s
<1> QED BY <1>2, <1>3, <1>4, <1>5, OneBecomes DEF Sound

LEMMA CollectBecomes ==
  ASSUME TypeInv, NEW t \in Txs, Collect(t)
  PROVE  TxsSound' /\ Becomes(t, "drop", "collect", tx[t].branch, tx[t].base, tx[t].mem \ {"rehydrated"}, tx[t].dur)
<1> DEFINE r == tx[t]
           s == [r EXCEPT !.pc = "drop", !.op = "collect", !.mem = @ \ {"rehydrated"}]
<1>1. r \in Record /\ FlagsFit(r) /\ StepFits(r) /\ r.pc = "open"
  BY DEF TypeInv, TxsSound, Sound, Collect
<1>2. tx' = [tx EXCEPT ![t] = s]
  BY <1>1 DEF Collect, TypeInv, TxsSound, Sound, Record
<1>3. s \in Record
  BY <1>1 DEF Record, TypeInv, HistoriesOk, Steps, CommitSteps, RefreshSteps, CleanupSteps, Locked, Ops, SavedFlags, Flags, Milestones
<1>4. Same(s, "drop", "collect", tx[t].branch, tx[t].base, tx[t].mem \ {"rehydrated"}, tx[t].dur)
  BY <1>1 DEF Record, Same
<1>5. FlagsFit(s) /\ StepFits(s)
  BY <1>1, <1>4 DEF Same, TypeInv, HistoriesOk, FlagsFit, StepFits, Valid, CommitSteps, RefreshSteps, CleanupSteps, Active, Locked
<1> HIDE DEF s
<1> QED BY <1>2, <1>3, <1>4, <1>5, OneBecomes DEF Sound

LEMMA DropBecomes ==
  ASSUME TypeInv, NEW t \in Txs, DropBranchDB(t)
  PROVE  TxsSound' /\ Becomes(t, "delete", tx[t].op, tx[t].branch, tx[t].base, tx[t].mem, {Missing})
<1> DEFINE r == tx[t]
           s == [r EXCEPT !.pc = "delete", !.db = None, !.dur = {Missing}]
<1>1. r \in Record /\ FlagsFit(r) /\ StepFits(r) /\ r.pc = "drop"
  BY DEF TypeInv, TxsSound, Sound, DropBranchDB
<1>2. tx' = [tx EXCEPT ![t] = s]
  BY <1>1 DEF DropBranchDB, TypeInv, TxsSound, Sound, Record
<1>3. s \in Record
  BY <1>1 DEF Record, TypeInv, HistoriesOk, Steps, CommitSteps, RefreshSteps, CleanupSteps, Locked, Ops, SavedFlags, Flags, Milestones
<1>4. Same(s, "delete", tx[t].op, tx[t].branch, tx[t].base, tx[t].mem, {Missing})
  BY <1>1 DEF Record, Same
<1>5. FlagsFit(s) /\ StepFits(s)
  BY <1>1, <1>4 DEF Same, TypeInv, HistoriesOk, FlagsFit, StepFits, Valid, Missing, CommitSteps, RefreshSteps, CleanupSteps, Active, Locked
<1> HIDE DEF s
<1> QED BY <1>2, <1>3, <1>4, <1>5, OneBecomes DEF Sound

LEMMA FailedCleanupBecomes ==
  ASSUME TypeInv, NEW t \in Txs, FailCleanup(t)
  PROVE  TxsSound' /\ Becomes(t, "open", "none", tx[t].branch, tx[t].base, tx[t].mem, tx[t].dur)
<1> DEFINE r == tx[t]
           s == [r EXCEPT !.pc = "open", !.op = "none"]
<1>1. r \in Record /\ FlagsFit(r) /\ StepFits(r) /\ r.pc \in CleanupSteps
  BY DEF TypeInv, TxsSound, Sound, FailCleanup
<1>2. tx' = [tx EXCEPT ![t] = s]
  BY <1>1 DEF FailCleanup, TypeInv, TxsSound, Sound, Record
<1>3. s \in Record
  BY <1>1 DEF Record, TypeInv, HistoriesOk, Steps, CommitSteps, RefreshSteps, CleanupSteps, Locked, Ops, SavedFlags, Flags, Milestones
<1>4. Same(s, "open", "none", tx[t].branch, tx[t].base, tx[t].mem, tx[t].dur)
  BY <1>1 DEF Record, Same
<1>5. FlagsFit(s) /\ StepFits(s)
  BY <1>1, <1>4 DEF Same, TypeInv, HistoriesOk, FlagsFit, StepFits, Valid, CommitSteps, RefreshSteps, CleanupSteps, Active, Locked
<1> HIDE DEF s
<1> QED BY <1>2, <1>3, <1>4, <1>5, OneBecomes DEF Sound


\* The flags of a commit that looked for an earlier attempt, and of one that failed.
LEMMA DetectedFits ==
  ASSUME TypeInv, NEW t \in Txs
  PROVE  /\ Detected(t) \in SUBSET Flags /\ Valid(Detected(t))
         /\ "merged" \in Detected(t) <=> Has(t, "merged")
         /\ "rehydrated" \in Detected(t) <=> Has(t, "rehydrated")
<1>1. tx[t].mem \in SUBSET Flags /\ Valid(tx[t].mem)
  BY DEF TypeInv, TxsSound, Sound, Record, FlagsFit
<1> QED BY <1>1 DEF Detected, Has, Valid, Flags, Milestones

LEMMA ReconciledFits ==
  ASSUME NEW t, NEW flags \in SUBSET Flags, Valid(flags)
  PROVE  /\ Reconciled(t, flags) \in SUBSET Flags
         /\ "merged" \notin flags \/ Exists(t) => Valid(Reconciled(t, flags))
         /\ "merged" \in Reconciled(t, flags) <=> "merged" \in flags
         /\ "rehydrated" \in Reconciled(t, flags) => "rehydrated" \in flags
BY DEF Reconciled, Void, Valid, Flags, Milestones

LEMMA FoundBecomes ==
  ASSUME TypeInv, NEW t \in Txs, CommitFindsMerge(t)
  PROVE  TxsSound' /\ Becomes(t, "drop", "commit", tx[t].branch, tx[t].base, (Detected(t) \cup {"merged"}) \ {"rehydrated"}, (Detected(t) \cup {"merged"}) \ {"rehydrated"})
<1> DEFINE r == tx[t]
           s == [r EXCEPT !.pc = "drop", !.op = "commit", !.mem = (Detected(t) \cup {"merged"}) \ {"rehydrated"}, !.dur = (Detected(t) \cup {"merged"}) \ {"rehydrated"}]
<1>1. r \in Record /\ FlagsFit(r) /\ StepFits(r) /\ r.pc = "open" /\ "created" \in Detected(t)
  BY DEF TypeInv, TxsSound, Sound, CommitFindsMerge, Committing, Usable, AlreadyMerged
<1>2. tx' = [tx EXCEPT ![t] = s]
  BY <1>1 DEF CommitFindsMerge, TypeInv, TxsSound, Sound, Record
<1>3. LET d == Detected(t) IN d \in SUBSET Flags /\ Valid(d) /\ ("merged" \in d <=> "merged" \in r.mem)
  BY DetectedFits DEF Has
<1>4. s \in Record
  BY <1>1, <1>3 DEF Record, TypeInv, HistoriesOk, Steps, CommitSteps, RefreshSteps, CleanupSteps, Locked, Ops, SavedFlags, Flags, Milestones
<1>5. Same(s, "drop", "commit", tx[t].branch, tx[t].base, (Detected(t) \cup {"merged"}) \ {"rehydrated"}, (Detected(t) \cup {"merged"}) \ {"rehydrated"})
  BY <1>1 DEF Record, Same
<1>6. FlagsFit(s) /\ StepFits(s)
  BY <1>1, <1>5, <1>3 DEF Same, TypeInv, HistoriesOk, FlagsFit, StepFits, Valid, CommitSteps, RefreshSteps, CleanupSteps, Active, Locked
<1> HIDE DEF s
<1> QED BY <1>2, <1>4, <1>5, <1>6, OneBecomes DEF Sound

LEMMA RefusedBecomes ==
  ASSUME TypeInv, NEW t \in Txs, CommitIsNotUpToDate(t)
  PROVE  TxsSound' /\ Becomes(t, "open", tx[t].op, tx[t].branch, tx[t].base, Reconciled(t, Detected(t)),
    IF Detected(t) \cap Milestones = {} THEN tx[t].dur ELSE Reconciled(t, Detected(t)))
<1> DEFINE r == tx[t]
           dur == IF Detected(t) \cap Milestones = {} THEN r.dur ELSE Reconciled(t, Detected(t))
           s == [r EXCEPT !.mem = Reconciled(t, Detected(t)), !.dur = dur]
<1>1. r \in Record /\ FlagsFit(r) /\ StepFits(r) /\ r.pc = "open" /\ "merged" \notin r.mem
  BY DEF TypeInv, TxsSound, Sound, CommitIsNotUpToDate, Committing, Usable, Has
<1>2. tx' = [tx EXCEPT ![t] = s]
  BY <1>1 DEF CommitIsNotUpToDate, TypeInv, TxsSound, Sound, Record
<1>3. LET d == Detected(t) IN d \in SUBSET Flags /\ Valid(d) /\ ("merged" \in d <=> "merged" \in r.mem)
  BY DetectedFits DEF Has
<1>4. LET d == Reconciled(t, Detected(t)) IN d \in SUBSET Flags /\ Valid(d)
  BY <1>1, DetectedFits, ReconciledFits DEF Has
<1> dur \in SavedFlags
  BY <1>1, <1>4 DEF Record, SavedFlags
<1>5. s \in Record
  <2> HIDE DEF dur
  <2> QED BY <1>1, <1>3, <1>4 DEF Record, Steps, RefreshSteps, Locked
<1>6. Same(s, "open", tx[t].op, tx[t].branch, tx[t].base, Reconciled(t, Detected(t)),
    IF Detected(t) \cap Milestones = {} THEN tx[t].dur ELSE Reconciled(t, Detected(t)))
  BY <1>1 DEF Record, Same
<1>7. Detected(t) \cap Milestones = {} => "started" \notin r.dur
  BY <1>1 DEF Detected, Milestones, FlagsFit
<1>8. FlagsFit(s) /\ StepFits(s)
  BY <1>1, <1>6, <1>3, <1>4, <1>7 DEF Same, TypeInv, HistoriesOk, FlagsFit, StepFits, Valid, CommitSteps, RefreshSteps, CleanupSteps, Active, Locked
<1> HIDE DEF s
<1> QED BY <1>2, <1>5, <1>6, <1>8, OneBecomes DEF Sound

\* The step at which a commit begins.
FirstStep(t) == IF "created" \in Detected(t) THEN NextAfterCreated(Detected(t)) ELSE "start"

LEMMA BeginsBecomes ==
  ASSUME TypeInv, NEW t \in Txs, CommitBegins(t)
  PROVE  TxsSound' /\ Becomes(t, FirstStep(t), tx[t].op, tx[t].branch, tx[t].base, Detected(t),
    IF Exists(t) /\ ~Has(t, "created") THEN Detected(t) ELSE tx[t].dur)
<1> DEFINE r == tx[t]
           s == [r EXCEPT !.pc = FirstStep(t), !.mem = Detected(t), !.dur = IF Exists(t) /\ ~Has(t, "created") THEN Detected(t) ELSE @]
<1>1. r \in Record /\ FlagsFit(r) /\ StepFits(r) /\ r.pc = "open" /\ "merged" \notin r.mem
  BY DEF TypeInv, TxsSound, Sound, CommitBegins, Committing, Usable, Has
<1>2. tx' = [tx EXCEPT ![t] = s]
  BY <1>1 DEF CommitBegins, TypeInv, TxsSound, Sound, Record, FirstStep
<1>3. LET d == Detected(t) IN d \in SUBSET Flags /\ Valid(d) /\ ("merged" \in d <=> "merged" \in r.mem)
  BY DetectedFits DEF Has
<1>4. \/ FirstStep(t) = "start" /\ "created" \notin Detected(t)
      \/ FirstStep(t) \in {"load", "merge"} /\ "created" \in Detected(t)
  BY DEF FirstStep, NextAfterCreated
<1>. FirstStep(t) \in Steps
  BY <1>4 DEF Steps, Locked, CommitSteps
<1>5. s \in Record
  BY <1>1, <1>3 DEF Record, SavedFlags
<1>6. Same(s, FirstStep(t), tx[t].op, tx[t].branch, tx[t].base, Detected(t),
    IF Exists(t) /\ ~Has(t, "created") THEN Detected(t) ELSE tx[t].dur)
  BY <1>1 DEF Record, Same
<1>7. r.mem \subseteq Detected(t)
  BY DEF Detected
<1>8. FlagsFit(s) /\ StepFits(s)
  BY <1>1, <1>6, <1>3, <1>4, <1>7 DEF Same, TypeInv, HistoriesOk, FlagsFit, StepFits, Valid, CommitSteps, RefreshSteps, CleanupSteps, Active, Locked
<1> HIDE DEF s
<1> QED BY <1>2, <1>5, <1>6, <1>8, OneBecomes DEF Sound

LEMMA StartBecomes ==
  ASSUME TypeInv, NEW t \in Txs, CommitStarts(t)
  PROVE  TxsSound' /\ Becomes(t, "create", tx[t].op, tx[t].branch, tx[t].base, tx[t].mem \cup {"started"}, tx[t].mem \cup {"started"})
<1> DEFINE r == tx[t]
           s == [r EXCEPT !.pc = "create", !.mem = r.mem \cup {"started"}, !.dur = r.mem \cup {"started"}]
<1>1. r \in Record /\ FlagsFit(r) /\ StepFits(r) /\ r.pc = "start"
  BY DEF TypeInv, TxsSound, Sound, CommitStarts, Reaches
<1>2. tx' = [tx EXCEPT ![t] = s]
  BY <1>1 DEF CommitStarts, TypeInv, TxsSound, Sound, Record, Reaches
<1>3. s \in Record
  BY <1>1 DEF Record, TypeInv, HistoriesOk, Steps, CommitSteps, RefreshSteps, CleanupSteps, Locked, Ops, SavedFlags, Flags, Milestones
<1>4. Same(s, "create", tx[t].op, tx[t].branch, tx[t].base, tx[t].mem \cup {"started"}, tx[t].mem \cup {"started"})
  BY <1>1 DEF Record, Same
<1>5. FlagsFit(s) /\ StepFits(s)
  BY <1>1, <1>4 DEF Same, TypeInv, HistoriesOk, FlagsFit, StepFits, Valid, CommitSteps, RefreshSteps, CleanupSteps, Active, Locked
<1> HIDE DEF s
<1> QED BY <1>2, <1>3, <1>4, <1>5, OneBecomes DEF Sound

LEMMA RecordBecomes ==
  ASSUME TypeInv, NEW t \in Txs, CommitRecords(t)
  PROVE  TxsSound' /\ Becomes(t, NextAfterCreated(tx[t].mem), tx[t].op, tx[t].branch, tx[t].base, tx[t].mem \cup {"created"}, tx[t].mem \cup {"created"})
<1> DEFINE r == tx[t]
           s == [r EXCEPT !.pc = NextAfterCreated(tx[t].mem), !.mem = r.mem \cup {"created"}, !.dur = r.mem \cup {"created"}]
<1>1. r \in Record /\ FlagsFit(r) /\ StepFits(r) /\ r.pc = "created"
  BY DEF TypeInv, TxsSound, Sound, CommitRecords, Reaches
<1>2. tx' = [tx EXCEPT ![t] = s]
  BY <1>1 DEF CommitRecords, TypeInv, TxsSound, Sound, Record, Reaches
<1>3. NextAfterCreated(r.mem) \in {"load", "merge"}
  BY DEF NextAfterCreated
<1>4. s \in Record
  BY <1>1, <1>3 DEF Record, TypeInv, HistoriesOk, Steps, CommitSteps, RefreshSteps, CleanupSteps, Locked, Ops, SavedFlags, Flags, Milestones
<1>5. Same(s, NextAfterCreated(tx[t].mem), tx[t].op, tx[t].branch, tx[t].base, tx[t].mem \cup {"created"}, tx[t].mem \cup {"created"})
  BY <1>1 DEF Record, Same
<1>6. FlagsFit(s) /\ StepFits(s)
  BY <1>1, <1>5, <1>3 DEF Same, TypeInv, HistoriesOk, FlagsFit, StepFits, Valid, CommitSteps, RefreshSteps, CleanupSteps, Active, Locked
<1> HIDE DEF s
<1> QED BY <1>2, <1>4, <1>5, <1>6, OneBecomes DEF Sound

LEMMA LoadBecomes ==
  ASSUME TypeInv, NEW t \in Txs, CommitLoads(t)
  PROVE  TxsSound' /\ Becomes(t, "merge", tx[t].op, tx[t].branch, tx[t].base, tx[t].mem \cup {"rehydrated", "hydrated"}, tx[t].mem \cup {"rehydrated", "hydrated"})
<1> DEFINE r == tx[t]
           s == [r EXCEPT !.pc = "merge", !.mem = r.mem \cup {"rehydrated", "hydrated"}, !.dur = r.mem \cup {"rehydrated", "hydrated"}]
<1>1. r \in Record /\ FlagsFit(r) /\ StepFits(r) /\ r.pc = "load"
  BY DEF TypeInv, TxsSound, Sound, CommitLoads, Reaches
<1>2. tx' = [tx EXCEPT ![t] = s]
  BY <1>1 DEF CommitLoads, TypeInv, TxsSound, Sound, Record, Reaches
<1>3. s \in Record
  BY <1>1 DEF Record, TypeInv, HistoriesOk, Steps, CommitSteps, RefreshSteps, CleanupSteps, Locked, Ops, SavedFlags, Flags, Milestones
<1>4. Same(s, "merge", tx[t].op, tx[t].branch, tx[t].base, tx[t].mem \cup {"rehydrated", "hydrated"}, tx[t].mem \cup {"rehydrated", "hydrated"})
  BY <1>1 DEF Record, Same
<1>5. FlagsFit(s) /\ StepFits(s)
  BY <1>1, <1>4 DEF Same, TypeInv, HistoriesOk, FlagsFit, StepFits, Valid, CommitSteps, RefreshSteps, CleanupSteps, Active, Locked
<1> HIDE DEF s
<1> QED BY <1>2, <1>3, <1>4, <1>5, OneBecomes DEF Sound

LEMMA MergeBecomes ==
  ASSUME TypeInv, NEW t \in Txs, CommitMerges(t)
  PROVE  TxsSound' /\ Becomes(t, "merged", tx[t].op, tx[t].branch, tx[t].base, tx[t].mem, tx[t].dur)
<1> DEFINE r == tx[t]
           s == [r EXCEPT !.pc = "merged"]
<1>1. r \in Record /\ FlagsFit(r) /\ StepFits(r) /\ r.pc = "merge"
  BY DEF TypeInv, TxsSound, Sound, CommitMerges
<1>2. tx' = [tx EXCEPT ![t] = s]
  BY <1>1 DEF CommitMerges, TypeInv, TxsSound, Sound, Record
<1>3. s \in Record
  BY <1>1 DEF Record, TypeInv, HistoriesOk, Steps, CommitSteps, RefreshSteps, CleanupSteps, Locked, Ops, SavedFlags, Flags, Milestones
<1>4. Same(s, "merged", tx[t].op, tx[t].branch, tx[t].base, tx[t].mem, tx[t].dur)
  BY <1>1 DEF Record, Same
<1>5. FlagsFit(s) /\ StepFits(s)
  BY <1>1, <1>4 DEF Same, TypeInv, HistoriesOk, FlagsFit, StepFits, Valid, CommitSteps, RefreshSteps, CleanupSteps, Active, Locked
<1> HIDE DEF s
<1> QED BY <1>2, <1>3, <1>4, <1>5, OneBecomes DEF Sound

LEMMA MergedBecomes ==
  ASSUME TypeInv, NEW t \in Txs, CommitRecordsMerge(t)
  PROVE  TxsSound' /\ Becomes(t, "drop", "commit", tx[t].branch, tx[t].base, (tx[t].mem \cup {"merged"}) \ {"rehydrated"}, (tx[t].mem \cup {"merged"}) \ {"rehydrated"})
<1> DEFINE r == tx[t]
           s == [r EXCEPT !.pc = "drop", !.op = "commit", !.mem = (tx[t].mem \cup {"merged"}) \ {"rehydrated"}, !.dur = (tx[t].mem \cup {"merged"}) \ {"rehydrated"}]
<1>1. r \in Record /\ FlagsFit(r) /\ StepFits(r) /\ r.pc = "merged"
  BY DEF TypeInv, TxsSound, Sound, CommitRecordsMerge
<1>2. tx' = [tx EXCEPT ![t] = s]
  BY <1>1 DEF CommitRecordsMerge, TypeInv, TxsSound, Sound, Record
<1>3. s \in Record
  BY <1>1 DEF Record, TypeInv, HistoriesOk, Steps, CommitSteps, RefreshSteps, CleanupSteps, Locked, Ops, SavedFlags, Flags, Milestones
<1>4. Same(s, "drop", "commit", tx[t].branch, tx[t].base, (tx[t].mem \cup {"merged"}) \ {"rehydrated"}, (tx[t].mem \cup {"merged"}) \ {"rehydrated"})
  BY <1>1 DEF Record, Same
<1>5. FlagsFit(s) /\ StepFits(s)
  BY <1>1, <1>4 DEF Same, TypeInv, HistoriesOk, FlagsFit, StepFits, Valid, CommitSteps, RefreshSteps, CleanupSteps, Active, Locked
<1> HIDE DEF s
<1> QED BY <1>2, <1>3, <1>4, <1>5, OneBecomes DEF Sound


LEMMA RefreshBegunBecomes ==
  ASSUME TypeInv, NEW t \in Txs, RefreshBegins(t)
  PROVE  TxsSound' /\ Becomes(t, "reset", tx[t].op, tx[t].branch, tx[t].base, Void(tx[t].mem),
    IF Has(t, "started") THEN Void(tx[t].mem) ELSE tx[t].dur)
<1> DEFINE r == tx[t]
           dur == IF Has(t, "started") THEN Void(r.mem) ELSE r.dur
           s == [r EXCEPT !.pc = "reset", !.before = Tree(r.branch), !.mem = Void(r.mem), !.dur = dur]
<1>1. r \in Record /\ FlagsFit(r) /\ StepFits(r) /\ r.pc = "open" /\ "merged" \notin r.mem
  BY DEF TypeInv, TxsSound, Sound, RefreshBegins, Refreshable, Abandonable, Has
<1>2. tx' = [tx EXCEPT ![t] = s]
  BY <1>1 DEF RefreshBegins, TypeInv, TxsSound, Sound, Record
<1>3. Tree(r.branch) \in Trees
  BY <1>1, TreeType DEF Record, StepFits, Active
<1>4. Void(r.mem) \in SUBSET Flags /\ Void(r.mem) \cap {"started", "merged", "created", "rehydrated", "hydrated"} = {}
  BY <1>1 DEF Void, Milestones, Record, Flags
<1> dur \in SavedFlags
  BY <1>1, <1>4 DEF Record, SavedFlags
<1>5. s \in Record
  <2> HIDE DEF dur
  <2> QED BY <1>1, <1>3, <1>4 DEF Record, Steps, RefreshSteps, Locked
<1>6. Same(s, "reset", tx[t].op, tx[t].branch, tx[t].base, Void(tx[t].mem),
    IF Has(t, "started") THEN Void(tx[t].mem) ELSE tx[t].dur)
  BY <1>1 DEF Record, Same
<1>7. FlagsFit(s) /\ StepFits(s)
  BY <1>1, <1>6, <1>3, <1>4 DEF Same, Has, TypeInv, HistoriesOk, FlagsFit, StepFits, Valid, CommitSteps, RefreshSteps, CleanupSteps, Active, Locked
<1> HIDE DEF s
<1> QED BY <1>2, <1>5, <1>6, <1>7, OneBecomes DEF Sound

LEMMA ResetBecomes ==
  ASSUME TypeInv, NEW t \in Txs, RefreshResets(t)
  PROVE  TxsSound' /\ \E to \in {"mark", "swap"} :
           Becomes(t, to, tx[t].op, main, tx[t].base, tx[t].mem, tx[t].dur)
<1> DEFINE r == tx[t]
           to == IF r.db = None THEN "swap" ELSE "mark"
           s == [r EXCEPT !.pc = to, !.branch = main]
<1>1. r \in Record /\ FlagsFit(r) /\ StepFits(r) /\ r.pc = "reset"
  BY DEF TypeInv, TxsSound, Sound, RefreshResets
<1>2. tx' = [tx EXCEPT ![t] = s]
  BY <1>1 DEF RefreshResets, TypeInv, TxsSound, Sound, Record
<1> to \in {"mark", "swap"}
  OBVIOUS
<1> HIDE DEF to
<1>3. s \in Record
  BY <1>1 DEF Record, TypeInv, HistoriesOk, Steps, CommitSteps, RefreshSteps, CleanupSteps, Locked, Ops, SavedFlags, Flags, Milestones
<1>4. Same(s, to, tx[t].op, main, tx[t].base, tx[t].mem, tx[t].dur)
  BY <1>1 DEF Record, Same
<1>5. FlagsFit(s) /\ StepFits(s)
  BY <1>1, <1>4 DEF Same, TypeInv, HistoriesOk, FlagsFit, StepFits, Valid, CommitSteps, RefreshSteps, CleanupSteps, Active, Locked
<1> HIDE DEF s
<1> QED BY <1>2, <1>3, <1>4, <1>5, OneBecomes DEF Sound

LEMMA MarkBecomes ==
  ASSUME TypeInv, NEW t \in Txs, RefreshMarks(t)
  PROVE  TxsSound' /\ Becomes(t, "swap", tx[t].op, tx[t].branch, tx[t].base, tx[t].mem \cup {"refreshing"}, tx[t].mem \cup {"refreshing"})
<1> DEFINE r == tx[t]
           s == [r EXCEPT !.pc = "swap", !.mem = r.mem \cup {"refreshing"}, !.dur = r.mem \cup {"refreshing"}]
<1>1. r \in Record /\ FlagsFit(r) /\ StepFits(r) /\ r.pc = "mark"
  BY DEF TypeInv, TxsSound, Sound, RefreshMarks, Reaches
<1>2. tx' = [tx EXCEPT ![t] = s]
  BY <1>1 DEF RefreshMarks, TypeInv, TxsSound, Sound, Record, Reaches
<1>3. s \in Record
  BY <1>1 DEF Record, TypeInv, HistoriesOk, Steps, CommitSteps, RefreshSteps, CleanupSteps, Locked, Ops, SavedFlags, Flags, Milestones
<1>4. Same(s, "swap", tx[t].op, tx[t].branch, tx[t].base, tx[t].mem \cup {"refreshing"}, tx[t].mem \cup {"refreshing"})
  BY <1>1 DEF Record, Same
<1>5. FlagsFit(s) /\ StepFits(s)
  BY <1>1, <1>4 DEF Same, TypeInv, HistoriesOk, FlagsFit, StepFits, Valid, CommitSteps, RefreshSteps, CleanupSteps, Active, Locked
<1> HIDE DEF s
<1> QED BY <1>2, <1>3, <1>4, <1>5, OneBecomes DEF Sound

LEMMA SwapBecomes ==
  ASSUME TypeInv, NEW t \in Txs, RefreshSwaps(t)
  PROVE  TxsSound' /\ Becomes(t, "validate", tx[t].op, tx[t].branch, tx[t].base, tx[t].mem, RecordKept(t))
<1> DEFINE r == tx[t]
           s == [r EXCEPT !.pc = "validate", !.db = Reapplied(t), !.dur = RecordKept(t)]
<1>1. r \in Record /\ FlagsFit(r) /\ StepFits(r) /\ r.pc = "swap"
  BY DEF TypeInv, TxsSound, Sound, RefreshSwaps
<1>2. tx' = [tx EXCEPT ![t] = s]
  BY <1>1 DEF RefreshSwaps, TypeInv, TxsSound, Sound, Record
<1> RecordKept(t) \in SavedFlags /\ Valid(RecordKept(t)) /\ ("started" \in RecordKept(t) => "started" \in r.mem)
  BY <1>1 DEF RecordKept, Record, SavedFlags, FlagsFit, Valid, Missing
<1>3. Tree(main) \in Trees
  BY TreeType DEF TypeInv, HistoriesOk
<1>4. Reapplied(t) \in Trees
  BY <1>3 DEF Reapplied, Trees, Contents, Writers
<1>5. s \in Record
  BY <1>1, <1>3, <1>4 DEF Record, TypeInv, HistoriesOk, Steps, CommitSteps, RefreshSteps, CleanupSteps, Locked, Ops, SavedFlags, Flags, Milestones
<1>6. Same(s, "validate", tx[t].op, tx[t].branch, tx[t].base, tx[t].mem, RecordKept(t))
  BY <1>1 DEF Record, Same
<1>7. FlagsFit(s) /\ StepFits(s)
  BY <1>1, <1>6, <1>3, <1>4 DEF Same, TypeInv, HistoriesOk, FlagsFit, StepFits, Valid, CommitSteps, RefreshSteps, CleanupSteps, Active, Locked
<1> HIDE DEF s
<1> QED BY <1>2, <1>5, <1>6, <1>7, OneBecomes DEF Sound

LEMMA AbortBecomes ==
  ASSUME TypeInv, NEW t \in Txs, RefreshAborts(t)
  PROVE  TxsSound' /\ Becomes(t, "open", tx[t].op, tx[t].branch, tx[t].base, tx[t].mem, RecordKept(t))
<1> DEFINE r == tx[t]
           s == [r EXCEPT !.pc = "open", !.db = Tree(main), !.dur = RecordKept(t), !.before = None]
<1>1. r \in Record /\ FlagsFit(r) /\ StepFits(r) /\ r.pc \in {"swap", "validate"}
  BY DEF TypeInv, TxsSound, Sound, RefreshAborts
<1>2. tx' = [tx EXCEPT ![t] = s]
  BY <1>1 DEF RefreshAborts, TypeInv, TxsSound, Sound, Record
<1> RecordKept(t) \in SavedFlags /\ Valid(RecordKept(t)) /\ ("started" \in RecordKept(t) => "started" \in r.mem)
  BY <1>1 DEF RecordKept, Record, SavedFlags, FlagsFit, Valid, Missing
<1>3. Tree(main) \in Trees
  BY TreeType DEF TypeInv, HistoriesOk
<1>4. s \in Record
  BY <1>1, <1>3 DEF Record, TypeInv, HistoriesOk, Steps, CommitSteps, RefreshSteps, CleanupSteps, Locked, Ops, SavedFlags, Flags, Milestones
<1>5. Same(s, "open", tx[t].op, tx[t].branch, tx[t].base, tx[t].mem, RecordKept(t))
  BY <1>1 DEF Record, Same
<1>6. FlagsFit(s) /\ StepFits(s)
  BY <1>1, <1>5, <1>3 DEF Same, TypeInv, HistoriesOk, FlagsFit, StepFits, Valid, CommitSteps, RefreshSteps, CleanupSteps, Active, Locked
<1> HIDE DEF s
<1> QED BY <1>2, <1>4, <1>5, <1>6, OneBecomes DEF Sound

LEMMA RefreshedBecomes ==
  ASSUME TypeInv, NEW t \in Txs, RefreshEnds(t)
  PROVE  TxsSound' /\ Becomes(t, "open", tx[t].op, tx[t].branch, main, tx[t].mem \ {"refreshing"}, tx[t].mem \ {"refreshing"})
<1> DEFINE r == tx[t]
           s == [r EXCEPT !.pc = "open", !.base = main, !.before = None, !.mem = r.mem \ {"refreshing"}, !.dur = r.mem \ {"refreshing"}]
<1>1. r \in Record /\ FlagsFit(r) /\ StepFits(r) /\ r.pc = "validate"
  BY DEF TypeInv, TxsSound, Sound, RefreshEnds
<1>2. tx' = [tx EXCEPT ![t] = s]
  BY <1>1 DEF RefreshEnds, TypeInv, TxsSound, Sound, Record
<1>3. s \in Record
  BY <1>1 DEF Record, TypeInv, HistoriesOk, Steps, CommitSteps, RefreshSteps, CleanupSteps, Locked, Ops, SavedFlags, Flags, Milestones
<1>4. Same(s, "open", tx[t].op, tx[t].branch, main, tx[t].mem \ {"refreshing"}, tx[t].mem \ {"refreshing"})
  BY <1>1 DEF Record, Same
<1>5. FlagsFit(s) /\ StepFits(s)
  BY <1>1, <1>4 DEF Same, TypeInv, HistoriesOk, FlagsFit, StepFits, Valid, CommitSteps, RefreshSteps, CleanupSteps, Active, Locked
<1> HIDE DEF s
<1> QED BY <1>2, <1>3, <1>4, <1>5, OneBecomes DEF Sound

\* The commit that a transaction makes, and its branch with it.
NewCommit(t) == [by |-> t, tree |-> Written(Tree(tx[t].branch), t)]
NewBranch(t) == IF Written(Tree(tx[t].branch), t) = Tree(tx[t].branch)
                THEN tx[t].branch ELSE Append(tx[t].branch, NewCommit(t))

LEMMA NewBranchType ==
  ASSUME NEW t \in Txs, tx[t].branch \in Seq(Commits), tx[t].branch # <<>>
  PROVE  /\ NewCommit(t) \in Commits /\ NewCommit(t).by = t
         /\ NewBranch(t) \in Seq(Commits) /\ NewBranch(t) # <<>>
<1>1. Tree(tx[t].branch) \in Trees
  BY TreeType
<1>2. Written(Tree(tx[t].branch), t) \in Trees
  BY <1>1 DEF Written, Trees, Contents, Writers
<1>3. NewCommit(t) \in Commits /\ NewCommit(t).by = t
  BY <1>2 DEF NewCommit, Commits, Writers
<1> QED BY <1>3, PrefixOfAppended DEF NewBranch

LEMMA CreateBecomes ==
  ASSUME TypeInv, NEW t \in Txs, CommitCreates(t)
  PROVE  TxsSound' /\ Becomes(t, "created", tx[t].op, NewBranch(t), tx[t].base, tx[t].mem, tx[t].dur)
<1> DEFINE r == tx[t]
           s == [r EXCEPT !.pc = "created", !.branch = NewBranch(t)]
<1>1. r \in Record /\ FlagsFit(r) /\ StepFits(r) /\ r.pc = "create"
  BY DEF TypeInv, TxsSound, Sound, CommitCreates
<1>2. tx' = [tx EXCEPT ![t] = s]
  BY <1>1 DEF CommitCreates, TypeInv, TxsSound, Sound, Record, NewBranch, NewCommit
<1>3. NewBranch(t) \in Seq(Commits) /\ NewBranch(t) # <<>>
  BY <1>1, NewBranchType DEF Record, StepFits, Active, Locked, CommitSteps
<1>4. s \in Record
  BY <1>1, <1>3 DEF Record, TypeInv, HistoriesOk, Steps, CommitSteps, RefreshSteps, CleanupSteps, Locked, Ops, SavedFlags, Flags, Milestones
<1>5. Same(s, "created", tx[t].op, NewBranch(t), tx[t].base, tx[t].mem, tx[t].dur)
  BY <1>1 DEF Record, Same
<1>6. FlagsFit(s) /\ StepFits(s)
  BY <1>1, <1>5, <1>3 DEF Same, TypeInv, HistoriesOk, FlagsFit, StepFits, Valid, CommitSteps, RefreshSteps, CleanupSteps, Active, Locked
<1> HIDE DEF s
<1> QED BY <1>2, <1>4, <1>5, <1>6, OneBecomes DEF Sound


\* A change that is recorded: the kind and the element are one of the log's entries.
LEMMA RecordsBecomes ==
  ASSUME TypeInv, NEW t \in Txs, NEW kind \in Kinds, NEW k \in Keys,
         NEW value \in Writers \cup {Absent}, Records(t, kind, k, value)
  PROVE  /\ TxsSound' /\ TouchedType'
         /\ Becomes(t, "open", tx[t].op, tx[t].branch, tx[t].base, tx[t].mem, tx[t].dur)
<1> DEFINE r == tx[t]
           log == r.log \cup {<<kind, k>>}
           db == [r.db EXCEPT ![k] = value]
           stale == Stale(t, kind, k)
           s == [r EXCEPT !.log = log, !.stale = stale, !.db = db]
<1>1. r \in Record /\ FlagsFit(r) /\ StepFits(r) /\ r.pc = "open" /\ r.db \in Trees
  BY DEF TypeInv, TxsSound, Sound, Records, Usable, Record
<1>2. tx' = [tx EXCEPT ![t] = s]
  BY <1>1 DEF Records, TypeInv, TxsSound, Sound, Record
<1>3. log \in SUBSET (Kinds \X Keys) /\ db \in Trees
  BY <1>1 DEF Record, Trees, Contents
<1> stale \in SUBSET Keys
  BY <1>1 DEF Stale, Record
<1> HIDE DEF log, db, stale
<1>4. s \in Record
  BY <1>1, <1>3 DEF Record
<1>5. Same(s, "open", tx[t].op, tx[t].branch, tx[t].base, tx[t].mem, tx[t].dur)
  BY <1>1 DEF Record, Same
<1>6. FlagsFit(s) /\ StepFits(s)
  BY <1>1, <1>5 DEF Same, FlagsFit, StepFits
<1>7. TouchedType'
  <2> DEFINE old == touched[t][k]
             new == [saw |-> IF old = None THEN r.db[k] ELSE old.saw, want |-> value]
  <2>1. old \in {None} \cup Touches /\ r.db[k] \in Contents
    BY <1>1 DEF TypeInv, TouchedType, Trees
  <2>2. new \in Touches
    BY <2>1 DEF Touches, Contents
  <2>3. touched \in [Txs -> [Keys -> {None} \cup Touches]]
    BY DEF TypeInv, TouchedType
  <2>4. touched' = [touched EXCEPT ![t][k] = new]
    BY DEF Records
  <2> HIDE DEF new
  <2>5. touched' \in [Txs -> [Keys -> {None} \cup Touches]]
    BY <2>2, <2>3, <2>4
  <2> QED BY <2>5 DEF TouchedType
<1> HIDE DEF s
<1> QED BY <1>2, <1>4, <1>5, <1>6, <1>7, OneBecomes DEF Sound

LEMMA MutateBecomes ==
  ASSUME TypeInv, NEW t \in Txs, Mutate(t)
  PROVE  /\ TxsSound' /\ TouchedType'
         /\ Becomes(t, "open", tx[t].op, tx[t].branch, tx[t].base, tx[t].mem, tx[t].dur)
         /\ UNCHANGED <<main, store, events, lapses>> /\ Unsynced
<1>1. PICK k \in Keys : CreateEntity(t, k) \/ UpdateEntity(t, k) \/ DeleteEntity(t, k)
  BY DEF Mutate
<1>2. PICK kind \in Kinds, value \in Writers \cup {Absent} : Records(t, kind, k, value)
  BY <1>1 DEF CreateEntity, UpdateEntity, DeleteEntity, Kinds, Writers
<1>3. UNCHANGED <<main, store, events, lapses>> /\ Unsynced
  BY <1>2 DEF Records
<1> QED BY <1>2, <1>3, RecordsBecomes

\* A failed step of a commit: what it leaves in memory and in the record are
\* flags the store would accept, and a load of main.lbug that may have been
\* done keeps its flag while the commit is on the branch.
LEMMA FailedCommitBecomes ==
  ASSUME TypeInv, NEW t \in Txs, FailCommit(t)
  PROVE  /\ TxsSound'
         /\ \E mem \in SUBSET Flags, dur \in SavedFlags :
              /\ Becomes(t, "open", tx[t].op, tx[t].branch, tx[t].base, mem, dur)
              /\ \/ store' = store
                 \/ /\ tx[t].pc = "load" /\ store' = Tree(tx[t].branch)
                    /\ Exists(t) => "rehydrated" \in mem
              /\ Exists(t) /\ tx[t].pc # "merged" /\ "rehydrated" \in tx[t].mem
                   => "rehydrated" \in mem
              /\ Exists(t) /\ "started" \in tx[t].dur => "started" \in dur
              /\ Exists(t) /\ tx[t].pc = "merged" => "merged" \in mem
              /\ "created" \in mem \cup dur =>
                   "created" \in tx[t].mem \cup tx[t].dur \/ Exists(t) \/ tx[t].pc = "created"
              /\ "merged" \in mem \cup dur => "merged" \in tx[t].dur \/ tx[t].pc = "merged"
<1> DEFINE r == tx[t]
           Left(begun) == IF begun THEN r.mem \cup {"rehydrated"} ELSE Residue(t)
           After(begun) == Reconciled(t, Left(begun))
           Mem(begun, saved) == IF saved \/ Exists(t) THEN After(begun) ELSE Left(begun)
           Dur(begun, saved) == IF saved THEN After(begun) ELSE IF begun THEN Left(begun) ELSE r.dur
<1>1. r \in Record /\ FlagsFit(r) /\ StepFits(r) /\ r.pc \in CommitSteps
  BY DEF TypeInv, TxsSound, Sound, FailCommit
<1>2. PICK begun \in BOOLEAN :
        /\ begun => r.pc = "load"
        /\ \E saved \in {Valid(After(begun)), FALSE} :
             tx' = [tx EXCEPT ![t].pc = "open", ![t].mem = Mem(begun, saved), ![t].dur = Dur(begun, saved)]
        /\ store' \in {store} \cup IF begun THEN {Tree(r.branch)} ELSE {}
  BY Zenon DEF FailCommit
<1>3. PICK saved \in BOOLEAN :
        /\ saved => Valid(After(begun))
        /\ tx' = [tx EXCEPT ![t].pc = "open", ![t].mem = Mem(begun, saved), ![t].dur = Dur(begun, saved)]
  BY <1>2
<1> DEFINE left == Left(begun)  after == After(begun)  mem == Mem(begun, saved)
           dur == Dur(begun, saved)
           s == [r EXCEPT !.pc = "open", !.mem = mem, !.dur = dur]
<1>4. /\ left \in SUBSET Flags /\ Valid(left)
      /\ r.pc # "merged" => r.mem \subseteq left
      /\ r.pc = "merged" => "merged" \in left
      /\ "started" \in r.mem => "started" \in left
      /\ "created" \in left => "created" \in r.mem \/ r.pc = "created"
      /\ "merged" \in left => r.pc = "merged"
      /\ begun => "rehydrated" \in left
  <2>1. CASE begun
    <3>1. left = r.mem \cup {"rehydrated"} /\ r.pc = "load"
      BY <1>2, <2>1
    <3>2. r.mem \in SUBSET Flags /\ Valid(r.mem) /\ "created" \in r.mem /\ "merged" \notin r.mem
      BY <1>1, <3>1 DEF Record, FlagsFit
    <3> HIDE DEF left
    <3> QED BY <3>1, <3>2 DEF Valid, Flags, Milestones
  <2>2. CASE ~begun
    <3>1. left = Residue(t)
      BY <2>2
    <3>2. Residue(t) = CASE r.pc = "start" -> r.mem \cup {"started"}
                         [] r.pc = "created" -> r.mem \cup {"created"}
                         [] r.pc = "merged" -> (r.mem \cup {"merged"}) \ {"rehydrated"}
                         [] OTHER -> r.mem
      BY DEF Residue
    <3>3. /\ Residue(t) \in SUBSET Flags /\ Valid(Residue(t))
          /\ r.pc # "merged" => r.mem \subseteq Residue(t)
          /\ r.pc = "merged" => "merged" \in Residue(t)
          /\ "started" \in r.mem => "started" \in Residue(t)
          /\ "created" \in Residue(t) => "created" \in r.mem \/ r.pc = "created"
          /\ "merged" \in Residue(t) => r.pc = "merged"
      BY <1>1, <3>2 DEF Record, FlagsFit, Valid, Flags, Milestones, CommitSteps
    <3> QED BY <2>2, <3>1, <3>3
  <2> QED BY <2>1, <2>2
<1>5. /\ after \in SUBSET Flags
      /\ saved \/ Exists(t) => Valid(after)
      /\ Exists(t) => left \subseteq after /\ "started" \in after
      /\ "created" \in after => Exists(t)
      /\ "merged" \in after => "merged" \in left
  BY <1>3, <1>4, ReconciledFits DEF Reconciled, Void, Milestones
<1>6. /\ mem \in SUBSET Flags /\ Valid(mem) /\ dur \in SavedFlags /\ Valid(dur)
      /\ "started" \in dur => "started" \in mem
      /\ Exists(t) => left \subseteq mem
      /\ Exists(t) /\ "started" \in r.dur => "started" \in dur
      /\ mem \in {left, after} /\ dur \in {left, after, r.dur}
  <2> HIDE DEF left, after
  <2>1. /\ mem = IF saved \/ Exists(t) THEN after ELSE left
        /\ dur = IF saved THEN after ELSE IF begun THEN left ELSE r.dur
    BY DEF left, after
  <2>2. "started" \in r.dur => "started" \in left
    BY <1>1, <1>4 DEF FlagsFit
  <2> HIDE DEF mem, dur
  <2> QED BY <1>1, <1>4, <1>5, <2>1, <2>2 DEF Record, SavedFlags, FlagsFit
<1>7. /\ "created" \in mem \cup dur => "created" \in r.mem \cup r.dur \/ Exists(t) \/ r.pc = "created"
      /\ "merged" \in mem \cup dur => "merged" \in r.dur \/ r.pc = "merged"
  <2> HIDE DEF mem, dur, left, after
  <2> QED BY <1>4, <1>5, <1>6
<1> HIDE DEF mem, dur, left, after
<1>8. tx' = [tx EXCEPT ![t] = s]
  BY <1>1, <1>3 DEF TypeInv, TxsSound, Sound, Record, mem, dur
<1>9. s \in Record
  BY <1>1, <1>6 DEF Record, SavedFlags, Steps
<1>10. Same(s, "open", r.op, r.branch, r.base, mem, dur)
  BY <1>1 DEF Record, Same
<1>11. FlagsFit(s) /\ StepFits(s)
  BY <1>1, <1>6, <1>10 DEF Same, FlagsFit, StepFits, CommitSteps, RefreshSteps, CleanupSteps, Active, Locked
<1> HIDE DEF s
<1>12. TxsSound' /\ Becomes(t, "open", r.op, r.branch, r.base, mem, dur)
  BY <1>8, <1>9, <1>10, <1>11, OneBecomes DEF Sound
<1>13. /\ store' = store \/ (r.pc = "load" /\ store' = Tree(r.branch) /\ (Exists(t) => "rehydrated" \in mem))
       /\ Exists(t) /\ r.pc # "merged" /\ "rehydrated" \in r.mem => "rehydrated" \in mem
  BY <1>2, <1>4, <1>6
<1>14. Exists(t) /\ r.pc = "merged" => "merged" \in mem
  BY <1>4, <1>6
<1> QED BY <1>6, <1>7, <1>12, <1>13, <1>14

LEMMA FailedRefreshBecomes ==
  ASSUME TypeInv, NEW t \in Txs, FailRefresh(t)
  PROVE  /\ TxsSound'
         /\ \E mem \in SUBSET Flags, dur \in {tx[t].dur, RecordKept(t)} :
              /\ Becomes(t, "open", tx[t].op, tx[t].branch, tx[t].base, mem, dur)
              /\ "rehydrated" \notin mem /\ mem \subseteq tx[t].mem \cup {"refreshing"}
<1> DEFINE r == tx[t]
<1>1. r \in Record /\ FlagsFit(r) /\ StepFits(r) /\ r.pc \in RefreshSteps
  BY DEF TypeInv, TxsSound, Sound, FailRefresh
<1>2. PICK marked \in SUBSET {"refreshing"}, db \in {r.db, Tree(main), None}, dur \in {r.dur, RecordKept(t)} :
        tx' = [tx EXCEPT ![t].pc = "open", ![t].before = None, ![t].mem = @ \cup marked,
                         ![t].db = db, ![t].dur = dur]
  BY DEF FailRefresh
<1> DEFINE mem == r.mem \cup marked
           s == [r EXCEPT !.pc = "open", !.before = None, !.mem = mem, !.db = db, !.dur = dur]
<1>3. tx' = [tx EXCEPT ![t] = s]
  BY <1>1, <1>2 DEF TypeInv, TxsSound, Sound, Record
<1>4. db \in Trees \cup {None}
  BY <1>1, TreeType DEF Record, TypeInv, HistoriesOk
<1>5. mem \in SUBSET Flags /\ Valid(mem) /\ "rehydrated" \notin mem /\ r.mem \subseteq mem
      /\ mem \subseteq r.mem \cup {"refreshing"}
  BY <1>1 DEF Record, FlagsFit, Valid, Flags, RefreshSteps
<1> dur \in SavedFlags /\ Valid(dur) /\ ("started" \in dur => "started" \in r.mem)
  BY <1>1 DEF RecordKept, Record, SavedFlags, FlagsFit, Valid, Missing
<1> HIDE DEF mem
<1>6. s \in Record
  BY <1>1, <1>4, <1>5 DEF Record, Steps
<1>7. Same(s, "open", r.op, r.branch, r.base, mem, dur)
  BY <1>1 DEF Record, Same
<1>8. FlagsFit(s) /\ StepFits(s)
  BY <1>1, <1>5, <1>7 DEF Same, FlagsFit, StepFits, CommitSteps, RefreshSteps, CleanupSteps, Active, Locked
<1> HIDE DEF s
<1>9. TxsSound' /\ Becomes(t, "open", r.op, r.branch, r.base, mem, dur)
  BY <1>3, <1>6, <1>7, <1>8, OneBecomes DEF Sound
<1> QED BY <1>5, <1>9

LEMMA NoTxIs ==
  /\ NoTx \in Sound /\ NoTx.pc = "new" /\ NoTx.op = "none" /\ NoTx.branch = <<>>
  /\ NoTx.base = <<>> /\ NoTx.mem = {} /\ NoTx.dur = {}
<1>1. <<>> \in Seq(Commits)
  OBVIOUS
<1>2. /\ NoTx \in Record /\ NoTx.pc = "new" /\ NoTx.op = "none" /\ NoTx.branch = <<>>
      /\ NoTx.base = <<>> /\ NoTx.mem = {} /\ NoTx.dur = {}
  BY <1>1 DEF NoTx, Record, SavedFlags, Steps, Ops
<1> QED BY <1>2 DEF Sound, FlagsFit, StepFits, Valid, CommitSteps, RefreshSteps, CleanupSteps, Active, Locked

LEMMA DeletedBecomes ==
  ASSUME TypeInv, NEW t \in Txs, DeleteBranch(t)
  PROVE  /\ TxsSound'
         /\ tx[t].pc = "delete"
         /\ \E next \in AfterCleanup[tx[t].op] :
              next \in {"wait"} \cup Outcomes /\ Becomes(t, next, "none", <<>>, <<>>, {}, {})
<1> DEFINE r == tx[t]
<1>1. r \in Record /\ StepFits(r) /\ r.pc = "delete"
  BY DEF TypeInv, TxsSound, Sound, DeleteBranch
<1>2. r.op \in {"commit", "resume", "empty", "rollback", "collect"}
  BY <1>1 DEF StepFits, CleanupSteps, Record, Ops
<1>3. PICK next \in AfterCleanup[r.op] : tx' = [tx EXCEPT ![t] = [NoTx EXCEPT !.pc = next]]
  BY DEF DeleteBranch
<1> DEFINE s == [NoTx EXCEPT !.pc = next]
<1>4. next \in {"wait"} \cup Outcomes
  BY <1>2, <1>3 DEF AfterCleanup, Outcomes
<1>5. s \in Record /\ Same(s, next, "none", <<>>, <<>>, {}, {})
  <2>1. /\ NoTx \in Record /\ NoTx.op = "none" /\ NoTx.branch = <<>> /\ NoTx.base = <<>>
        /\ NoTx.mem = {} /\ NoTx.dur = {}
    BY NoTxIs DEF Sound
  <2>2. next \in Steps
    BY <1>4 DEF Steps
  <2> QED BY <2>1, <2>2 DEF Record, Same
<1>6. FlagsFit(s) /\ StepFits(s)
  BY <1>4, <1>5 DEF Same, FlagsFit, StepFits, Valid, CommitSteps, RefreshSteps, CleanupSteps, Active, Locked, Outcomes
<1> HIDE DEF s
<1>7. TxsSound' /\ Becomes(t, next, "none", <<>>, <<>>, {}, {})
  BY <1>3, <1>5, <1>6, OneBecomes DEF Sound, s
<1> QED BY <1>1, <1>4, <1>7

\* What the sync worker tells callers changes how they wait and nothing else.
LEMMA AnswersBecome ==
  ASSUME TypeInv, NEW served \in SUBSET Waiting, NEW ok \in BOOLEAN, Answers(served, ok)
  PROVE  /\ TxsSound'
         /\ \A u \in Txs :
              IF u \in served
                THEN /\ tx[u].pc = "wait" /\ tx'[u].op = "none"
                     /\ tx'[u].mem = {} /\ tx'[u].branch = tx[u].branch /\ tx'[u].db = tx[u].db /\ tx'[u].dur = tx[u].dur
                     /\ tx'[u].pc = IF ok THEN "acked" ELSE "committed"
                ELSE tx'[u] = tx[u]
<1> DEFINE to == IF ok THEN "acked" ELSE "committed"
           s(u) == [tx[u] EXCEPT !.pc = to]
<1>1. tx' = [u \in Txs |-> IF u \in served THEN s(u) ELSE tx[u]]
  BY DEF Answers
<1>2. ASSUME NEW u \in served
      PROVE  /\ s(u) \in Sound /\ tx[u].pc = "wait" /\ s(u).pc = to
             /\ s(u).op = "none" /\ s(u).mem = {} /\ s(u).branch = tx[u].branch /\ s(u).db = tx[u].db /\ s(u).dur = tx[u].dur
  <2>1. tx[u] \in Record /\ tx[u].pc = "wait" /\ FlagsFit(tx[u]) /\ StepFits(tx[u])
    BY DEF Waiting, TypeInv, TxsSound, Sound
  <2>2. to \in Outcomes
    BY DEF Outcomes
  <2> HIDE DEF to
  <2>3. s(u) \in Record /\ s(u).db = tx[u].db
        /\ Same(s(u), to, tx[u].op, tx[u].branch, tx[u].base, tx[u].mem, tx[u].dur)
    BY <2>1, <2>2 DEF Record, Same, Steps
  <2> HIDE DEF s
  <2>4. tx[u].mem = {} /\ tx[u].op = "none"
    BY <2>1 DEF StepFits, Active, Locked, CommitSteps, RefreshSteps, CleanupSteps
  <2>5. FlagsFit(s(u)) /\ StepFits(s(u))
    BY <2>1, <2>2, <2>3, <2>4 DEF Same, FlagsFit, StepFits, Outcomes, CommitSteps, RefreshSteps,
       CleanupSteps, Active, Locked
  <2> QED BY <2>1, <2>3, <2>4, <2>5 DEF Sound, Same
<1> HIDE DEF s
<1>3. TxsSound'
  BY <1>1, <1>2 DEF TypeInv, TxsSound, Waiting
<1> QED BY <1>1, <1>2, <1>3 DEF Waiting

LEMMA RecoveredIs ==
  ASSUME TypeInv, NEW u \in Txs
  PROVE  /\ Recovered(u) \in Sound
         /\ \/ /\ Survives(u) /\ tx[u].pc \in Active
               /\ Same(Recovered(u), "open", "none", tx[u].branch, tx[u].base,
                       tx[u].dur \ {"hydrated"}, tx[u].dur)
            \/ /\ tx[u].pc \in {"new"} \cup Outcomes /\ Recovered(u) = tx[u]
            \/ /\ ~Survives(u) /\ tx[u].pc \notin {"new"} \cup Outcomes
               /\ Same(Recovered(u), IF tx[u].pc = "wait" THEN "committed" ELSE "lost",
                       "none", <<>>, <<>>, {}, {})
<1> DEFINE r == tx[u]  mem == r.dur \ {"hydrated"}  log == Difference(u)
           to == IF r.pc = "wait" THEN "committed" ELSE "lost"
           s == [r EXCEPT !.pc = "open", !.op = "none", !.before = None, !.log = log, !.stale = {}, !.mem = mem]
           n == [NoTx EXCEPT !.pc = to]
<1>1. r \in Record /\ FlagsFit(r) /\ StepFits(r) /\ r \in Sound
  BY DEF TypeInv, TxsSound, Sound
<1>2. CASE Survives(u)
  <2>1. Recovered(u) = s /\ r.pc \in Active
    BY <1>2 DEF Recovered, Survives, Active
  <2>2. log \in SUBSET (Kinds \X Keys)
    BY DEF Difference, Kinds
  <2>3. mem \in SUBSET Flags /\ Valid(mem) /\ Valid(r.dur) /\ ("started" \in r.dur => "started" \in mem)
    BY <1>1, <1>2 DEF Record, SavedFlags, Survives, FlagsFit, Valid
  <2> HIDE DEF log, mem
  <2>4. s \in Record /\ Same(s, "open", "none", r.branch, r.base, mem, r.dur)
    BY <1>1, <2>2, <2>3 DEF Record, Same, Steps, Ops
  <2> HIDE DEF s
  <2>5. FlagsFit(s) /\ StepFits(s)
    BY <1>1, <2>1, <2>3, <2>4 DEF Same, FlagsFit, StepFits, CommitSteps, RefreshSteps,
       CleanupSteps, Active, Locked
  <2> QED BY <1>2, <2>1, <2>4, <2>5 DEF Sound, mem
<1>3. CASE ~Survives(u) /\ r.pc \in {"new"} \cup Outcomes
  BY <1>1, <1>3 DEF Recovered
<1>4. CASE ~Survives(u) /\ r.pc \notin {"new"} \cup Outcomes
  <2>1. Recovered(u) = n
    BY <1>4 DEF Recovered
  <2>2. to \in Steps /\ to \notin Active
    BY DEF Steps, Outcomes, Active, Locked, CommitSteps, RefreshSteps, CleanupSteps
  <2> HIDE DEF to
  <2>3. n \in Record /\ Same(n, to, "none", <<>>, <<>>, {}, {})
    BY <2>2, NoTxIs DEF Sound, Record, Same
  <2> HIDE DEF n
  <2>4. FlagsFit(n) /\ StepFits(n)
    BY <2>2, <2>3 DEF Same, FlagsFit, StepFits, Valid, Active, Locked, CommitSteps, RefreshSteps, CleanupSteps
  <2> QED BY <1>4, <2>1, <2>3, <2>4 DEF Sound, to
<1> QED BY <1>2, <1>3, <1>4

LEMMA CrashTypes ==
  ASSUME TypeInv, Crash
  PROVE  TypeInv'
<1>1. TxsSound'
  <2>1. tx' = [t \in Txs |-> Recovered(t)]
    BY DEF Crash
  <2> QED BY <2>1, RecoveredIs DEF TxsSound
<1>2. HistoriesOk' /\ SyncType' /\ events' \in 0 .. MaxEvents
  <2>1. Tree(main) \in Trees
    BY TreeType DEF TypeInv, HistoriesOk
  <2>2. HistoriesOk'
    BY <2>1 DEF Crash, TypeInv, HistoriesOk
  <2>3. SyncType'
    BY DEF Crash, TypeInv, SyncType
  <2> QED BY <2>2, <2>3, GraphAssumption DEF Crash, Disturbed, TypeInv
<1>3. TouchedType'
  <2>1. touched' = [t \in Txs |-> [k \in Keys |->
                     IF Survives(t) /\ Forgets(t, k) THEN None ELSE touched[t][k]]]
    BY DEF Crash
  <2> QED BY <2>1 DEF TypeInv, TouchedType
<1>4. lapses' \subseteq Lapses
  <2>1. \A t \in Txs : <<t, "reopen">> \in Lapses /\ <<t, "changes">> \in Lapses
    BY DEF Lapses
  <2> QED BY <2>1 DEF Crash, TypeInv
<1> QED BY <1>1, <1>2, <1>3, <1>4 DEF TypeInv

-----------------------------------------------------------------------------
(* Every step keeps the types, and the callers that a cycle of the sync     *)
(* worker serves wait until it answers them.                               *)

ServedWait == sync.serving \subseteq Waiting
SyncFits ==
  /\ sync.at \in {"pushing", "pushed"} => 0 < sync.gen /\ sync.gen <= sync.pending
  /\ sync.at \in {"idle", "push"} => sync.gen = 0
  /\ sync.at = "idle" => sync.serving = {}
BaseInv == TypeInv /\ ServedWait /\ SyncFits

LEMMA LapsesType ==
  ASSUME NEW t \in Txs, NEW how \in {"changes", "reopen", "hydrate"}
  PROVE  {<<t, how>>} \subseteq Lapses
BY DEF Lapses

\* The sync worker's state with these values.
SyncIs(at, pending, gen, serving, unhydrated) ==
  /\ SyncType'
  /\ sync'.at = at /\ sync'.pending = pending /\ sync'.gen = gen
  /\ sync'.serving = serving /\ sync'.unhydrated = unhydrated /\ sync'.skipped = sync.skipped

LEMMA PushNeededType ==
  ASSUME TypeInv, SetPushNeeded
  PROVE  SyncIs(sync.at, sync.pending + 1, sync.gen, sync.serving, sync.unhydrated)
<1>1. sync \in [at : {"idle", "push", "pushing", "pushed"}, pending : Nat,
                gen : Nat, serving : SUBSET Txs, unhydrated : BOOLEAN, skipped : Nat]
  BY DEF TypeInv, SyncType
<1>2. sync.pending + 1 \in Nat
  BY <1>1
<1>3. sync' = [sync EXCEPT !.pending = sync.pending + 1]
  BY DEF SetPushNeeded
<1> QED BY <1>1, <1>2, <1>3 DEF SyncIs, SyncType

\* A step of t leaves the records of the others alone, and at most asks for a push.
Alone(t) ==
  /\ \A u \in Txs \ {t} : tx'[u] = tx[u]
  /\ \/ sync' = sync
     \/ SyncIs(sync.at, sync.pending + 1, sync.gen, sync.serving, sync.unhydrated)

LEMMA CalledTypes ==
  ASSUME TypeInv, NEW t \in Txs, Called(t) PROVE TypeInv' /\ Alone(t)
<1>1. Tree(main) \in Trees /\ {<<t, "hydrate">>} \subseteq Lapses
  BY TreeType, LapsesType DEF TypeInv, HistoriesOk
<1>2. CASE BeginTransaction(t)
  BY <1>2, BeginBecomes DEF BeginTransaction, Alone, Becomes, Unsynced, TypeInv, HistoriesOk, SyncType, TouchedType
<1>3. CASE Mutate(t)
  BY <1>3, MutateBecomes DEF Alone, Becomes, Unsynced, TypeInv, HistoriesOk, SyncType
<1>4. CASE RollbackTransaction(t)
  BY <1>1, <1>4, RollbackBecomes DEF RollbackTransaction, CleansUp, RestoredStore, Unsynced,
     Alone, Becomes, TypeInv, HistoriesOk, SyncType, TouchedType
<1>5. CASE RefreshBegins(t)
  BY <1>1, <1>5, RefreshBegunBecomes DEF RefreshBegins, UnloadedStore, Alone, Becomes, Unsynced, TypeInv, HistoriesOk, SyncType, TouchedType
<1>6. CASE CommitResumesCleanup(t)
  <2>1. SyncIs(sync.at, sync.pending + 1, sync.gen, sync.serving, sync.unhydrated) /\ SyncType'
    BY <1>6, PushNeededType DEF CommitResumesCleanup, SyncIs
  <2> QED BY <1>1, <1>6, <2>1, ResumeBecomes DEF CommitResumesCleanup, CleansUp, RestoredStore,
      Alone, Becomes, TypeInv, HistoriesOk, TouchedType
<1>7. CASE CommitOfNothing(t)
  BY <1>1, <1>7, EmptyBecomes DEF CommitOfNothing, CleansUp, RestoredStore, Unsynced,
     Alone, Becomes, TypeInv, HistoriesOk, SyncType, TouchedType
<1>8. CASE CommitFindsMerge(t)
  BY <1>8, FoundBecomes DEF CommitFindsMerge, Alone, Becomes, Unsynced, TypeInv, HistoriesOk, SyncType, TouchedType
<1>9. CASE CommitIsNotUpToDate(t)
  BY <1>9, RefusedBecomes DEF CommitIsNotUpToDate, Alone, Becomes, Unsynced, TypeInv, HistoriesOk, SyncType, TouchedType
<1>10. CASE CommitBegins(t)
  BY <1>1, <1>10, BeginsBecomes DEF CommitBegins, Alone, Becomes, Unsynced, TypeInv, HistoriesOk, SyncType, TouchedType
<1>11. CASE RefreshIsNotSaved(t)
  BY <1>1, <1>11 DEF RefreshIsNotSaved, UnloadedStore, Alone, Unsynced, TypeInv, TxsSound, HistoriesOk, SyncType, TouchedType
<1> QED BY <1>2, <1>3, <1>4, <1>5, <1>6, <1>7, <1>8, <1>9, <1>10, <1>11 DEF Called

LEMMA CommitTypes ==
  ASSUME TypeInv, NEW t \in Txs, InCommit(t) PROVE TypeInv' /\ Alone(t)
<1>1. CASE CommitStarts(t)
  BY <1>1, StartBecomes DEF CommitStarts, Alone, Becomes, Unsynced, TypeInv, HistoriesOk, SyncType, TouchedType
<1>2. CASE CommitCreates(t)
  BY <1>2, CreateBecomes, LapsesType DEF CommitCreates, Alone, Becomes, Unsynced, TypeInv, HistoriesOk, SyncType, TouchedType
<1>3. CASE CommitRecords(t)
  BY <1>3, RecordBecomes DEF CommitRecords, Alone, Becomes, Unsynced, TypeInv, HistoriesOk, SyncType, TouchedType
<1> tx[t] \in Record /\ StepFits(tx[t])
  BY DEF TypeInv, TxsSound, Sound
<1>4. CASE CommitLoads(t)
  <2>1. Tree(tx[t].branch) \in Trees
    BY <1>4, TreeType DEF CommitLoads, Reaches, Record, StepFits, Active, Locked, CommitSteps
  <2> QED BY <1>4, <2>1, LoadBecomes DEF CommitLoads, Alone, Becomes, Unsynced, TypeInv, HistoriesOk, SyncType, TouchedType
<1>5. CASE CommitMerges(t)
  <2>1. tx[t].branch \in Seq(Commits) /\ tx[t].branch # <<>>
    BY <1>5 DEF CommitMerges, Record, StepFits, Active, Locked, CommitSteps
  <2> QED BY <1>5, <2>1, MergeBecomes DEF CommitMerges, Alone, Becomes, Unsynced, TypeInv, HistoriesOk, SyncType, TouchedType
<1>6. CASE CommitRecordsMerge(t)
  BY <1>6, MergedBecomes DEF CommitRecordsMerge, Alone, Becomes, Unsynced, TypeInv, HistoriesOk, SyncType, TouchedType
<1> QED BY <1>1, <1>2, <1>3, <1>4, <1>5, <1>6 DEF InCommit

LEMMA RefreshTypes ==
  ASSUME TypeInv, NEW t \in Txs, InRefresh(t) PROVE TypeInv' /\ Alone(t)
<1>1. {<<t, "changes">>} \subseteq Lapses
  BY LapsesType
<1>2. CASE RefreshResets(t)
  BY <1>2, ResetBecomes DEF RefreshResets, Alone, Becomes, Unsynced, TypeInv, HistoriesOk, SyncType, TouchedType
<1>3. CASE RefreshMarks(t)
  BY <1>3, MarkBecomes DEF RefreshMarks, Alone, Becomes, Unsynced, TypeInv, HistoriesOk, SyncType, TouchedType
<1>4. CASE RefreshSwaps(t)
  BY <1>1, <1>4, SwapBecomes DEF RefreshSwaps, Alone, Becomes, Unsynced, TypeInv, HistoriesOk, SyncType, TouchedType
<1>5. CASE RefreshAborts(t)
  BY <1>1, <1>5, AbortBecomes DEF RefreshAborts, Alone, Becomes, Unsynced, TypeInv, HistoriesOk, SyncType, TouchedType
<1>6. CASE RefreshEnds(t)
  BY <1>6, RefreshedBecomes DEF RefreshEnds, Alone, Becomes, Unsynced, TypeInv, HistoriesOk, SyncType, TouchedType
<1> QED BY <1>2, <1>3, <1>4, <1>5, <1>6 DEF InRefresh

LEMMA CleanupTypes ==
  ASSUME TypeInv, NEW t \in Txs, DropBranchDB(t) \/ DeleteBranch(t) \/ Collect(t)
  PROVE  TypeInv' /\ Alone(t)
<1>1. CASE DropBranchDB(t)
  BY <1>1, DropBecomes DEF DropBranchDB, Alone, Becomes, Unsynced, TypeInv, HistoriesOk, SyncType, TouchedType
<1>2. CASE DeleteBranch(t)
  <2>1. SyncType' /\ \/ sync' = sync
                     \/ SyncIs(sync.at, sync.pending + 1, sync.gen, sync.serving, sync.unhydrated)
    BY <1>2, PushNeededType DEF DeleteBranch, SyncIs, TypeInv, SyncType
  <2> QED BY <1>2, <2>1, DeletedBecomes DEF DeleteBranch, Alone, Becomes, TypeInv, HistoriesOk, TouchedType
<1>3. CASE Collect(t)
  <2>1. Tree(main) \in Trees
    BY TreeType DEF TypeInv, HistoriesOk
  <2> QED BY <1>3, <2>1, CollectBecomes DEF Collect, RestoredStore, Alone, Becomes, Unsynced, TypeInv, HistoriesOk, SyncType, TouchedType
<1> QED BY <1>1, <1>2, <1>3

LEMMA DisturbedType == ASSUME TypeInv, Disturbed PROVE events' \in 0 .. MaxEvents
BY GraphAssumption DEF TypeInv, Disturbed

LEMMA FailTypes ==
  ASSUME TypeInv, NEW t \in Txs, Fails(t) PROVE TypeInv' /\ Alone(t)
<1>0. events' \in 0 .. MaxEvents /\ {<<t, "changes">>} \subseteq Lapses
  BY DisturbedType, LapsesType DEF Fails, FailCommit, FailCleanup, FailRefresh
<1>1. CASE FailCommit(t)
  <2>1. store' \in Trees
    <3>1. tx[t].pc = "load" => Tree(tx[t].branch) \in Trees
      BY TreeType DEF TypeInv, TxsSound, Sound, Record, StepFits, Active, Locked, CommitSteps
    <3> QED BY <1>1, <3>1, FailedCommitBecomes DEF TypeInv, HistoriesOk
  <2> QED BY <1>0, <1>1, <2>1, FailedCommitBecomes DEF FailCommit, Alone, Becomes, Unsynced, TypeInv, HistoriesOk, SyncType, TouchedType
<1>2. CASE FailCleanup(t)
  BY <1>0, <1>2, FailedCleanupBecomes DEF FailCleanup, Alone, Becomes, Unsynced, TypeInv, HistoriesOk, SyncType, TouchedType
<1>3. CASE FailRefresh(t)
  BY <1>0, <1>3, FailedRefreshBecomes DEF FailRefresh, Alone, Becomes, Unsynced, TypeInv, HistoriesOk, SyncType, TouchedType
<1> QED BY <1>1, <1>2, <1>3 DEF Fails

LEMMA OwnTypes ==
  ASSUME BaseInv, NEW t \in Txs,
         \/ Called(t) \/ InCommit(t) \/ InRefresh(t)
         \/ DropBranchDB(t) \/ DeleteBranch(t) \/ Collect(t) \/ Fails(t)
  PROVE  BaseInv' /\ Alone(t) /\ tx[t].pc # "wait"
<1>1. TypeInv' /\ Alone(t)
  BY CalledTypes, CommitTypes, RefreshTypes, CleanupTypes, FailTypes DEF BaseInv
<1>2. tx[t].pc # "wait"
  <2>1. CASE Called(t)
    BY <2>1 DEF Called, BeginTransaction, Mutate, Usable, RollbackTransaction, RefreshBegins,
       Refreshable, RefreshIsNotSaved,
       CommitResumesCleanup, CommitOfNothing, CommitFindsMerge, CommitIsNotUpToDate, CommitBegins, Committing
  <2>2. CASE InCommit(t)
    BY <2>2 DEF InCommit, Reaches, CommitStarts, CommitCreates, CommitRecords, CommitLoads,
       CommitMerges, CommitRecordsMerge
  <2>3. CASE InRefresh(t)
    BY <2>3 DEF InRefresh, Reaches, RefreshResets, RefreshMarks, RefreshSwaps, RefreshAborts, RefreshEnds
  <2>4. CASE DropBranchDB(t) \/ DeleteBranch(t) \/ Collect(t)
    BY <2>4 DEF DropBranchDB, DeleteBranch, Collect
  <2>5. CASE Fails(t)
    BY <2>5 DEF Fails, FailCommit, FailCleanup, FailRefresh, CommitSteps, RefreshSteps, CleanupSteps
  <2> QED BY <2>1, <2>2, <2>3, <2>4, <2>5
<1>3. ServedWait' /\ SyncFits'
  <2>1. sync.serving \subseteq Txs \ {t} /\ sync.pending \in Nat /\ sync.gen \in Nat
    BY <1>2 DEF BaseInv, TypeInv, SyncType, ServedWait, Waiting
  <2>2. /\ sync'.serving = sync.serving /\ sync'.at = sync.at /\ sync'.gen = sync.gen
        /\ sync'.pending \in {sync.pending, sync.pending + 1}
    BY <1>1 DEF Alone, SyncIs
  <2>3. ServedWait'
    BY <1>1, <2>1, <2>2 DEF BaseInv, Alone, ServedWait, Waiting
  <2>4. SyncFits'
    BY <2>1, <2>2 DEF BaseInv, SyncFits
  <2> QED BY <2>3, <2>4
<1> QED BY <1>1, <1>2, <1>3 DEF BaseInv

\* The sync worker: what each step makes of its state and of the callers.
Answered(served, to) ==
  /\ TxsSound'
  /\ \A u \in Txs :
       IF u \in served
         THEN /\ tx[u].pc = "wait" /\ tx'[u].op = "none" /\ tx'[u].mem = {}
              /\ tx'[u].branch = tx[u].branch /\ tx'[u].db = tx[u].db /\ tx'[u].dur = tx[u].dur /\ tx'[u].pc = to
         ELSE tx'[u] = tx[u]

LEMMA AnswersAre ==
  ASSUME BaseInv
  PROVE  /\ \A served \in SUBSET Waiting : Answers(served, FALSE) => Answered(served, "committed")
         /\ Answers(Served, FALSE) => Answered(sync.serving, "committed")
         /\ Answers(Served, TRUE) => Answered(sync.serving, "acked")
<1>1. ASSUME NEW served \in SUBSET Waiting PROVE Answers(served, FALSE) => Answered(served, "committed")
  BY AnswersBecome DEF BaseInv, Answered
<1>2. Served \in SUBSET Waiting /\ Served = sync.serving
  BY DEF BaseInv, Served, ServedWait
<1>3. ASSUME NEW served \in SUBSET Waiting PROVE Answers(served, TRUE) => Answered(served, "acked")
  BY AnswersBecome DEF BaseInv, Answered
<1> QED BY <1>1, <1>2, <1>3

LEMMA FetchesIs ==
  ASSUME BaseInv, Fetches
  PROVE  \E served \in SUBSET Waiting : SyncIs("push", sync.pending, sync.gen, served, FALSE)
<1>1. PICK served \in SUBSET Waiting :
        sync' = [sync EXCEPT !.at = "push", !.serving = served, !.unhydrated = FALSE]
  BY DEF Fetches
<1>2. served \in SUBSET Txs
  BY DEF Waiting
<1> QED BY <1>1, <1>2 DEF BaseInv, TypeInv, SyncType, SyncIs

LEMMA IdleIs ==
  ASSUME BaseInv, sync' = Idle
  PROVE  SyncIs("idle", sync.pending, 0, {}, sync.unhydrated)
BY DEF BaseInv, TypeInv, SyncType, SyncIs, Idle

LEMMA PushBeginsIs ==
  ASSUME BaseInv, PushBegins
  PROVE  SyncIs("pushing", sync.pending, sync.pending, sync.serving, sync.unhydrated)
BY DEF BaseInv, TypeInv, SyncType, SyncIs, PushBegins

LEMMA PushesIs ==
  ASSUME BaseInv, Pushes
  PROVE  SyncIs("pushed", sync.pending, sync.gen, sync.serving, sync.unhydrated)
BY DEF BaseInv, TypeInv, SyncType, SyncIs, Pushes

\* The watermark is no more than what is pending.
LEMMA DeliversIs ==
  ASSUME BaseInv, Delivers
  PROVE  SyncIs("idle", sync.pending - sync.gen, 0, {}, sync.unhydrated)
<1>1. sync' = [[sync EXCEPT !.at = "idle", !.serving = {}, !.gen = 0] EXCEPT !.pending = sync.pending - sync.gen]
  BY DEF Delivers, Idle, Watermark, BaseInv, TypeInv, SyncType
<1>2. sync.pending - sync.gen \in Nat
  BY DEF BaseInv, TypeInv, SyncType, SyncFits, Delivers
<1> QED BY <1>1, <1>2 DEF BaseInv, TypeInv, SyncType, SyncIs
LEMMA SyncTypes ==
  ASSUME BaseInv, CycleRuns \/ CycleLocks \/ HydrationFails \/ CheckoutFails \/ CycleFails
  PROVE  BaseInv'
<1> USE DEF BaseInv
<1>1. NewData => Tree(remote) \in Trees
  BY TreeType DEF TypeInv, HistoriesOk
<1>2. Tree(main) \in Trees
  BY TreeType DEF TypeInv, HistoriesOk
<1>3. CASE Fetches
  <2>1. HistoriesOk'
    BY <1>1, <1>2, <1>3 DEF Fetches, TypeInv, HistoriesOk
  <2>2. PICK served \in SUBSET Waiting : SyncIs("push", sync.pending, sync.gen, served, FALSE)
    BY <1>3, FetchesIs
  <2>3. TypeInv'
    BY <1>3, <2>1, <2>2 DEF Fetches, TypeInv, TxsSound, TouchedType, SyncIs
  <2>4. ServedWait' /\ SyncFits'
    BY <1>3, <2>2 DEF Fetches, SyncIs, ServedWait, SyncFits, Waiting
  <2> QED BY <2>3, <2>4
<1>4. CASE FetchDiverges
  <2>1. PICK served \in SUBSET Waiting : Answered(served, "committed")
    BY <1>4, AnswersAre DEF FetchDiverges
  <2>2. TypeInv' /\ sync' = sync /\ sync.serving = {}
    BY <1>4, <2>1 DEF FetchDiverges, Answered, TypeInv, HistoriesOk, SyncType, TouchedType, SyncFits
  <2> QED BY <2>2 DEF ServedWait, SyncFits
<1>5. CASE PushBegins
  <2>1. SyncIs("pushing", sync.pending, sync.pending, sync.serving, sync.unhydrated)
    BY <1>5, PushBeginsIs
  <2>2. TypeInv'
    BY <1>5, <2>1 DEF PushBegins, TypeInv, TxsSound, HistoriesOk, TouchedType, SyncIs
  <2>3. sync.pending \in Nat \ {0}
    BY <1>5 DEF PushBegins, TypeInv, SyncType
  <2> QED BY <1>5, <2>1, <2>2, <2>3 DEF PushBegins, SyncIs, ServedWait, SyncFits, Waiting
<1>6. CASE Pushes
  <2>1. SyncIs("pushed", sync.pending, sync.gen, sync.serving, sync.unhydrated)
    BY <1>6, PushesIs
  <2>2. TypeInv'
    BY <1>6, <2>1 DEF Pushes, TypeInv, TxsSound, HistoriesOk, TouchedType, SyncIs
  <2> QED BY <1>6, <2>1, <2>2 DEF Pushes, SyncIs, ServedWait, SyncFits, Waiting
<1>7. CASE NothingToPush \/ PushIsRejected \/ CycleFails \/ Delivers
  <2>1. \E served \in SUBSET Waiting, to \in {"acked", "committed"} : Answered(served, to)
    BY <1>7, AnswersAre DEF NothingToPush, PushIsRejected, CycleFails, Delivers, ServedWait
  <2>2. TxsSound'
    BY <2>1 DEF Answered
  <2>3. /\ SyncType' /\ sync'.at = "idle" /\ sync'.gen = 0 /\ sync'.serving = {}
    BY <1>7, IdleIs, DeliversIs DEF NothingToPush, PushIsRejected, CycleFails, SyncIs
  <2>4. HistoriesOk' /\ TouchedType' /\ events' \in 0 .. MaxEvents /\ lapses' \subseteq Lapses
    BY <1>7, DisturbedType DEF NothingToPush, PushIsRejected, CycleFails, Delivers, TypeInv, HistoriesOk, TouchedType
  <2> QED BY <2>2, <2>3, <2>4 DEF TypeInv, ServedWait, SyncFits
<1>8. CASE HydrationFails
  <2>1. PICK served \in SUBSET Waiting : Answered(served, "committed")
    BY <1>8, AnswersAre DEF HydrationFails
  <2>2. SyncIs("idle", sync.pending, sync.gen, sync.serving, TRUE)
    BY <1>8 DEF HydrationFails, TypeInv, SyncType, SyncIs
  <2>3. HistoriesOk' /\ TouchedType' /\ events' \in 0 .. MaxEvents /\ lapses' \subseteq Lapses
    BY <1>8 DEF HydrationFails, TypeInv, HistoriesOk, TouchedType
  <2> QED BY <1>8, <2>1, <2>2, <2>3 DEF HydrationFails, Answered, SyncIs, TypeInv, ServedWait, SyncFits
<1>9. CASE CheckoutFails
  <2>1. PICK served \in SUBSET Waiting : Answered(served, "committed")
    BY <1>9, AnswersAre DEF CheckoutFails
  <2>2. SyncType' /\ sync'.at = sync.at /\ sync'.gen = sync.gen /\ sync'.serving = sync.serving
        /\ sync'.pending = sync.pending
    BY <1>9 DEF CheckoutFails, TypeInv, HistoriesOk, SyncType
  <2>3. HistoriesOk' /\ TouchedType' /\ events' \in 0 .. MaxEvents /\ lapses' \subseteq Lapses
    BY <1>9 DEF CheckoutFails, TypeInv, HistoriesOk, TouchedType
  <2> QED BY <1>9, <2>1, <2>2, <2>3 DEF CheckoutFails, Answered, TypeInv, ServedWait, SyncFits
<1> QED BY <1>3, <1>4, <1>5, <1>6, <1>7, <1>8, <1>9 DEF CycleRuns, CycleLocks

LEMMA OtherTypes ==
  ASSUME BaseInv, PeerPushes \/ Crash PROVE BaseInv'
<1>1. CASE PeerPushes
  <2>1. PICK k \in Keys : remote' = Append(remote, [by |-> Peer, tree |-> [Tree(remote) EXCEPT ![k] = Peer]])
    BY <1>1 DEF PeerPushes
  <2> DEFINE c == [by |-> Peer, tree |-> [Tree(remote) EXCEPT ![k] = Peer]]
  <2>2. Tree(remote) \in Trees /\ remote \in Seq(Commits)
    BY TreeType DEF BaseInv, TypeInv, HistoriesOk
  <2>3. c \in Commits
    BY <2>2 DEF Commits, Trees, Contents, Writers
  <2> HIDE DEF c
  <2>4. remote' \in Seq(Commits) /\ remote' # <<>>
    BY <2>1, <2>2, <2>3, PrefixOfAppended DEF c
  <2>5. events' \in 0 .. MaxEvents
    BY <1>1, DisturbedType DEF PeerPushes, BaseInv
  <2> QED BY <1>1, <2>4, <2>5 DEF PeerPushes, BaseInv, TypeInv, TxsSound, HistoriesOk, SyncType, TouchedType,
      ServedWait, Waiting, SyncFits
<1>2. CASE Crash
  <2>1. sync' = [sync EXCEPT !.at = "idle", !.pending = 1, !.gen = 0, !.serving = {}, !.unhydrated = FALSE,
                           !.skipped = 0]
    BY <1>2 DEF Crash
  <2>2. sync'.at = "idle" /\ sync'.gen = 0 /\ sync'.serving = {}
    BY <2>1 DEF BaseInv, TypeInv, SyncType
  <2> QED BY <1>2, <2>2, CrashTypes DEF BaseInv, ServedWait, SyncFits
<1> QED BY <1>1, <1>2

LEMMA NextKeepsTypes == ASSUME BaseInv, [Next]_vars PROVE BaseInv'
<1>1. CASE UNCHANGED vars
  BY <1>1 DEF vars, BaseInv, TypeInv, TxsSound, HistoriesOk, SyncType, TouchedType, ServedWait, Waiting, SyncFits
<1> QED BY <1>1, OwnTypes, SyncTypes, OtherTypes DEF Next

LEMMA InitTypes == ASSUME Init PROVE BaseInv
<1> DEFINE first == [by |-> Seed, tree |-> [k \in Keys |-> IF k \in Seeded THEN Seed ELSE Absent]]
<1>1. first \in Commits /\ first.tree \in Trees
  BY DEF Commits, Trees, Contents, Writers
<1>2. main = <<first>> /\ remote = main /\ store = first.tree
  BY DEF Init
<1> HIDE DEF first
<1>3. HistoriesOk
  BY <1>1, <1>2 DEF HistoriesOk
<1>4. TxsSound
  BY NoTxIs DEF Init, TxsSound
<1>5. SyncType /\ TouchedType /\ ServedWait /\ SyncFits
  BY DEF Init, SyncType, TouchedType, ServedWait, SyncFits
<1> QED BY <1>3, <1>4, <1>5, GraphAssumption DEF Init, BaseInv, TypeInv

LEMMA TypesAlways == Spec => []BaseInv
BY InitTypes, NextKeepsTypes, PTL DEF Spec

\* Every durable record is one that the store's validation accepts, and the
\* variables have their types.
THEOREM TypesHold == Spec => []TypeOK
<1>1. BaseInv => TypeOK
  <2> SUFFICES ASSUME BaseInv PROVE TypeOK
    OBVIOUS
  <2> DEFINE R == [pc : Steps, op : {"none"} \cup DOMAIN AfterCleanup,
                   branch : Seq(Commits), db : Trees \cup {None}, base : Seq(Commits),
                   log : SUBSET (Kinds \X Keys), stale : SUBSET Keys, mem : SUBSET Flags,
                   dur : {flags \in SUBSET Flags : Valid(flags)} \cup {{Missing}},
                   before : Trees \cup {None}]
  <2>1. Ops = {"none"} \cup DOMAIN AfterCleanup
    BY DEF Ops, AfterCleanup
  <2>2. ASSUME NEW r \in Sound PROVE r \in R
    BY <2>1, <2>2 DEF Sound, Record, SavedFlags, FlagsFit
  <2>3. tx \in [Txs -> R]
    BY <2>2 DEF BaseInv, TypeInv, TxsSound
  <2> QED BY <2>3 DEF TypeOK, BaseInv, TypeInv, HistoriesOk, SyncType, TouchedType
<1> QED BY <1>1, TypesAlways, PTL

-----------------------------------------------------------------------------
(* The git lock, and the histories of main, of a branch and of its base.   *)

\* Where the branch of t is: it holds what was main when t began or was last
\* refreshed, and is on main or has one commit of t above that.
Placed(t, branch, base, m) ==
  /\ IsPrefix(base, m) /\ IsPrefix(base, branch)
  /\ \/ IsPrefix(branch, m)
     \/ \E c \in Commits : c.by = t /\ branch = Append(base, c)

\* What a step under the git lock relies on, because no one else moves main.
AtStep(t, pc, branch, base, m) ==
  /\ pc \in CommitSteps \ {"merged"} => m = base
  /\ pc \in {"start", "create"} => ~CommittedBy(t, branch)
  /\ pc \in {"mark", "swap", "validate", "merged"} => m = branch

OneAtWork == \A t, u \in Txs : tx[t].pc \in Locked /\ tx[u].pc \in Locked => t = u
BranchesPlaced ==
  \A t \in Txs : tx[t].pc \in Active => Placed(t, tx[t].branch, tx[t].base, main)
StepsHold == \A t \in Txs : AtStep(t, tx[t].pc, tx[t].branch, tx[t].base, main)

GitInv == BaseInv /\ OneAtWork /\ BranchesPlaced /\ StepsHold

Own(t) ==
  \/ Called(t) \/ InCommit(t) \/ InRefresh(t)
  \/ DropBranchDB(t) \/ DeleteBranch(t) \/ Collect(t) \/ Fails(t)

\* What t's own step makes of t.
Fits(t) ==
  /\ tx'[t].pc \in Active => Placed(t, tx'[t].branch, tx'[t].base, main')
  /\ AtStep(t, tx'[t].pc, tx'[t].branch, tx'[t].base, main')
  /\ tx'[t].pc \in Locked => tx[t].pc \in Locked \/ GitFree

LEMMA PlacedStays ==
  ASSUME NEW t, NEW branch \in Seq(Commits), NEW base \in Seq(Commits), NEW m \in Seq(Commits),
         NEW n \in Seq(Commits), IsPrefix(m, n), Placed(t, branch, base, m)
  PROVE  Placed(t, branch, base, n)
BY PrefixTrans DEF Placed

\* At a step of a commit, a branch without a commit of t is main, and one with it
\* is main with that commit.
LEMMA BranchInCommit ==
  ASSUME GitInv, NEW t \in Txs, tx[t].pc \in CommitSteps \ {"merged"}
  PROVE  /\ main = tx[t].base
         /\ \/ tx[t].branch = main
            \/ /\ ~IsPrefix(tx[t].branch, main)
               /\ \E c \in Commits : c.by = t /\ tx[t].branch = Append(main, c)
         /\ ~Exists(t) => tx[t].branch = main
<1> DEFINE branch == tx[t].branch  base == tx[t].base
<1>1. branch \in Seq(Commits) /\ base \in Seq(Commits) /\ main \in Seq(Commits)
  BY DEF GitInv, BaseInv, TypeInv, TxsSound, Sound, Record, HistoriesOk
<1>2. Placed(t, branch, base, main) /\ main = base
  BY DEF GitInv, BranchesPlaced, StepsHold, AtStep, Active, Locked
<1>3. IsPrefix(branch, main) => branch = main
  BY <1>1, <1>2, PrefixAntisym DEF Placed
<1>4. ASSUME NEW c \in Commits, c.by = t, branch = Append(main, c) PROVE CommittedBy(t, branch)
  BY <1>1, <1>4, CommittedInAppended
<1> QED BY <1>2, <1>3, <1>4 DEF Placed, Exists

LEMMA CalledFits == ASSUME GitInv, NEW t \in Txs, Called(t) PROVE Fits(t) /\ main' = main
<1>0. TypeInv /\ (tx[t].pc \in Active => Placed(t, tx[t].branch, tx[t].base, main)) /\ main \in Seq(Commits)
  BY DEF GitInv, BaseInv, TypeInv, HistoriesOk, BranchesPlaced
<1> USE DEF Fits, AtStep, Becomes, Same
<1>1. CASE BeginTransaction(t)
  <2>1. Placed(t, main, main, main)
    BY <1>0, PrefixRefl DEF Placed
  <2> QED BY <1>0, <1>1, <2>1, BeginBecomes DEF BeginTransaction, CommitSteps, RefreshSteps
<1>2. CASE Mutate(t)
  BY <1>0, <1>2, MutateBecomes DEF Mutate, Usable, Active, Locked, CommitSteps, RefreshSteps
<1>3. CASE RollbackTransaction(t)
  BY <1>0, <1>3, RollbackBecomes DEF RollbackTransaction, Active, Locked, CommitSteps, RefreshSteps
<1>4. CASE RefreshBegins(t)
  BY <1>0, <1>4, RefreshBegunBecomes DEF RefreshBegins, Refreshable, Active, Locked, CommitSteps, RefreshSteps
<1>5. CASE CommitResumesCleanup(t)
  BY <1>0, <1>5, ResumeBecomes DEF CommitResumesCleanup, Active, Locked, CommitSteps, RefreshSteps
<1>6. CASE CommitOfNothing(t)
  BY <1>0, <1>6, EmptyBecomes DEF CommitOfNothing, Active, Locked, CommitSteps, RefreshSteps
<1>7. CASE CommitFindsMerge(t)
  BY <1>0, <1>7, FoundBecomes DEF CommitFindsMerge, Committing, Usable, Active, Locked, CommitSteps, RefreshSteps
<1>8. CASE CommitIsNotUpToDate(t)
  BY <1>0, <1>8, RefusedBecomes DEF CommitIsNotUpToDate, Committing, Usable, Active, Locked, CommitSteps, RefreshSteps
<1>9. CASE CommitBegins(t)
  <2>1. tx[t].pc = "open" /\ GitFree /\ main = tx[t].base /\ main' = main
    BY <1>9 DEF CommitBegins, Committing, Usable, UpToDate
  <2>2. FirstStep(t) \in {"start", "load", "merge"} /\ (FirstStep(t) = "start" => ~CommittedBy(t, tx[t].branch))
    BY DEF FirstStep, NextAfterCreated, Detected, Exists
  <2> QED BY <1>0, <1>9, <2>1, <2>2, BeginsBecomes DEF Active, Locked, CommitSteps, RefreshSteps
<1>10. CASE RefreshIsNotSaved(t)
  BY <1>0, <1>10 DEF RefreshIsNotSaved, Refreshable, Active, Locked, CommitSteps, RefreshSteps
<1> QED BY <1>1, <1>2, <1>3, <1>4, <1>5, <1>6, <1>7, <1>8, <1>9, <1>10 DEF Called


LEMMA CommitFits ==
  ASSUME GitInv, NEW t \in Txs, InCommit(t)
  PROVE  /\ Fits(t)
         /\ \/ main' = main
            \/ /\ tx[t].pc = "merge" /\ main' = tx[t].branch /\ main' \in Seq(Commits)
               /\ IsPrefix(main, main')
               /\ \E c \in Commits : c.by = t /\ main' = Append(main, c)
<1> DEFINE branch == tx[t].branch  base == tx[t].base
<1>0. /\ TypeInv /\ (tx[t].pc \in Active => Placed(t, branch, base, main))
      /\ AtStep(t, tx[t].pc, branch, base, main)
      /\ branch \in Seq(Commits) /\ base \in Seq(Commits) /\ main \in Seq(Commits)
  BY DEF GitInv, BaseInv, TypeInv, HistoriesOk, BranchesPlaced, StepsHold, TxsSound, Sound, Record
<1> USE DEF Fits, Becomes, Same
<1>1. CASE CommitStarts(t)
  BY <1>0, <1>1, StartBecomes DEF AtStep, CommitStarts, Reaches, Active, Locked, CommitSteps, RefreshSteps
<1>2. CASE CommitCreates(t)
  <2>1. tx[t].pc = "create" /\ main' = main /\ main = base /\ branch = main
    BY <1>0, <1>2, BranchInCommit DEF CommitCreates, AtStep, CommitSteps, Exists
  <2>2. Placed(t, NewBranch(t), base, main)
    <3>1. NewCommit(t) \in Commits /\ NewCommit(t).by = t
      BY <1>0, <2>1, NewBranchType DEF GitInv, BaseInv, TypeInv, HistoriesOk
    <3>2. IsPrefix(main, main) /\ IsPrefix(main, Append(main, NewCommit(t)))
      BY <1>0, <3>1, PrefixRefl, PrefixOfAppended
    <3>3. NewBranch(t) = main \/ NewBranch(t) = Append(main, NewCommit(t))
      BY <2>1 DEF NewBranch
    <3> QED BY <2>1, <3>1, <3>2, <3>3 DEF Placed
  <2> QED BY <1>0, <1>2, <2>1, <2>2, CreateBecomes DEF AtStep, Active, Locked, CommitSteps, RefreshSteps
<1>3. CASE CommitRecords(t)
  <2>1. NextAfterCreated(tx[t].mem) \in {"load", "merge"}
    BY DEF NextAfterCreated
  <2>2. tx[t].pc = "created" /\ main' = main /\ Placed(t, branch, base, main) /\ main = base
    BY <1>0, <1>3 DEF AtStep, CommitRecords, Reaches, Active, Locked, CommitSteps
  <2> QED BY <1>0, <1>3, <2>1, <2>2, RecordBecomes DEF AtStep, Locked, CommitSteps, RefreshSteps
<1>4. CASE CommitLoads(t)
  BY <1>0, <1>4, LoadBecomes DEF AtStep, CommitLoads, Reaches, Active, Locked, CommitSteps, RefreshSteps
<1>5. CASE CommitMerges(t)
  <2>1. tx[t].pc = "merge" /\ main' = branch /\ IsPrefix(main, branch)
    BY <1>5 DEF CommitMerges
  <2>2. main = base /\ \/ branch = main
                       \/ \E c \in Commits : c.by = t /\ branch = Append(main, c)
    BY <2>1, BranchInCommit DEF CommitSteps
  <2>3. Placed(t, branch, base, main')
    BY <1>0, <2>1, <2>2, PrefixRefl DEF Placed
  <2>4. Becomes(t, "merged", tx[t].op, branch, base, tx[t].mem, tx[t].dur)
    BY <1>0, <1>5, MergeBecomes
  <2> QED BY <1>0, <2>1, <2>2, <2>3, <2>4 DEF AtStep, Locked, CommitSteps, RefreshSteps
<1>6. CASE CommitRecordsMerge(t)
  BY <1>0, <1>6, MergedBecomes DEF AtStep, CommitRecordsMerge, Active, Locked, CommitSteps, RefreshSteps
<1> QED BY <1>1, <1>2, <1>3, <1>4, <1>5, <1>6 DEF InCommit

LEMMA RefreshFits == ASSUME GitInv, NEW t \in Txs, InRefresh(t) PROVE Fits(t) /\ main' = main
<1> DEFINE branch == tx[t].branch  base == tx[t].base
<1>0. /\ TypeInv /\ (tx[t].pc \in Active => Placed(t, branch, base, main))
      /\ AtStep(t, tx[t].pc, branch, base, main)
      /\ branch \in Seq(Commits) /\ base \in Seq(Commits) /\ main \in Seq(Commits)
  BY DEF GitInv, BaseInv, TypeInv, HistoriesOk, BranchesPlaced, StepsHold, TxsSound, Sound, Record
<1> USE DEF Fits, Becomes, Same
<1>1. CASE RefreshResets(t)
  <2>1. Placed(t, main, base, main)
    BY <1>0, <1>1, PrefixRefl DEF Placed, RefreshResets, Active, Locked, RefreshSteps
  <2> QED BY <1>0, <1>1, <2>1, ResetBecomes DEF AtStep, RefreshResets, Active, Locked, CommitSteps, RefreshSteps
<1>2. CASE RefreshMarks(t)
  BY <1>0, <1>2, MarkBecomes DEF AtStep, RefreshMarks, Reaches, Active, Locked, CommitSteps, RefreshSteps
<1>3. CASE RefreshSwaps(t)
  BY <1>0, <1>3, SwapBecomes DEF AtStep, RefreshSwaps, Active, Locked, CommitSteps, RefreshSteps
<1>4. CASE RefreshAborts(t)
  BY <1>0, <1>4, AbortBecomes DEF AtStep, RefreshAborts, Active, Locked, CommitSteps, RefreshSteps
<1>5. CASE RefreshEnds(t)
  <2>1. branch = main /\ Placed(t, main, main, main)
    BY <1>0, <1>5, PrefixRefl DEF AtStep, Placed, RefreshEnds, RefreshSteps
  <2> QED BY <1>0, <1>5, <2>1, RefreshedBecomes DEF AtStep, RefreshEnds, Active, Locked, CommitSteps, RefreshSteps
<1> QED BY <1>1, <1>2, <1>3, <1>4, <1>5 DEF InRefresh

LEMMA CleanupFits ==
  ASSUME GitInv, NEW t \in Txs, DropBranchDB(t) \/ DeleteBranch(t) \/ Collect(t) \/ Fails(t)
  PROVE  Fits(t) /\ main' = main
<1>0. TypeInv /\ (tx[t].pc \in Active => Placed(t, tx[t].branch, tx[t].base, main))
  BY DEF GitInv, BaseInv, TypeInv, BranchesPlaced
<1> USE DEF Fits, AtStep, Becomes, Same
<1>1. CASE DropBranchDB(t)
  BY <1>0, <1>1, DropBecomes DEF DropBranchDB, CleanupSteps, Active, Locked, CommitSteps, RefreshSteps
<1>2. CASE DeleteBranch(t)
  <2>1. PICK next \in {"wait"} \cup Outcomes : Becomes(t, next, "none", <<>>, <<>>, {}, {})
    BY <1>0, <1>2, DeletedBecomes
  <2> QED BY <1>2, <2>1 DEF DeleteBranch, CleanupSteps, Outcomes, Active, Locked, CommitSteps, RefreshSteps
<1>3. CASE Collect(t)
  BY <1>0, <1>3, CollectBecomes DEF Collect, Active, Locked, CommitSteps, RefreshSteps
<1>4. CASE FailCommit(t)
  BY <1>0, <1>4, FailedCommitBecomes DEF FailCommit, Active, Locked, CommitSteps, RefreshSteps
<1>5. CASE FailCleanup(t)
  BY <1>0, <1>5, FailedCleanupBecomes DEF FailCleanup, Active, Locked, CommitSteps, RefreshSteps
<1>6. CASE FailRefresh(t)
  BY <1>0, <1>6, FailedRefreshBecomes DEF FailRefresh, Active, Locked, CommitSteps, RefreshSteps
<1> QED BY <1>1, <1>2, <1>3, <1>4, <1>5, <1>6 DEF Fails

\* Main moves only when a commit of t is merged, and then by t's commit.
LEMMA OwnFits ==
  ASSUME GitInv, NEW t \in Txs, Own(t)
  PROVE  /\ Fits(t)
         /\ \/ main' = main
            \/ /\ tx[t].pc = "merge" /\ main' = tx[t].branch /\ main' \in Seq(Commits)
               /\ IsPrefix(main, main')
               /\ \E c \in Commits : c.by = t /\ main' = Append(main, c)
BY CalledFits, CommitFits, RefreshFits, CleanupFits DEF Own

LEMMA OwnKeepsGit ==
  ASSUME GitInv, NEW t \in Txs, Own(t) PROVE GitInv'
<1>1. BaseInv' /\ Alone(t)
  BY OwnTypes DEF GitInv, Own
<1>2. /\ Fits(t) /\ main' \in Seq(Commits) /\ main \in Seq(Commits) /\ IsPrefix(main, main')
      /\ main' = main \/ tx[t].pc \in Locked
  BY <1>1, OwnFits, PrefixRefl DEF GitInv, BaseInv, TypeInv, HistoriesOk, Locked, CommitSteps
<1>3. OneAtWork'
  BY <1>1, <1>2 DEF Fits, Alone, GitInv, OneAtWork, GitFree
<1>4. ASSUME NEW u \in Txs, u # t
      PROVE  /\ tx'[u].pc \in Active => Placed(u, tx'[u].branch, tx'[u].base, main')
             /\ AtStep(u, tx'[u].pc, tx'[u].branch, tx'[u].base, main')
  <2>1. tx'[u] = tx[u] /\ tx[u].branch \in Seq(Commits) /\ tx[u].base \in Seq(Commits)
    BY <1>1, <1>4 DEF Alone, GitInv, BaseInv, TypeInv, TxsSound, Sound, Record
  <2>2. tx[u].pc \in Active => Placed(u, tx[u].branch, tx[u].base, main')
    BY <1>2, <2>1, PlacedStays DEF GitInv, BranchesPlaced
  <2>3. tx[u].pc \in Locked => main' = main
    BY <1>2, <1>4 DEF GitInv, OneAtWork
  <2>4. AtStep(u, tx[u].pc, tx[u].branch, tx[u].base, main')
    BY <2>3 DEF GitInv, StepsHold, AtStep, Locked, CommitSteps, RefreshSteps
  <2> QED BY <2>1, <2>2, <2>4
<1>5. BranchesPlaced' /\ StepsHold'
  BY <1>2, <1>4 DEF Fits, BranchesPlaced, StepsHold
<1> QED BY <1>1, <1>3, <1>5 DEF GitInv

\* The steps that are no transaction's: what they do to transactions and to main.
LEMMA FreeStep ==
  ASSUME GitInv, CycleRuns \/ CycleLocks \/ HydrationFails \/ CheckoutFails \/ CycleFails \/ PeerPushes
  PROVE  /\ \A u \in Txs : \/ tx'[u] = tx[u]
                           \/ tx[u].pc = "wait" /\ tx'[u].pc \in {"acked", "committed"}
                              /\ tx'[u].op = "none" /\ tx'[u].mem = {} /\ tx'[u].db = tx[u].db /\ tx'[u].dur = tx[u].dur
         /\ \/ main' = main
            \/ GitFree /\ main' = remote /\ IsPrefix(main, main')
<1>1. Served \in SUBSET Waiting
  BY DEF GitInv, BaseInv, Served, ServedWait
<1>2. NewData => IsPrefix(main, remote)
  BY DEF NewData, IsStrictPrefix
<1>3. main' = main \/ (GitFree /\ main' = remote /\ IsPrefix(main, main'))
  BY <1>2 DEF CycleRuns, CycleLocks, HydrationFails, CheckoutFails, CycleFails, PeerPushes, Fetches, FetchDiverges,
     NothingToPush, PushBegins, Pushes, Delivers, PushIsRejected
<1>4. tx' = tx \/ \E served \in SUBSET Waiting, to \in {"acked", "committed"} : Answered(served, to)
  BY AnswersAre DEF GitInv, BaseInv, ServedWait, CycleRuns, CycleLocks, HydrationFails, CheckoutFails, CycleFails, PeerPushes,
     Fetches, FetchDiverges, NothingToPush, PushBegins, Pushes, Delivers, PushIsRejected
<1> QED BY <1>3, <1>4 DEF Answered

LEMMA FreeKeepsGit ==
  ASSUME GitInv, CycleRuns \/ CycleLocks \/ HydrationFails \/ CheckoutFails \/ CycleFails \/ PeerPushes
  PROVE  GitInv'
<1>1. BaseInv'
  BY SyncTypes, OtherTypes DEF GitInv
<1>2. main \in Seq(Commits) /\ main' \in Seq(Commits)
  BY <1>1 DEF GitInv, BaseInv, TypeInv, HistoriesOk
<1>3. IsPrefix(main, main') /\ (main' = main \/ GitFree)
  BY <1>2, FreeStep, PrefixRefl
<1>4. ASSUME NEW u \in Txs
      PROVE  /\ tx'[u].pc \in Locked => tx[u].pc \in Locked
             /\ tx'[u].pc \in Active => Placed(u, tx'[u].branch, tx'[u].base, main')
             /\ AtStep(u, tx'[u].pc, tx'[u].branch, tx'[u].base, main')
  <2>1. CASE tx'[u] = tx[u]
    <3>1. tx[u].branch \in Seq(Commits) /\ tx[u].base \in Seq(Commits)
      BY DEF GitInv, BaseInv, TypeInv, TxsSound, Sound, Record
    <3>2. tx[u].pc \in Active => Placed(u, tx[u].branch, tx[u].base, main')
      BY <1>2, <1>3, <3>1, PlacedStays DEF GitInv, BranchesPlaced
    <3>3. AtStep(u, tx[u].pc, tx[u].branch, tx[u].base, main')
      BY <1>3 DEF GitInv, StepsHold, AtStep, GitFree, Locked, CommitSteps, RefreshSteps
    <3> QED BY <2>1, <3>2, <3>3
  <2>2. CASE tx'[u].pc \in {"acked", "committed"}
    BY <2>2 DEF AtStep, Active, Locked, CommitSteps, RefreshSteps, CleanupSteps
  <2> QED BY <2>1, <2>2, FreeStep
<1>5. OneAtWork' /\ BranchesPlaced' /\ StepsHold'
  BY <1>4 DEF GitInv, OneAtWork, BranchesPlaced, StepsHold
<1> QED BY <1>1, <1>5 DEF GitInv

LEMMA CrashKeepsGit == ASSUME GitInv, Crash PROVE GitInv'
<1>1. BaseInv' /\ main' = main /\ tx' = [t \in Txs |-> Recovered(t)]
  BY OtherTypes DEF GitInv, Crash
<1>2. ASSUME NEW u \in Txs
      PROVE  /\ tx'[u].pc \notin Locked
             /\ tx'[u].pc \in Active => Placed(u, tx'[u].branch, tx'[u].base, main')
             /\ AtStep(u, tx'[u].pc, tx'[u].branch, tx'[u].base, main')
  <2>1. tx'[u] = Recovered(u) /\ TypeInv
    BY <1>1 DEF GitInv, BaseInv
  <2>2. tx'[u].pc \in {"open", "new", "committed", "lost"} \cup Outcomes
    BY <2>1, RecoveredIs DEF Same
  <2>3. tx'[u].pc \in Active => /\ tx[u].pc \in Active
                                /\ tx'[u].branch = tx[u].branch /\ tx'[u].base = tx[u].base
    BY <2>1, RecoveredIs DEF Same, Active, Locked, CommitSteps, RefreshSteps, CleanupSteps, Outcomes
  <2>4. tx'[u].pc \in Active => Placed(u, tx'[u].branch, tx'[u].base, main')
    BY <1>1, <2>3 DEF GitInv, BranchesPlaced
  <2> QED BY <2>2, <2>4 DEF AtStep, Locked, CommitSteps, RefreshSteps, Outcomes
<1> QED BY <1>1, <1>2 DEF GitInv, OneAtWork, BranchesPlaced, StepsHold

LEMMA NextKeepsGit == ASSUME GitInv, [Next]_vars PROVE GitInv'
<1>1. CASE UNCHANGED vars
  BY <1>1, NextKeepsTypes DEF vars, GitInv, OneAtWork, BranchesPlaced, StepsHold
<1> QED BY <1>1, OwnKeepsGit, FreeKeepsGit, CrashKeepsGit DEF Next, Own

LEMMA InitGit == ASSUME Init PROVE GitInv
<1>1. \A t \in Txs : tx[t].pc = "new"
  BY NoTxIs DEF Init
<1> QED BY <1>1, InitTypes DEF GitInv, OneAtWork, BranchesPlaced, StepsHold, AtStep, Active, Locked,
    CommitSteps, RefreshSteps, CleanupSteps

LEMMA GitAlways == Spec => []GitInv
BY InitGit, NextKeepsGit, PTL DEF Spec

\* The git lock (withGitLock): no two transactions are inside a commit or a
\* refresh at the same time, whatever failed or restarted before.
THEOREM OneHoldsTheLock == Spec => []OneAtWork
BY GitAlways, PTL DEF GitInv
-----------------------------------------------------------------------------
(* Main's database.                                                        *)

\* A commit that may have loaded main.lbug, with its branch not on main.
Dirty(u) ==
  \/ "rehydrated" \in tx[u].mem /\ ~IsPrefix(tx[u].branch, main)
  \/ Lapsed(u, "hydrate")
StoreFollowsMain ==
  store = Tree(main) \/ sync.unhydrated \/ sync.skipped = Len(main) \/ \E u \in Txs : Dirty(u)
\* Before it is merged a branch is loaded.
MergeIsLoaded ==
  \A u \in Txs : tx[u].pc = "merge" => store = Tree(tx[u].branch) \/ Lapsed(u, "hydrate")

StoreInv == GitInv /\ StoreFollowsMain /\ MergeIsLoaded

\* A step of t that leaves main and main.lbug alone, or restores it, and keeps
\* the flag of t unless nothing of t is partly loaded.
LEMMA StoreKept ==
  ASSUME StoreInv, NEW t \in Txs, GitInv', Alone(t), lapses \subseteq lapses', main' = main,
         store' = store \/ store' = Tree(main),
         store' = store /\ "rehydrated" \in tx[t].mem /\ ~IsPrefix(tx[t].branch, main)
           => "rehydrated" \in tx'[t].mem /\ tx'[t].branch = tx[t].branch
  PROVE  StoreFollowsMain'
<1>1. sync'.unhydrated = sync.unhydrated /\ sync'.skipped = sync.skipped
  BY DEF Alone, SyncIs
<1>2. CASE store' = Tree(main)
  BY <1>2 DEF StoreFollowsMain
<1>3. CASE store' = store
  <2>1. CASE store = Tree(main) \/ sync.unhydrated \/ sync.skipped = Len(main)
    BY <1>1, <1>3, <2>1 DEF StoreFollowsMain
  <2>2. ASSUME NEW u \in Txs, Dirty(u) PROVE StoreFollowsMain'
    <3>1. CASE Lapsed(u, "hydrate")
      BY <3>1 DEF Lapsed, StoreFollowsMain, Dirty
    <3>2. CASE "rehydrated" \in tx[u].mem /\ ~IsPrefix(tx[u].branch, main)
      <4>1. "rehydrated" \in tx'[u].mem /\ tx'[u].branch = tx[u].branch
        BY <1>3, <3>2 DEF Alone
      <4> QED BY <3>2, <4>1 DEF StoreFollowsMain, Dirty
    <3> QED BY <2>2, <3>1, <3>2 DEF Dirty
  <2> QED BY <2>1, <2>2 DEF StoreInv, StoreFollowsMain
<1> QED BY <1>2, <1>3

\* A branch that is not on main has a commit of its transaction.
LEMMA OffMainExists ==
  ASSUME GitInv, NEW t \in Txs, tx[t].pc \in Active, ~IsPrefix(tx[t].branch, main)
  PROVE  Exists(t)
<1>1. tx[t].base \in Seq(Commits)
  BY DEF GitInv, BaseInv, TypeInv, TxsSound, Sound, Record
<1>2. PICK c \in Commits : c.by = t /\ tx[t].branch = Append(tx[t].base, c)
  BY DEF GitInv, BranchesPlaced, Placed
<1> QED BY <1>1, <1>2, CommittedInAppended DEF Exists

LEMMA CalledKeepsStore ==
  ASSUME StoreInv, NEW t \in Txs, Called(t), GitInv', Alone(t), main' = main
  PROVE  StoreFollowsMain'
<1>0. TypeInv /\ GitInv /\ FlagsFit(tx[t]) /\ main \in Seq(Commits)
  BY DEF StoreInv, GitInv, BaseInv, TypeInv, HistoriesOk, TxsSound, Sound
<1> USE DEF Becomes, Same
<1>1. CASE BeginTransaction(t)
  <2>1. tx[t].mem = {} /\ store' = store /\ lapses' = lapses
    BY <1>0, <1>1 DEF BeginTransaction, TypeInv, TxsSound, Sound, StepFits, Active, Locked, CommitSteps, RefreshSteps, CleanupSteps
  <2> QED BY <2>1, StoreKept
<1>2. CASE Mutate(t)
  BY <1>0, <1>2, MutateBecomes, StoreKept
<1>3. CASE RollbackTransaction(t) \/ CommitResumesCleanup(t) \/ CommitOfNothing(t)
  <2>1. store' = RestoredStore(t) /\ lapses' = lapses
    BY <1>3 DEF RollbackTransaction, CommitResumesCleanup, CommitOfNothing, CleansUp
  <2>2. "rehydrated" \in tx[t].mem => store' = Tree(main)
    BY <2>1 DEF RestoredStore, Has
  <2>3. store' = store \/ store' = Tree(main)
    BY <2>1 DEF RestoredStore
  <2>4. "rehydrated" \in tx[t].mem => StoreFollowsMain'
    BY <2>2 DEF StoreFollowsMain
  <2> QED BY <2>1, <2>3, <2>4, StoreKept
<1>4. CASE RefreshBegins(t) \/ RefreshIsNotSaved(t)
  <2>1. store' = (IF Has(t, "rehydrated") \/ Has(t, "hydrated") THEN Tree(main) ELSE store) /\ lapses' = lapses
    BY <1>4 DEF RefreshBegins, RefreshIsNotSaved, UnloadedStore
  <2>2. "rehydrated" \in tx[t].mem => StoreFollowsMain'
    BY <2>1 DEF StoreFollowsMain, Has
  <2> QED BY <2>1, <2>2, StoreKept
<1>5. CASE CommitFindsMerge(t)
  <2>1. tx[t].branch = main /\ store' = store /\ lapses' = lapses
    BY <1>5 DEF CommitFindsMerge, AlreadyMerged
  <2> QED BY <1>0, <2>1, StoreKept, PrefixRefl
<1>6. CASE CommitIsNotUpToDate(t)
  <2>1. tx[t].pc = "open" /\ store' = store /\ lapses' = lapses
    BY <1>6 DEF CommitIsNotUpToDate, Committing, Usable
  <2>2. Becomes(t, "open", tx[t].op, tx[t].branch, tx[t].base, Reconciled(t, Detected(t)),
                IF Detected(t) \cap Milestones = {} THEN tx[t].dur ELSE Reconciled(t, Detected(t)))
    BY <1>0, <1>6, RefusedBecomes
  <2>3. Exists(t) /\ "rehydrated" \in tx[t].mem => "rehydrated" \in Reconciled(t, Detected(t))
    BY DEF Reconciled, Detected
  <2> QED BY <1>0, <2>1, <2>2, <2>3, OffMainExists, StoreKept DEF Active
<1>7. CASE CommitBegins(t)
  <2>1. store' = store /\ lapses \subseteq lapses'
    BY <1>7 DEF CommitBegins
  <2>2. "rehydrated" \in tx[t].mem => "rehydrated" \in Detected(t)
    BY DEF Detected
  <2>3. tx'[t].mem = Detected(t) /\ tx'[t].branch = tx[t].branch
    BY <1>0, <1>7, BeginsBecomes
  <2> QED BY <2>1, <2>2, <2>3, StoreKept
<1> QED BY <1>1, <1>2, <1>3, <1>4, <1>5, <1>6, <1>7 DEF Called

LEMMA CommitKeepsStore ==
  ASSUME StoreInv, NEW t \in Txs, InCommit(t), GitInv', Alone(t)
  PROVE  StoreFollowsMain'
<1>0. TypeInv /\ GitInv /\ main \in Seq(Commits)
  BY DEF StoreInv, GitInv, BaseInv, TypeInv, HistoriesOk
<1> USE DEF Becomes, Same
<1>1. CASE CommitStarts(t)
  BY <1>0, <1>1, StartBecomes, StoreKept DEF CommitStarts
<1>2. CASE CommitCreates(t)
  <2>1. tx[t].branch = main
    BY <1>0, <1>2, BranchInCommit DEF CommitCreates, GitInv, StepsHold, AtStep, CommitSteps, Exists
  <2> QED BY <1>0, <1>2, <2>1, StoreKept, PrefixRefl DEF CommitCreates
<1>3. CASE CommitRecords(t)
  BY <1>0, <1>3, RecordBecomes, StoreKept DEF CommitRecords
<1>4. CASE CommitLoads(t)
  <2>1. tx[t].pc = "load" /\ store' = Tree(tx[t].branch) /\ main' = main /\ sync' = sync
    BY <1>4 DEF CommitLoads, Reaches, Unsynced
  <2>2. "rehydrated" \in tx'[t].mem /\ tx'[t].branch = tx[t].branch
    BY <1>0, <1>4, LoadBecomes
  <2>3. tx[t].branch = main \/ ~IsPrefix(tx[t].branch, main)
    BY <1>0, <2>1, BranchInCommit DEF CommitSteps
  <2> QED BY <2>1, <2>2, <2>3 DEF StoreFollowsMain, Dirty
<1>5. CASE CommitMerges(t)
  <2>1. tx[t].pc = "merge" /\ main' = tx[t].branch /\ store' = store /\ lapses' = lapses
    BY <1>5 DEF CommitMerges
  <2>2. store = Tree(tx[t].branch) \/ Lapsed(t, "hydrate")
    BY <2>1 DEF StoreInv, MergeIsLoaded
  <2> QED BY <2>1, <2>2 DEF StoreFollowsMain, Dirty, Lapsed
<1>6. CASE CommitRecordsMerge(t)
  <2>1. tx[t].branch = main
    BY <1>6 DEF CommitRecordsMerge, StoreInv, GitInv, StepsHold, AtStep
  <2> QED BY <1>0, <1>6, <2>1, StoreKept, PrefixRefl DEF CommitRecordsMerge
<1> QED BY <1>1, <1>2, <1>3, <1>4, <1>5, <1>6 DEF InCommit

LEMMA RefreshKeepsStore ==
  ASSUME StoreInv, NEW t \in Txs, GitInv', Alone(t), main' = main,
         InRefresh(t) \/ DropBranchDB(t) \/ DeleteBranch(t) \/ FailCleanup(t) \/ FailRefresh(t)
  PROVE  StoreFollowsMain'
<1>1. store' = store /\ lapses \subseteq lapses'
  BY DEF InRefresh, RefreshResets, RefreshMarks, RefreshSwaps, RefreshAborts, RefreshEnds,
     DropBranchDB, DeleteBranch, FailCleanup, FailRefresh
<1>2. tx[t].pc \in RefreshSteps \cup CleanupSteps
  BY DEF InRefresh, RefreshResets, RefreshMarks, RefreshSwaps, RefreshAborts, RefreshEnds,
     DropBranchDB, DeleteBranch, FailCleanup, FailRefresh, Reaches, RefreshSteps, CleanupSteps
<1>3. "rehydrated" \notin tx[t].mem
  BY <1>2 DEF StoreInv, GitInv, BaseInv, TypeInv, TxsSound, Sound, FlagsFit
<1> QED BY <1>1, <1>3, StoreKept

LEMMA CollectKeepsStore ==
  ASSUME StoreInv, NEW t \in Txs, GitInv', Alone(t), main' = main, Collect(t)
  PROVE  StoreFollowsMain'
<1>1. store' = (IF CommittedBy(t, main) THEN RestoredStore(t) ELSE Tree(main)) /\ lapses' = lapses
  BY DEF Collect
<1>2. /\ store' = store \/ store' = Tree(main)
      /\ "rehydrated" \in tx[t].mem => store' = Tree(main)
  BY <1>1 DEF RestoredStore, Has
<1>3. "rehydrated" \in tx[t].mem => StoreFollowsMain'
  BY <1>2 DEF StoreFollowsMain
<1> QED BY <1>1, <1>2, <1>3, StoreKept

LEMMA FailedCommitKeepsStore ==
  ASSUME StoreInv, NEW t \in Txs, GitInv', Alone(t), main' = main, FailCommit(t)
  PROVE  StoreFollowsMain'
<1>0. TypeInv /\ GitInv /\ main \in Seq(Commits)
  BY DEF StoreInv, GitInv, BaseInv, TypeInv, HistoriesOk
<1>1. PICK mem \in SUBSET Flags, dur \in SavedFlags :
        /\ Becomes(t, "open", tx[t].op, tx[t].branch, tx[t].base, mem, dur)
        /\ \/ store' = store
           \/ /\ tx[t].pc = "load" /\ store' = Tree(tx[t].branch)
              /\ Exists(t) => "rehydrated" \in mem
        /\ Exists(t) /\ tx[t].pc # "merged" /\ "rehydrated" \in tx[t].mem
             => "rehydrated" \in mem
  BY <1>0, FailedCommitBecomes
<1>2. tx[t].pc \in CommitSteps /\ tx[t].pc \in Active /\ lapses' = lapses
  BY DEF FailCommit, Active, Locked
<1>3. tx'[t].branch = tx[t].branch /\ tx'[t].mem = mem
  BY <1>1 DEF Becomes, Same
<1>4. CASE store' = store
  <2>1. tx[t].pc = "merged" => tx[t].branch = main
    BY <1>0 DEF GitInv, StepsHold, AtStep
  <2> QED BY <1>0, <1>1, <1>2, <1>3, <1>4, <2>1, OffMainExists, StoreKept, PrefixRefl
<1>5. CASE tx[t].pc = "load" /\ store' = Tree(tx[t].branch) /\ (Exists(t) => "rehydrated" \in mem)
  <2>1. tx[t].branch = main \/ ~IsPrefix(tx[t].branch, main)
    BY <1>0, <1>5, BranchInCommit DEF CommitSteps
  <2>2. CASE tx[t].branch = main
    BY <1>5, <2>2 DEF StoreFollowsMain
  <2>3. CASE ~IsPrefix(tx[t].branch, main)
    <3>1. "rehydrated" \in mem
      BY <1>0, <1>2, <1>5, <2>3, OffMainExists
    <3> QED BY <1>3, <2>3, <3>1 DEF StoreFollowsMain, Dirty
  <2> QED BY <2>1, <2>2, <2>3
<1> QED BY <1>1, <1>4, <1>5

\* A step that leaves main, main.lbug and every flag alone.
LEMMA StoreUntouched ==
  ASSUME StoreInv, main' = main, store' = store, sync'.unhydrated = sync.unhydrated,
         sync'.skipped = sync.skipped,
         lapses \subseteq lapses',
         \A u \in Txs : "rehydrated" \in tx[u].mem =>
                          tx'[u].mem = tx[u].mem /\ tx'[u].branch = tx[u].branch
  PROVE  StoreFollowsMain'
BY DEF StoreInv, StoreFollowsMain, Dirty, Lapsed

LEMMA WaitingHasNoFlags ==
  ASSUME GitInv, NEW u \in Txs, tx[u].pc = "wait" PROVE tx[u].mem = {}
BY DEF GitInv, BaseInv, TypeInv, TxsSound, Sound, StepFits, Active, Locked, CommitSteps,
   RefreshSteps, CleanupSteps

LEMMA FreeKeepsStore ==
  ASSUME StoreInv, CycleRuns \/ CycleLocks \/ HydrationFails \/ CheckoutFails \/ CycleFails \/ PeerPushes
  PROVE  StoreFollowsMain'
<1>0. GitInv /\ BaseInv
  BY DEF StoreInv, GitInv
<1>1. \A u \in Txs : "rehydrated" \in tx[u].mem =>
                       tx'[u].mem = tx[u].mem /\ tx'[u].branch = tx[u].branch
  BY <1>0, FreeStep, WaitingHasNoFlags
<1>2. CASE Fetches
  <2>1. /\ main' = IF NewData THEN remote ELSE main
        /\ store' = IF NewData \/ sync.unhydrated THEN Tree(main') ELSE store
        /\ lapses' = lapses
    BY <1>2 DEF Fetches
  <2>2. CASE NewData \/ sync.unhydrated
    BY <2>1, <2>2 DEF StoreFollowsMain
  <2>3. CASE ~(NewData \/ sync.unhydrated)
    <3>1. sync'.unhydrated = sync.unhydrated /\ sync'.skipped = sync.skipped
      BY <1>0, <1>2, <2>3, FetchesIs DEF SyncIs, BaseInv, TypeInv, SyncType
    <3> QED BY <1>1, <2>1, <2>3, <3>1, StoreUntouched
  <2> QED BY <2>2, <2>3
<1>3. CASE HydrationFails
  <2>1. sync'.unhydrated = TRUE
    BY <1>0, <1>3 DEF HydrationFails, BaseInv, TypeInv, SyncType
  <2> QED BY <2>1 DEF StoreFollowsMain
<1>4. CASE CycleRuns \/ CycleFails \/ PeerPushes \/ FetchDiverges \/ Pushes \/ PushIsRejected
  <2>1. main' = main /\ store' = store /\ lapses' = lapses
    BY <1>4 DEF CycleRuns, CycleFails, PeerPushes, FetchDiverges, Pushes, PushIsRejected,
       NothingToPush, PushBegins, Delivers
  <2>2. sync'.unhydrated = sync.unhydrated /\ sync'.skipped = sync.skipped
    BY <1>0, <1>4, IdleIs, PushBeginsIs, PushesIs, DeliversIs
       DEF CycleRuns, CycleFails, PeerPushes, FetchDiverges, PushIsRejected, NothingToPush, SyncIs
  <2> QED BY <1>1, <2>1, <2>2, StoreUntouched
<1>5. CASE CheckoutFails
  <2>1. sync'.skipped = Len(main')
    BY <1>0, <1>5 DEF CheckoutFails, BaseInv, TypeInv, SyncType
  <2> QED BY <2>1 DEF StoreFollowsMain
<1> QED BY <1>2, <1>3, <1>4, <1>5 DEF CycleLocks

\* The steps after which t is about to merge.
LEMMA ReachesMerge ==
  ASSUME TypeInv, NEW t \in Txs, Own(t), tx'[t].pc = "merge"
  PROVE  CommitBegins(t) \/ CommitLoads(t)
<1> USE DEF Becomes, Same
<1>1. CASE Called(t)
  BY <1>1, BeginBecomes, MutateBecomes, RollbackBecomes, RefreshBegunBecomes, ResumeBecomes, EmptyBecomes,
     FoundBecomes, RefusedBecomes DEF Called, RefreshIsNotSaved, Refreshable
<1>2. CASE InCommit(t)
  <2>1. CASE CommitRecords(t)
    <3>1. "created" \notin tx[t].mem /\ Valid(tx[t].mem)
      BY <2>1 DEF CommitRecords, Reaches, TypeInv, TxsSound, Sound, FlagsFit
    <3>2. NextAfterCreated(tx[t].mem) = "load"
      BY <3>1 DEF NextAfterCreated, Valid
    <3> QED BY <2>1, <3>2, RecordBecomes
  <2> QED BY <1>2, <2>1, StartBecomes, CreateBecomes, MergeBecomes, MergedBecomes DEF InCommit
<1>3. CASE InRefresh(t)
  BY <1>3, ResetBecomes, MarkBecomes, SwapBecomes, AbortBecomes, RefreshedBecomes DEF InRefresh
<1>4. CASE DropBranchDB(t) \/ Collect(t)
  BY <1>4, DropBecomes, CollectBecomes
<1>5. CASE DeleteBranch(t)
  BY <1>5, DeletedBecomes DEF Outcomes
<1>6. CASE Fails(t)
  BY <1>6, FailedCommitBecomes, FailedCleanupBecomes, FailedRefreshBecomes DEF Fails
<1> QED BY <1>1, <1>2, <1>3, <1>4, <1>5, <1>6 DEF Own

LEMMA OwnKeepsStore ==
  ASSUME StoreInv, NEW t \in Txs, Own(t) PROVE StoreInv'
<1>1. GitInv' /\ Alone(t) /\ GitInv
  BY OwnKeepsGit, OwnTypes DEF StoreInv, GitInv, Own
<1>2. \A u \in Txs : tx[u].pc \in Locked /\ u # t => store' = store
  <2> SUFFICES ASSUME NEW u \in Txs, tx[u].pc \in Locked, u # t PROVE store' = store
    OBVIOUS
  <2>1. ~GitFree /\ tx[t].pc \notin Locked
    BY DEF GitFree, StoreInv, GitInv, OneAtWork
  <2>2. CASE Called(t)
    BY <2>1, <2>2, MutateBecomes DEF Called, BeginTransaction, RollbackTransaction, RefreshBegins,
       Refreshable, RefreshIsNotSaved,
       CommitResumesCleanup, CommitOfNothing, CommitFindsMerge, CommitIsNotUpToDate, CommitBegins,
       Committing, StoreInv, GitInv, BaseInv
  <2>3. CASE InCommit(t)
    BY <2>1, <2>3 DEF InCommit, Reaches, CommitStarts, CommitCreates, CommitRecords, CommitLoads,
       CommitMerges, CommitRecordsMerge, Locked, CommitSteps
  <2>4. CASE Fails(t)
    BY <2>1, <2>4 DEF Fails, FailCommit, FailCleanup, FailRefresh, Locked
  <2>5. CASE InRefresh(t) \/ DropBranchDB(t) \/ DeleteBranch(t) \/ Collect(t)
    BY <2>1, <2>5 DEF InRefresh, RefreshResets, RefreshMarks, RefreshSwaps, RefreshAborts,
       RefreshEnds, DropBranchDB, DeleteBranch, Collect
  <2> QED BY <2>2, <2>3, <2>4, <2>5 DEF Own
<1>3. lapses \subseteq lapses'
  <2>1. CASE Called(t)
    BY <2>1, MutateBecomes DEF Called, BeginTransaction, RollbackTransaction, RefreshBegins,
       Refreshable, RefreshIsNotSaved,
       CommitResumesCleanup, CommitOfNothing, CommitFindsMerge, CommitIsNotUpToDate, CommitBegins,
       StoreInv, GitInv, BaseInv
  <2>2. CASE InCommit(t) \/ InRefresh(t) \/ Fails(t)
    BY <2>2 DEF InCommit, CommitStarts, CommitCreates, CommitRecords, CommitLoads,
       CommitMerges, CommitRecordsMerge, InRefresh, RefreshResets, RefreshMarks, RefreshSwaps,
       RefreshAborts, RefreshEnds, Fails, FailCommit, FailCleanup, FailRefresh
  <2>3. CASE DropBranchDB(t) \/ DeleteBranch(t) \/ Collect(t)
    BY <2>3 DEF DropBranchDB, DeleteBranch, Collect
  <2> QED BY <2>1, <2>2, <2>3 DEF Own
<1>4. StoreFollowsMain'
  <2>1. CASE InCommit(t)
    BY <1>1, <2>1, CommitKeepsStore
  <2>2. CASE Called(t)
    BY <1>1, <2>2, CalledKeepsStore, CalledFits
  <2>3. CASE InRefresh(t) \/ DropBranchDB(t) \/ DeleteBranch(t) \/ Collect(t) \/ Fails(t)
    <3>1. main' = main
      BY <1>1, <2>3, RefreshFits, CleanupFits
    <3> QED BY <1>1, <2>3, <3>1, RefreshKeepsStore, CollectKeepsStore, FailedCommitKeepsStore DEF Fails
  <2> QED BY <2>1, <2>2, <2>3 DEF Own
<1>5. ASSUME NEW u \in Txs, tx'[u].pc = "merge"
      PROVE  store' = Tree(tx'[u].branch) \/ <<u, "hydrate">> \in lapses'
  <2>1. CASE u # t
    <3>1. tx'[u] = tx[u] /\ tx[u].pc \in Locked
      BY <1>1, <1>5, <2>1 DEF Alone, Locked, CommitSteps
    <3> QED BY <1>2, <1>3, <1>5, <2>1, <3>1 DEF StoreInv, MergeIsLoaded, Lapsed
  <2>2. CASE u = t
    <3>1. CASE CommitBegins(t)
      <4>1. FirstStep(t) = "merge" /\ tx'[t].branch = tx[t].branch
        BY <1>1, <1>5, <2>2, <3>1, BeginsBecomes DEF GitInv, BaseInv, Becomes, Same
      <4>2. store' = store /\ (store # Tree(tx[t].branch) => <<t, "hydrate">> \in lapses')
        BY <3>1, <4>1 DEF CommitBegins, FirstStep
      <4> QED BY <2>2, <4>1, <4>2
    <3>2. CASE CommitLoads(t)
      BY <1>1, <2>2, <3>2, LoadBecomes DEF GitInv, BaseInv, Becomes, Same, CommitLoads
    <3>3. CommitBegins(t) \/ CommitLoads(t)
      BY <1>1, <1>5, <2>2, ReachesMerge DEF GitInv, BaseInv
    <3> QED BY <3>1, <3>2, <3>3
  <2> QED BY <2>1, <2>2
<1> QED BY <1>1, <1>4, <1>5 DEF StoreInv, MergeIsLoaded, Lapsed

LEMMA CrashKeepsStore == ASSUME StoreInv, Crash PROVE StoreInv'
<1>1. GitInv' /\ store' = Tree(main) /\ main' = main /\ tx' = [t \in Txs |-> Recovered(t)]
  BY CrashKeepsGit DEF StoreInv, Crash
<1>2. ASSUME NEW u \in Txs PROVE tx'[u].pc # "merge"
  <2>1. tx'[u] = Recovered(u)
    BY <1>1
  <2> QED BY <2>1, RecoveredIs DEF Same, Outcomes, StoreInv, GitInv, BaseInv
<1> QED BY <1>1, <1>2 DEF StoreInv, StoreFollowsMain, MergeIsLoaded

LEMMA FreeStepKeepsStore ==
  ASSUME StoreInv, CycleRuns \/ CycleLocks \/ HydrationFails \/ CheckoutFails \/ CycleFails \/ PeerPushes
  PROVE  StoreInv'
<1>1. GitInv' /\ GitInv /\ StoreFollowsMain'
  BY FreeKeepsGit, FreeKeepsStore DEF StoreInv
<1>2. lapses' = lapses
  BY DEF CycleRuns, CycleLocks, CycleFails, PeerPushes, HydrationFails, CheckoutFails, Fetches, FetchDiverges, Pushes,
     PushIsRejected, NothingToPush, PushBegins, Delivers
<1>3. ASSUME NEW u \in Txs, tx'[u].pc = "merge"
      PROVE  store' = Tree(tx'[u].branch) \/ <<u, "hydrate">> \in lapses'
  <2>1. tx'[u] = tx[u] /\ tx[u].pc \in Locked
    BY <1>1, <1>3, FreeStep DEF Locked, CommitSteps
  <2>2. store' = store
    BY <2>1 DEF GitFree, CycleRuns, CycleLocks, CycleFails, PeerPushes, HydrationFails, CheckoutFails, Fetches, FetchDiverges,
       Pushes, PushIsRejected, NothingToPush, PushBegins, Delivers
  <2> QED BY <1>2, <1>3, <2>1, <2>2 DEF StoreInv, MergeIsLoaded, Lapsed
<1> QED BY <1>1, <1>3 DEF StoreInv, MergeIsLoaded, Lapsed

LEMMA NextKeepsStore == ASSUME StoreInv, [Next]_vars PROVE StoreInv'
<1>1. CASE UNCHANGED vars
  BY <1>1, NextKeepsGit DEF vars, StoreInv, StoreFollowsMain, MergeIsLoaded, Dirty, Lapsed
<1> QED BY <1>1, OwnKeepsStore, FreeStepKeepsStore, CrashKeepsStore DEF Next, Own

LEMMA InitStore == ASSUME Init PROVE StoreInv
<1>1. \A t \in Txs : tx[t].pc = "new"
  BY NoTxIs DEF Init
<1>2. store = Tree(main)
  <2> DEFINE first == [by |-> Seed, tree |-> [k \in Keys |-> IF k \in Seeded THEN Seed ELSE Absent]]
  <2>1. main = <<first>> /\ store = first.tree
    BY DEF Init
  <2> HIDE DEF first
  <2>2. Last(main) = first
    BY <2>1 DEF Last
  <2> QED BY <2>1, <2>2 DEF Tree
<1> QED BY <1>1, <1>2, InitGit DEF StoreInv, StoreFollowsMain, MergeIsLoaded

LEMMA StoreAlways == Spec => []StoreInv
BY InitStore, NextKeepsStore, PTL DEF Spec

\* Readers of main.lbug see git main once no partial commit, which has a flag
\* to say so, and no failed load of the worker is left: it is flagged, or main
\* has not moved since the worker's checkout failed.
THEOREM MainDatabaseIsMain == Spec => []StoreIsMain
<1>1. StoreInv => StoreIsMain
  BY DEF StoreInv, StoreFollowsMain, Dirty, StoreIsMain
<1> QED BY <1>1, StoreAlways, PTL

-----------------------------------------------------------------------------
(* What an acknowledged commit means.                                      *)

Unpushed(t) == CommittedBy(t, main) /\ ~CommittedBy(t, remote)

\* t waits for the sync worker, or asked for a push and is about to.
Flagged(t) == tx[t].pc = "wait" \/ (tx[t].pc \in CleanupSteps /\ tx[t].op = "resume")

\* A push is still asked for once the one under way is subtracted, and the
\* callers of a cycle that has pushed have nothing left to push.
PushIsAsked ==
  \A t \in Txs : Flagged(t) /\ Unpushed(t) =>
    IF sync.at = "pushed" THEN sync.gen < sync.pending ELSE 0 < sync.pending
ServedArePushed == sync.at = "pushed" => \A t \in sync.serving : ~Unpushed(t)

PushInv == GitInv /\ PushIsAsked /\ ServedArePushed /\ AckedIsPushed

\* What t's own step leaves of t: it is not answered by it, and it has no reason to
\* wait for a push that it had not before, unless the step asks for one.
LEMMA OwnFlags ==
  ASSUME GitInv, NEW t \in Txs, Own(t)
  PROVE  /\ tx'[t].pc # "acked"
         /\ tx'[t].pc = "wait" \/ (tx'[t].pc \in CleanupSteps /\ tx'[t].op = "resume") =>
              /\ tx[t].pc # "merge"
              /\ \/ Flagged(t)
                 \/ SyncIs(sync.at, sync.pending + 1, sync.gen, sync.serving, sync.unhydrated)
<1> USE DEF Becomes, Same, CleanupSteps
<1>0. TypeInv
  BY DEF GitInv, BaseInv
<1>1. CASE Called(t)
  <2>1. CASE CommitResumesCleanup(t)
    BY <1>0, <2>1, ResumeBecomes, PushNeededType DEF CommitResumesCleanup
  <2>2. CASE Mutate(t) \/ CommitIsNotUpToDate(t) \/ CommitBegins(t)
    BY <1>0, <2>2, MutateBecomes, RefusedBecomes, BeginsBecomes DEF FirstStep, NextAfterCreated
  <2> QED BY <1>0, <1>1, <2>1, <2>2, BeginBecomes, RollbackBecomes, RefreshBegunBecomes, EmptyBecomes,
     FoundBecomes DEF Called, RefreshIsNotSaved, Refreshable
<1>2. CASE InCommit(t)
  BY <1>0, <1>2, StartBecomes, CreateBecomes, RecordBecomes, LoadBecomes, MergeBecomes, MergedBecomes
     DEF InCommit, NextAfterCreated
<1>3. CASE InRefresh(t)
  BY <1>0, <1>3, ResetBecomes, MarkBecomes, SwapBecomes, AbortBecomes, RefreshedBecomes DEF InRefresh
<1>4. CASE Collect(t)
  BY <1>0, <1>4, CollectBecomes
<1>5. CASE DropBranchDB(t)
  BY <1>0, <1>5, DropBecomes DEF DropBranchDB, Flagged
<1>6. CASE DeleteBranch(t)
  <2>1. tx[t].pc = "delete" /\ tx[t].op \in {"commit", "resume", "empty", "rollback", "collect"}
    BY <1>6 DEF DeleteBranch, GitInv, BaseInv, TypeInv, TxsSound, Sound, Record, StepFits, Ops
  <2>2. PICK next \in AfterCleanup[tx[t].op] : tx'[t].pc = next
    BY <1>0, <1>6, DeletedBecomes
  <2>3. next # "acked" /\ next \notin CleanupSteps
        /\ (next = "wait" => tx[t].op \in {"commit", "resume"})
    BY <2>1, <2>2 DEF AfterCleanup
  <2>4. tx[t].op = "commit" => SyncIs(sync.at, sync.pending + 1, sync.gen, sync.serving, sync.unhydrated)
    BY <1>0, <1>6, PushNeededType DEF DeleteBranch
  <2> QED BY <2>1, <2>2, <2>3, <2>4 DEF Flagged
<1>7. CASE Fails(t)
  BY <1>0, <1>7, FailedCommitBecomes, FailedCleanupBecomes, FailedRefreshBecomes DEF Fails
<1> QED BY <1>1, <1>2, <1>3, <1>4, <1>5, <1>6, <1>7 DEF Own

LEMMA OwnKeepsRemote == ASSUME TypeInv, NEW t \in Txs, Own(t) PROVE remote' = remote
<1>1. CASE Called(t)
  BY <1>1, MutateBecomes DEF Called, BeginTransaction, RollbackTransaction, RefreshBegins,
       Refreshable, RefreshIsNotSaved,
     CommitResumesCleanup, CommitOfNothing, CommitFindsMerge, CommitIsNotUpToDate, CommitBegins,
     Unsynced
<1>2. CASE InCommit(t) \/ InRefresh(t) \/ Fails(t)
  BY <1>2 DEF InCommit, CommitStarts, CommitCreates, CommitRecords, CommitLoads,
     CommitMerges, CommitRecordsMerge, InRefresh, RefreshResets, RefreshMarks, RefreshSwaps,
     RefreshAborts, RefreshEnds, Fails, FailCommit, FailCleanup, FailRefresh, Unsynced
<1>3. CASE DropBranchDB(t) \/ DeleteBranch(t) \/ Collect(t)
  BY <1>3 DEF DropBranchDB, DeleteBranch, Collect, Unsynced
<1> QED BY <1>1, <1>2, <1>3 DEF Own

LEMMA OwnUnpushed ==
  ASSUME GitInv, NEW t \in Txs, Own(t), NEW u \in Txs, CommittedBy(u, main'), ~CommittedBy(u, remote')
  PROVE  Unpushed(u) \/ (u = t /\ tx[t].pc = "merge")
<1>1. remote' = remote
  BY OwnKeepsRemote DEF GitInv, BaseInv
<1>2. CASE main' = main
  BY <1>1, <1>2 DEF Unpushed
<1>3. ASSUME NEW c \in Commits, c.by = t, main' = Append(main, c), tx[t].pc = "merge"
      PROVE  Unpushed(u) \/ (u = t /\ tx[t].pc = "merge")
  <2>1. CommittedBy(u, main) \/ u = t
    BY <1>3, CommittedInAppended DEF GitInv, BaseInv, TypeInv, HistoriesOk
  <2> QED BY <1>1, <1>3, <2>1 DEF Unpushed
<1> QED BY <1>2, <1>3, OwnFits

LEMMA OwnKeepsPushes ==
  ASSUME PushInv, NEW t \in Txs, Own(t) PROVE PushInv'
<1>1. GitInv /\ GitInv' /\ Alone(t)
  BY OwnKeepsGit, OwnTypes DEF PushInv, GitInv, Own
<1>2. /\ sync'.at = sync.at /\ sync'.gen = sync.gen /\ sync'.serving = sync.serving
      /\ sync'.pending \in {sync.pending, sync.pending + 1}
      /\ sync.pending \in Nat /\ sync.gen \in Nat /\ (sync.at = "pushed" => sync.gen <= sync.pending)
  BY <1>1 DEF Alone, SyncIs, GitInv, BaseInv, TypeInv, SyncType, SyncFits
<1>3. ASSUME NEW u \in Txs, tx'[u].pc = "wait" \/ (tx'[u].pc \in CleanupSteps /\ tx'[u].op = "resume"),
             CommittedBy(u, main'), ~CommittedBy(u, remote')
      PROVE  IF sync.at = "pushed" THEN sync.gen < sync'.pending ELSE 0 < sync'.pending
  <2>1. CASE Flagged(u) /\ Unpushed(u)
    <3>1. IF sync.at = "pushed" THEN sync.gen < sync.pending ELSE 0 < sync.pending
      BY <2>1 DEF PushInv, PushIsAsked
    <3> QED BY <1>2, <3>1
  <2>2. CASE sync'.pending = sync.pending + 1
    BY <1>2, <2>2
  <2>3. CASE u = t
    <3>1. Unpushed(t)
      BY <1>1, <1>3, <2>3, OwnFlags, OwnUnpushed
    <3> QED BY <1>1, <1>3, <2>1, <2>2, <2>3, <3>1, OwnFlags DEF SyncIs
  <2>4. CASE u # t
    <3>1. Unpushed(u) /\ tx'[u] = tx[u]
      BY <1>1, <1>3, <2>4, OwnUnpushed DEF Alone
    <3> QED BY <1>3, <2>1, <3>1 DEF Flagged
  <2> QED BY <2>3, <2>4
<1>4. PushIsAsked'
  BY <1>2, <1>3 DEF PushIsAsked, Flagged, Unpushed
<1>5. ServedArePushed'
  <2>1. \A u \in sync.serving : u \in Txs /\ u # t /\ tx[u].pc = "wait"
    BY <1>1, OwnTypes DEF GitInv, BaseInv, ServedWait, Waiting, Own
  <2> QED BY <1>1, <1>2, <2>1, OwnUnpushed DEF PushInv, ServedArePushed, Unpushed
<1>6. AckedIsPushed'
  <2> SUFFICES ASSUME NEW u \in Txs, tx'[u].pc = "acked", CommittedBy(u, main') PROVE CommittedBy(u, remote')
    BY DEF AckedIsPushed
  <2>1. u # t /\ tx[u].pc = "acked"
    BY <1>1, OwnFlags DEF Alone
  <2>2. ~Unpushed(u)
    BY <2>1 DEF PushInv, AckedIsPushed, Unpushed
  <2> QED BY <1>1, <2>1, <2>2, OwnUnpushed
<1> QED BY <1>1, <1>4, <1>5, <1>6 DEF PushInv

\* The remote only grows, and main takes nothing but what the remote has.
LEMMA FreeUnpushed ==
  ASSUME GitInv, GitInv', CycleRuns \/ CycleLocks \/ HydrationFails \/ CheckoutFails \/ CycleFails \/ PeerPushes,
         NEW u \in Txs, CommittedBy(u, main'), ~CommittedBy(u, remote')
  PROVE  Unpushed(u)
<1>0. main \in Seq(Commits) /\ remote \in Seq(Commits) /\ remote' \in Seq(Commits)
  BY DEF GitInv, BaseInv, TypeInv, HistoriesOk
<1>1. remote' = remote \/ IsPrefix(remote, remote')
  <2>1. CASE PeerPushes
    <3>1. PICK k \in Keys : remote' = Append(remote, [by |-> Peer, tree |-> [Tree(remote) EXCEPT ![k] = Peer]])
      BY <2>1 DEF PeerPushes
    <3> DEFINE c == [by |-> Peer, tree |-> [Tree(remote) EXCEPT ![k] = Peer]]
    <3>2. c \in Commits
      <4>1. Tree(remote) \in Trees
        BY TreeType DEF GitInv, BaseInv, TypeInv, HistoriesOk
      <4> QED BY <4>1 DEF Commits, Trees, Contents, Writers
    <3> HIDE DEF c
    <3> QED BY <1>0, <3>1, <3>2, PrefixOfAppended DEF c
  <2>2. CASE CycleRuns \/ CycleLocks \/ HydrationFails \/ CheckoutFails \/ CycleFails
    BY <2>2 DEF CycleRuns, CycleLocks, HydrationFails, CheckoutFails, CycleFails, Fetches, FetchDiverges,
       NothingToPush, PushBegins, Pushes, Delivers, PushIsRejected
  <2> QED BY <2>1, <2>2
<1>2. ~CommittedBy(u, remote)
  BY <1>0, <1>1, CommittedInPrefix
<1>3. CASE main' = main
  BY <1>2, <1>3 DEF Unpushed
<1>4. CASE main' = remote
  BY <1>2, <1>4
<1> QED BY <1>3, <1>4, FreeStep

LEMMA FreeKeepsPushes ==
  ASSUME PushInv, CycleRuns \/ CycleLocks \/ HydrationFails \/ CheckoutFails \/ CycleFails \/ PeerPushes
  PROVE  PushInv'
<1>1. GitInv /\ BaseInv /\ GitInv'
  BY FreeKeepsGit DEF PushInv, GitInv
<1>2. sync.pending \in Nat /\ sync.gen \in Nat
  BY <1>1 DEF BaseInv, TypeInv, SyncType
<1>3. ASSUME NEW u \in Txs, CommittedBy(u, main'), ~CommittedBy(u, remote'),
             tx'[u].pc = "wait" \/ (tx'[u].pc \in CleanupSteps /\ tx'[u].op = "resume")
      PROVE  Unpushed(u) /\ Flagged(u)
             /\ IF sync.at = "pushed" THEN sync.gen < sync.pending ELSE 0 < sync.pending
  <2>1. Unpushed(u) /\ Flagged(u)
    BY <1>1, <1>3, FreeStep, FreeUnpushed DEF Flagged, CleanupSteps
  <2> QED BY <2>1 DEF PushInv, PushIsAsked
<1>4. ASSUME NEW u \in Txs, CommittedBy(u, main'), tx'[u].pc = "acked"
      PROVE  CommittedBy(u, remote')
  <2> SUFFICES ASSUME ~CommittedBy(u, remote') PROVE FALSE
    OBVIOUS
  <2>1. Unpushed(u)
    BY <1>1, <1>4, FreeUnpushed
  <2>2. tx[u].pc # "acked"
    BY <2>1 DEF PushInv, AckedIsPushed, Unpushed
  <2>3. tx[u].pc = "wait" /\ tx'[u] # tx[u]
    BY <1>1, <1>4, <2>2, FreeStep
  <2>4. IF sync.at = "pushed" THEN sync.gen < sync.pending ELSE 0 < sync.pending
    BY <2>1, <2>3 DEF PushInv, PushIsAsked, Flagged
  <2>5. Answered(sync.serving, "acked") /\ (NothingToPush \/ Delivers)
    <3>1. CASE tx' = tx
      BY <2>3, <3>1
    <3>2. ASSUME NEW served \in SUBSET Waiting, Answered(served, "committed") PROVE FALSE
      BY <1>4, <2>3, <3>2 DEF Answered
    <3> QED BY <1>1, <3>1, <3>2, AnswersAre DEF CycleRuns, CycleLocks, HydrationFails, CheckoutFails, CycleFails, PeerPushes,
          Fetches, FetchDiverges, NothingToPush, PushBegins, Pushes, Delivers, PushIsRejected, BaseInv, Served, ServedWait
  <2>6. CASE NothingToPush
    BY <2>4, <2>6 DEF NothingToPush
  <2>7. CASE Delivers
    <3>1. u \in sync.serving /\ sync.at = "pushed"
      BY <2>3, <2>5, <2>7 DEF Answered, Delivers
    <3> QED BY <2>1, <3>1 DEF PushInv, ServedArePushed
  <2> QED BY <2>5, <2>6, <2>7
<1>5. AckedIsPushed'
  BY <1>4 DEF AckedIsPushed
<1>6. PushIsAsked' /\ ServedArePushed'
  <2>1. CASE Fetches
    <3>1. sync'.at = "push" /\ sync'.pending = sync.pending /\ sync.at = "idle"
      BY <1>1, <2>1, FetchesIs DEF SyncIs, Fetches
    <3> QED BY <1>3, <3>1 DEF PushIsAsked, ServedArePushed, Flagged, Unpushed
  <2>2. CASE PushBegins
    <3>1. sync'.at = "pushing" /\ sync'.pending = sync.pending /\ sync.at = "push"
      BY <1>1, <2>2, PushBeginsIs DEF SyncIs, PushBegins
    <3> QED BY <1>3, <3>1 DEF PushIsAsked, ServedArePushed, Flagged, Unpushed
  <2>3. CASE Pushes
    <3>1. main' = main /\ remote' = main
      BY <2>3 DEF Pushes
    <3> QED BY <3>1 DEF PushIsAsked, ServedArePushed, Unpushed
  <2>4. CASE Delivers
    <3>1. sync'.at = "idle" /\ sync'.pending = sync.pending - sync.gen /\ sync.at = "pushed"
      BY <1>1, <2>4, DeliversIs DEF SyncIs, Delivers
    <3>2. sync.gen < sync.pending => 0 < sync.pending - sync.gen
      BY <1>2
    <3> QED BY <1>3, <3>1, <3>2 DEF PushIsAsked, ServedArePushed, Flagged, Unpushed
  <2>5. CASE NothingToPush \/ PushIsRejected \/ CycleFails
    <3>1. sync'.at = "idle" /\ sync'.pending = sync.pending /\ sync.at # "pushed"
      BY <1>1, <2>5, IdleIs DEF SyncIs, NothingToPush, PushIsRejected, CycleFails
    <3> QED BY <1>3, <3>1 DEF PushIsAsked, ServedArePushed, Flagged, Unpushed
  <2>6. CASE HydrationFails \/ CheckoutFails
    <3>1. sync'.at = "idle" /\ sync'.pending = sync.pending /\ sync.at = "idle"
      BY <1>1, <2>6 DEF HydrationFails, CheckoutFails, BaseInv, TypeInv, SyncType
    <3> QED BY <1>3, <3>1 DEF PushIsAsked, ServedArePushed, Flagged, Unpushed
  <2>7. CASE FetchDiverges \/ PeerPushes
    <3>1. sync' = sync
      BY <2>7 DEF FetchDiverges, PeerPushes
    <3> QED BY <1>1, <1>3, <2>7, <3>1, FreeUnpushed DEF PushIsAsked, ServedArePushed, Flagged, Unpushed, PushInv,
            BaseInv, TypeInv, SyncType
  <2> QED BY <2>1, <2>2, <2>3, <2>4, <2>5, <2>6, <2>7 DEF CycleRuns, CycleLocks
<1> QED BY <1>1, <1>5, <1>6 DEF PushInv

LEMMA CrashKeepsPushes == ASSUME PushInv, Crash PROVE PushInv'
<1>1. GitInv' /\ TypeInv /\ main' = main /\ remote' = remote /\ tx' = [t \in Txs |-> Recovered(t)]
  BY CrashKeepsGit DEF PushInv, GitInv, BaseInv, Crash
<1>2. sync'.at = "idle"
  BY <1>1 DEF Crash, TypeInv, SyncType
<1>3. ASSUME NEW u \in Txs
      PROVE  /\ tx'[u].pc # "wait" /\ tx'[u].pc \notin CleanupSteps
             /\ tx'[u].pc = "acked" => tx[u].pc = "acked"
  <2>1. tx'[u] = Recovered(u)
    BY <1>1
  <2> QED BY <1>1, <2>1, RecoveredIs DEF Same, Outcomes, CleanupSteps
<1> QED BY <1>1, <1>2, <1>3 DEF PushInv, PushIsAsked, ServedArePushed, AckedIsPushed, Flagged

LEMMA NextKeepsPushes == ASSUME PushInv, [Next]_vars PROVE PushInv'
<1>1. CASE UNCHANGED vars
  BY <1>1, NextKeepsGit DEF vars, PushInv, PushIsAsked, ServedArePushed, AckedIsPushed, Flagged, Unpushed
<1> QED BY <1>1, OwnKeepsPushes, FreeKeepsPushes, CrashKeepsPushes DEF Next, Own

LEMMA InitPushes == ASSUME Init PROVE PushInv
<1>1. \A t \in Txs : tx[t].pc = "new"
  BY NoTxIs DEF Init
<1>2. sync.at = "idle"
  BY DEF Init
<1> QED BY <1>1, <1>2, InitGit DEF PushInv, PushIsAsked, ServedArePushed, AckedIsPushed, Flagged, CleanupSteps

LEMMA PushesAlways == Spec => []PushInv
BY InitPushes, NextKeepsPushes, PTL DEF Spec

\* WithAck: a caller that waited and was told success finds its commit in the
\* remote, whatever the worker was doing when it asked.
THEOREM AcksArePushed == Spec => []AckedIsPushed
BY PushesAlways, PTL DEF PushInv

-----------------------------------------------------------------------------
(* What a transaction did: its database, its change log and the history of *)
(* what it saw and wanted.                                                 *)

\* A step that keeps t's database, log and wishes.
KeepsData(t) ==
  tx'[t].db = tx[t].db /\ tx'[t].log = tx[t].log /\ touched'[t] = touched[t]

LEMMA CommitKeepsData ==
  ASSUME TypeInv, NEW t \in Txs, InCommit(t) \/ FailCommit(t) \/ FailCleanup(t)
  PROVE  /\ KeepsData(t) /\ tx'[t].before = tx[t].before /\ touched' = touched
         /\ lapses' = lapses \/ (lapses \subseteq lapses' /\ CommitCreates(t) /\ Outdates(t) /\ <<t, "changes">> \in lapses')
<1> tx \in [Txs -> Record]
  BY DEF TypeInv, TxsSound, Sound
<1> USE DEF KeepsData, Record
<1>1. CASE CommitStarts(t) \/ CommitRecords(t) \/ CommitLoads(t)
  BY <1>1 DEF CommitStarts, CommitRecords, CommitLoads, Reaches
<1>2. CASE CommitMerges(t) \/ CommitRecordsMerge(t)
  BY <1>2 DEF CommitMerges, CommitRecordsMerge
<1>5. CASE CommitCreates(t)
  <2>1. PICK branch : tx' = [tx EXCEPT ![t].pc = "created", ![t].branch = branch]
    BY <1>5 DEF CommitCreates
  <2>2. touched' = touched /\ lapses' = IF Outdates(t) THEN lapses \cup {<<t, "changes">>} ELSE lapses
    BY <1>5 DEF CommitCreates
  <2>3. tx'[t].db = tx[t].db /\ tx'[t].log = tx[t].log /\ tx'[t].before = tx[t].before
    BY <2>1
  <2> QED BY <1>5, <2>2, <2>3
<1>3. CASE FailCommit(t)
  <2>1. PICK mem, dur : tx' = [tx EXCEPT ![t].pc = "open", ![t].mem = mem, ![t].dur = dur]
    BY <1>3, Zenon DEF FailCommit
  <2>2. touched' = touched /\ lapses' = lapses
    BY <1>3 DEF FailCommit
  <2>3. /\ tx'[t].db = tx[t].db /\ tx'[t].log = tx[t].log /\ tx'[t].before = tx[t].before
    BY <2>1
  <2> QED BY <2>2, <2>3
<1>4. CASE FailCleanup(t)
  BY <1>4 DEF FailCleanup
<1> QED BY <1>1, <1>2, <1>3, <1>4, <1>5 DEF InCommit

LEMMA CallKeepsData ==
  ASSUME TypeInv, NEW t \in Txs, Called(t) \/ Collect(t), ~BeginTransaction(t), ~Mutate(t)
  PROVE  KeepsData(t) /\ touched' = touched /\ lapses \subseteq lapses'
<1> tx \in [Txs -> Record]
  BY DEF TypeInv, TxsSound, Sound
<1> USE DEF KeepsData, Record
<1>1. CASE RollbackTransaction(t) \/ CommitResumesCleanup(t) \/ CommitOfNothing(t)
  BY <1>1 DEF RollbackTransaction, CommitResumesCleanup, CommitOfNothing, CleansUp
<1>2. CASE RefreshBegins(t)
  BY <1>2 DEF RefreshBegins
<1>3. CASE CommitFindsMerge(t) \/ CommitIsNotUpToDate(t)
  BY <1>3 DEF CommitFindsMerge, CommitIsNotUpToDate
<1>4. CASE CommitBegins(t)
  BY <1>4 DEF CommitBegins
<1>5. CASE Collect(t)
  BY <1>5 DEF Collect
<1>6. CASE RefreshIsNotSaved(t)
  BY <1>6 DEF RefreshIsNotSaved
<1> QED BY <1>1, <1>2, <1>3, <1>4, <1>5, <1>6 DEF Called

LEMMA RefreshKeepsData ==
  ASSUME TypeInv, NEW t \in Txs, RefreshResets(t) \/ RefreshMarks(t) \/ RefreshEnds(t)
  PROVE  KeepsData(t) /\ touched' = touched /\ lapses' = lapses
<1> tx \in [Txs -> Record]
  BY DEF TypeInv, TxsSound, Sound
<1> QED BY DEF KeepsData, Record, RefreshResets, RefreshMarks, RefreshEnds, Reaches

LEMMA FailedRefreshData ==
  ASSUME TypeInv, NEW t \in Txs, FailRefresh(t)
  PROVE  /\ touched' = touched /\ lapses \subseteq lapses'
         /\ \/ <<t, "changes">> \in lapses'
            \/ tx[t].pc = "reset" /\ ~Exists(t) /\ KeepsData(t)
<1> tx \in [Txs -> Record]
  BY DEF TypeInv, TxsSound, Sound
<1>1. touched' = touched /\ lapses \subseteq lapses'
  BY DEF FailRefresh
<1>2. CASE tx[t].pc = "reset" /\ ~Exists(t)
  <2>1. PICK marked \in SUBSET {"refreshing"}, left \in {tx[t].db}, dur \in {tx[t].dur, RecordKept(t)} :
          tx' = [tx EXCEPT ![t].pc = "open", ![t].before = None, ![t].mem = @ \cup marked,
                           ![t].db = left, ![t].dur = dur]
    BY <1>2 DEF FailRefresh
  <2>2. tx'[t].db = tx[t].db /\ tx'[t].log = tx[t].log
    BY <2>1 DEF Record
  <2> QED BY <1>1, <1>2, <2>2 DEF KeepsData
<1>3. CASE ~(tx[t].pc = "reset" /\ ~Exists(t))
  BY <1>3 DEF FailRefresh
<1> QED BY <1>1, <1>2, <1>3

\* The database and the log of t say the same of what t did: `did` is what the
\* history has of t.
Entered(t, log, k, value) ==
  /\ {<<"add", k>>, <<"mod", k>>, <<"del", k>>} \cap log # {}
  /\ value = Absent => <<"del", k>> \in log
  /\ value # Absent => /\ value = t /\ {<<"add", k>>, <<"mod", k>>} \cap log # {}
                       /\ <<"del", k>> \in log => <<"add", k>> \in log
LogFits(t, db, log, did) ==
  \A k \in Keys :
    /\ did[k] # None => Entered(t, log, k, did[k].want)
    /\ db # None => /\ did[k] # None => did[k].want = db[k]
                    /\ <<"del", k>> \in log /\ db[k] # Absent => <<"add", k>> \in log

LogsFit ==
  \A t \in Txs :
    /\ tx[t].pc \in Active => Lapsed(t, "changes") \/ LogFits(t, tx[t].db, tx[t].log, touched[t])
    /\ tx[t].pc = "new" => tx[t].log = {} /\ \A k \in Keys : touched[t][k] = None

LEMMA RecordsFits ==
  ASSUME TypeInv, NEW t \in Txs, NEW k \in Keys, CreateEntity(t, k) \/ UpdateEntity(t, k) \/ DeleteEntity(t, k),
         LogFits(t, tx[t].db, tx[t].log, touched[t])
  PROVE  LogFits(t, tx'[t].db, tx'[t].log, touched'[t])
<1> DEFINE r == tx[t]  old == touched[t][k]
<1>1. r \in Record /\ r.db \in Trees
  BY DEF TypeInv, TxsSound, Sound, Record, CreateEntity, UpdateEntity, DeleteEntity, Records, Usable
<1>2. PICK kind \in Kinds, value \in {t, Absent} :
        /\ Records(t, kind, k, value)
        /\ \/ kind = "add" /\ r.db[k] = Absent /\ value = t
           \/ kind = "mod" /\ r.db[k] # Absent /\ value = t
           \/ kind = "del" /\ r.db[k] # Absent /\ value = Absent
  BY DEF CreateEntity, UpdateEntity, DeleteEntity, Kinds
<1> DEFINE saw == IF old = None THEN r.db[k] ELSE old.saw
           new == [saw |-> saw, want |-> value]
           log == r.log \cup {<<kind, k>>}
           db == [r.db EXCEPT ![k] = value]
           did == [touched[t] EXCEPT ![k] = new]
<1>3. tx'[t].db = db /\ tx'[t].log = log
  BY <1>1, <1>2 DEF Records, TypeInv, TxsSound, Sound, Record
<1>4. touched'[t] = did
  BY <1>2 DEF Records, TypeInv, TouchedType
<1> USE DEF Entered
<1>5. ASSUME NEW j \in Keys
      PROVE  /\ did[j] # None => Entered(t, log, j, did[j].want) /\ did[j].want = db[j]
             /\ <<"del", j>> \in log /\ db[j] # Absent => <<"add", j>> \in log
  <2>1. CASE j # k
    <3>1. did[j] = touched[t][j] /\ db[j] = r.db[j]
      BY <1>1, <2>1 DEF TypeInv, TouchedType, Trees
    <3>2. \A kd \in Kinds : <<kd, j>> \in log <=> <<kd, j>> \in r.log
      BY <2>1
    <3>3. r.db # None
      BY <1>2 DEF Records, Usable
    <3> HIDE DEF log, db, did
    <3> QED BY <3>1, <3>2, <3>3 DEF LogFits, Kinds
  <2>2. CASE j = k
    <3>1. did[k] = new /\ db[k] = value
      BY <1>1 DEF TypeInv, TouchedType, Trees
    <3>2. <<kind, k>> \in log /\ r.log \subseteq log /\ new.want = value
          /\ (kind # "del" /\ <<"del", k>> \in log => <<"del", k>> \in r.log)
      OBVIOUS
    <3>3. <<"del", k>> \in r.log /\ r.db[k] # Absent => <<"add", k>> \in r.log
      BY <1>2 DEF LogFits, Records, Usable
    <3>4. t # Absent
      BY GraphAssumption
    <3> HIDE DEF log, db, did, new
    <3>5. CASE kind = "add"
      BY <1>2, <2>2, <3>1, <3>2, <3>4, <3>5
    <3>6. CASE kind = "mod"
      BY <1>2, <2>2, <3>1, <3>2, <3>3, <3>4, <3>6
    <3>7. CASE kind = "del"
      BY <1>2, <2>2, <3>1, <3>2, <3>4, <3>7
    <3> QED BY <3>5, <3>6, <3>7 DEF Kinds
  <2> QED BY <2>1, <2>2
<1> HIDE DEF log, db, did
<1> QED BY <1>3, <1>4, <1>5 DEF LogFits

LEMMA SwapFits ==
  ASSUME TypeInv, NEW t \in Txs, LogFits(t, tx[t].db, tx[t].log, touched[t]), ~Recreates(t)
  PROVE  LogFits(t, Reapplied(t), tx[t].log, touched[t])
<1> DEFINE log == tx[t].log  new == Reapplied(t)  did == touched[t]
<1>1. ASSUME NEW k \in Keys
      PROVE  /\ did[k] # None => Entered(t, log, k, did[k].want) /\ did[k].want = new[k]
             /\ <<"del", k>> \in log /\ new[k] # Absent => <<"add", k>> \in log
  <2>1. /\ <<"del", k>> \in log => new[k] = Absent
        /\ <<"del", k>> \notin log /\ {<<"add", k>>, <<"mod", k>>} \cap log # {} => new[k] = t
    BY DEF Reapplied
  <2>2. <<"del", k>> \in log /\ <<"add", k>> \in log /\ did[k] # None => did[k].want = Absent
    BY DEF Recreates
  <2>3. did[k] # None => Entered(t, log, k, did[k].want)
    BY DEF LogFits
  <2> HIDE DEF log, new, did
  <2> QED BY <2>1, <2>2, <2>3 DEF Entered
<1> QED BY <1>1 DEF LogFits, new, did

\* A step of a commit has a database, and so has a refresh that marks its own; a
\* transaction that is over has none.  Only one that a refresh builds, or has
\* built and given up, is without a record.
DatabasesThere ==
  \A t \in Txs :
    /\ tx[t].pc \in CommitSteps \cup {"mark"} => tx[t].db # None
    /\ tx[t].pc \notin Active => tx[t].db = None /\ tx[t].dur = {}
    /\ Missing \in tx[t].dur /\ tx[t].db # None => tx[t].pc = "validate" \/ Lapsed(t, "changes")

LogInv == GitInv /\ LogsFit /\ DatabasesThere

LEMMA BegunIs ==
  ASSUME TypeInv, NEW t \in Txs, BeginTransaction(t)
  PROVE  tx'[t].log = tx[t].log /\ tx'[t].db = Tree(main) /\ touched' = touched /\ lapses' = lapses
         /\ tx[t].pc = "new" /\ tx'[t].pc = "open"
<1> tx \in [Txs -> Record]
  BY DEF TypeInv, TxsSound, Sound
<1> QED BY DEF BeginTransaction, Record

LEMMA DroppedIs ==
  ASSUME TypeInv, NEW t \in Txs, DropBranchDB(t)
  PROVE  tx'[t].log = tx[t].log /\ tx'[t].db = None /\ touched' = touched /\ lapses' = lapses
<1> tx \in [Txs -> Record]
  BY DEF TypeInv, TxsSound, Sound
<1> QED BY DEF DropBranchDB, Record

LEMMA SwappedIs ==
  ASSUME TypeInv, NEW t \in Txs, RefreshSwaps(t)
  PROVE  /\ tx'[t].log = tx[t].log /\ tx'[t].db = Reapplied(t) /\ touched' = touched
         /\ lapses \subseteq lapses' /\ (Recreates(t) => <<t, "changes">> \in lapses')
         /\ tx[t].pc = "swap" /\ tx'[t].pc = "validate"
<1> tx \in [Txs -> Record]
  BY DEF TypeInv, TxsSound, Sound
<1> QED BY DEF RefreshSwaps, Record

\* Whose history a step of t may change, and that lapses are not forgotten.
LEMMA OwnHistory ==
  ASSUME TypeInv, NEW t \in Txs, Own(t)
  PROVE  /\ lapses \subseteq lapses'
         /\ \A u \in Txs \ {t} : touched'[u] = touched[u]
         /\ Mutate(t) \/ touched' = touched
<1>1. CASE Called(t) \/ Collect(t)
  <2>1. CASE Mutate(t)
    <3>1. PICK k \in Keys : CreateEntity(t, k) \/ UpdateEntity(t, k) \/ DeleteEntity(t, k)
      BY <2>1 DEF Mutate
    <3>2. \E kind, value : Records(t, kind, k, value)
      BY <3>1 DEF CreateEntity, UpdateEntity, DeleteEntity
    <3> QED BY <2>1, <3>2 DEF Records, TypeInv, TouchedType
  <2> QED BY <1>1, <2>1, BegunIs, CallKeepsData
<1>2. CASE InCommit(t) \/ FailCommit(t) \/ FailCleanup(t)
  BY <1>2, CommitKeepsData
<1>3. CASE InRefresh(t)
  BY <1>3, RefreshKeepsData, SwappedIs DEF InRefresh, RefreshAborts
<1>4. CASE DropBranchDB(t) \/ DeleteBranch(t)
  BY <1>4, DroppedIs DEF DeleteBranch
<1>5. CASE FailRefresh(t)
  BY <1>5, FailedRefreshData
<1> QED BY <1>1, <1>2, <1>3, <1>4, <1>5 DEF Own, Fails

\* Only the end of a clean-up ends a transaction.
LEMMA OwnStaysActive ==
  ASSUME TypeInv, NEW t \in Txs, Own(t)
  PROVE  \/ ~DeleteBranch(t) /\ tx'[t].pc \in Active
         \/ /\ DeleteBranch(t) /\ tx'[t].pc \in {"wait", "committed", "rolledback", "collected"}
            /\ tx'[t].db = None /\ tx'[t].dur = {}
<1> USE DEF Becomes, Same
<1>1. CASE DeleteBranch(t)
  <2>1. tx[t].op \in {"commit", "resume", "empty", "rollback", "collect"}
    BY <1>1 DEF DeleteBranch, TypeInv, TxsSound, Sound, Record, StepFits, CleanupSteps, Ops
  <2>2. PICK next \in AfterCleanup[tx[t].op] : tx' = [tx EXCEPT ![t] = [NoTx EXCEPT !.pc = next]]
    BY <1>1 DEF DeleteBranch
  <2> DEFINE n == [NoTx EXCEPT !.pc = next]
  <2>3. n.pc = next /\ n.db = None /\ n.dur = {}
    BY DEF NoTx
  <2> HIDE DEF n
  <2>4. tx'[t] = n
    BY <2>2 DEF TypeInv, TxsSound, n
  <2> QED BY <1>1, <2>1, <2>3, <2>4 DEF AfterCleanup
<1>2. CASE ~DeleteBranch(t)
  <2> USE DEF Active, Locked, CommitSteps, RefreshSteps, CleanupSteps
  <2>1. CASE Called(t)
    <3>1. CASE CommitBegins(t)
      <4>1. FirstStep(t) \in Active
        BY DEF FirstStep, NextAfterCreated
      <4> QED BY <1>2, <3>1, <4>1, BeginsBecomes
    <3>2. CASE RefreshIsNotSaved(t)
      BY <1>2, <3>2 DEF RefreshIsNotSaved, Refreshable
    <3> QED BY <1>2, <2>1, <3>1, <3>2, BeginBecomes, MutateBecomes, RollbackBecomes, RefreshBegunBecomes, ResumeBecomes,
            EmptyBecomes, FoundBecomes, RefusedBecomes DEF Called
  <2>2. CASE InCommit(t)
    <3>1. NextAfterCreated(tx[t].mem) \in Active
      BY DEF NextAfterCreated
    <3> QED BY <1>2, <2>2, <3>1, StartBecomes, CreateBecomes, RecordBecomes, LoadBecomes, MergeBecomes, MergedBecomes
            DEF InCommit
  <2>3. CASE InRefresh(t)
    BY <1>2, <2>3, ResetBecomes, MarkBecomes, SwapBecomes, AbortBecomes, RefreshedBecomes DEF InRefresh
  <2>4. CASE DropBranchDB(t) \/ Collect(t)
    BY <1>2, <2>4, DropBecomes, CollectBecomes
  <2>5. CASE Fails(t)
    BY <1>2, <2>5, FailedCommitBecomes, FailedCleanupBecomes, FailedRefreshBecomes DEF Fails
  <2> QED BY <1>2, <2>1, <2>2, <2>3, <2>4, <2>5 DEF Own
<1> QED BY <1>1, <1>2

LEMMA OwnLogFits ==
  ASSUME LogInv, NEW t \in Txs, Own(t)
  PROVE  /\ tx'[t].pc \in Active =>
              <<t, "changes">> \in lapses' \/ LogFits(t, tx'[t].db, tx'[t].log, touched'[t])
         /\ tx'[t].pc # "new"
         /\ tx'[t].pc \in CommitSteps \cup {"mark"} => tx'[t].db # None
<1>0. /\ TypeInv /\ lapses \subseteq lapses'
      /\ tx[t].pc \in Active => <<t, "changes">> \in lapses \/ LogFits(t, tx[t].db, tx[t].log, touched[t])
      /\ tx[t].pc \in CommitSteps \cup {"mark"} => tx[t].db # None
  BY OwnHistory DEF LogInv, GitInv, BaseInv, LogsFit, DatabasesThere, Lapsed
<1> USE DEF Becomes, Same, KeepsData
<1>1. CASE BeginTransaction(t)
  <2>1. tx'[t].log = {} /\ touched'[t] = touched[t] /\ tx'[t].pc = "open" /\ \A k \in Keys : touched[t][k] = None
    BY <1>0, <1>1, BegunIs DEF LogInv, LogsFit
  <2> QED BY <2>1 DEF LogFits, CommitSteps
<1>2. CASE Mutate(t)
  <2>1. tx[t].pc = "open" /\ tx'[t].pc = "open"
    BY <1>0, <1>2, MutateBecomes DEF Mutate, Usable
  <2>2. LogFits(t, tx[t].db, tx[t].log, touched[t]) => LogFits(t, tx'[t].db, tx'[t].log, touched'[t])
    BY <1>0, <1>2, RecordsFits DEF Mutate
  <2> QED BY <1>0, <2>1, <2>2 DEF Active, CommitSteps
<1>3. CASE (Called(t) \/ Collect(t)) /\ ~BeginTransaction(t) /\ ~Mutate(t)
  <2>1. KeepsData(t) /\ tx[t].pc = "open"
    BY <1>0, <1>3, CallKeepsData DEF Called, RollbackTransaction, RefreshBegins, Refreshable, RefreshIsNotSaved, CommitResumesCleanup,
       CommitOfNothing, CommitFindsMerge, CommitIsNotUpToDate, CommitBegins, Committing, Usable, Collect
  <2>2. tx'[t].pc # "new" /\ (tx'[t].pc \in CommitSteps \cup {"mark"} => tx[t].db # None)
    <3>1. CASE RollbackTransaction(t) \/ CommitResumesCleanup(t) \/ CommitOfNothing(t) \/ Collect(t) \/ CommitFindsMerge(t)
      BY <1>0, <3>1, RollbackBecomes, ResumeBecomes, EmptyBecomes, CollectBecomes, FoundBecomes DEF CommitSteps
    <3>2. CASE CommitIsNotUpToDate(t)
      BY <1>0, <3>2, RefusedBecomes DEF CommitSteps
    <3>3. CASE RefreshBegins(t) \/ RefreshIsNotSaved(t)
      BY <1>0, <3>3, <2>1, RefreshBegunBecomes DEF RefreshIsNotSaved, CommitSteps
    <3>4. CASE CommitBegins(t)
      <4>1. FirstStep(t) # "new" /\ tx[t].db # None
        BY <3>4 DEF CommitBegins, Committing, Usable, FirstStep, NextAfterCreated
      <4> QED BY <1>0, <3>4, <4>1, BeginsBecomes
    <3> QED BY <1>3, <3>1, <3>2, <3>3, <3>4 DEF Called
  <2> QED BY <1>0, <2>1, <2>2 DEF Active
<1>4. CASE InCommit(t) \/ FailCommit(t) \/ FailCleanup(t)
  <2>1. KeepsData(t)
    BY <1>0, <1>4, CommitKeepsData
  <2>2. tx[t].pc \in Active /\ (tx[t].pc \in CommitSteps \/ FailCleanup(t))
    BY <1>4 DEF InCommit, CommitStarts, CommitCreates, CommitRecords, CommitLoads, CommitMerges, CommitRecordsMerge,
       Reaches, FailCommit, FailCleanup, Active, Locked, CommitSteps
  <2>3. tx'[t].pc # "new" /\ (FailCleanup(t) => tx'[t].pc = "open")
    BY <1>0, <1>4, StartBecomes, CreateBecomes, RecordBecomes, LoadBecomes, MergeBecomes, MergedBecomes,
       FailedCommitBecomes, FailedCleanupBecomes DEF InCommit, NextAfterCreated
  <2> QED BY <1>0, <2>1, <2>2, <2>3 DEF CommitSteps
<1>5. CASE RefreshResets(t) \/ RefreshMarks(t) \/ RefreshEnds(t)
  <2>1. KeepsData(t)
    BY <1>0, <1>5, RefreshKeepsData
  <2>2. tx[t].pc \in RefreshSteps /\ (RefreshEnds(t) \/ tx[t].pc \in {"reset", "mark"})
    BY <1>5 DEF RefreshResets, RefreshMarks, RefreshEnds, Reaches, RefreshSteps
  <2>3. /\ RefreshEnds(t) => tx'[t].pc = "open"
        /\ RefreshMarks(t) => tx'[t].pc = "swap"
        /\ RefreshResets(t) => tx'[t].pc = IF tx[t].db = None THEN "swap" ELSE "mark"
    <3>1. tx \in [Txs -> Record]
      BY <1>0 DEF TypeInv, TxsSound, Sound
    <3> QED BY <1>0, <3>1, MarkBecomes, RefreshedBecomes DEF RefreshResets, Record
  <2> QED BY <1>0, <1>5, <2>1, <2>2, <2>3 DEF Active, Locked, CommitSteps
<1>6. CASE RefreshSwaps(t)
  <2>1. /\ tx[t].pc = "swap" /\ tx'[t].pc = "validate" /\ touched' = touched
        /\ tx'[t].log = tx[t].log /\ tx'[t].db = Reapplied(t) /\ (Recreates(t) => <<t, "changes">> \in lapses')
    BY <1>0, <1>6, SwappedIs
  <2>2. LogFits(t, tx[t].db, tx[t].log, touched[t]) /\ ~Recreates(t) => LogFits(t, Reapplied(t), tx[t].log, touched[t])
    BY <1>0, <2>1, SwapFits
  <2> QED BY <1>0, <2>1, <2>2 DEF Active, Locked, RefreshSteps, CommitSteps
<1>7. CASE RefreshAborts(t) \/ FailRefresh(t)
  <2>1. \/ <<t, "changes">> \in lapses'
        \/ KeepsData(t) /\ tx[t].pc = "reset"
    BY <1>0, <1>7, FailedRefreshData DEF RefreshAborts
  <2>2. tx'[t].pc = "open"
    BY <1>0, <1>7, AbortBecomes, FailedRefreshBecomes
  <2> QED BY <1>0, <2>1, <2>2 DEF Active, Locked, RefreshSteps, CommitSteps
<1>8. CASE DropBranchDB(t)
  <2>1. tx[t].pc = "drop" /\ tx'[t].pc = "delete" /\ tx'[t].db = None /\ tx'[t].log = tx[t].log /\ touched' = touched
    BY <1>0, <1>8, DroppedIs, DropBecomes DEF DropBranchDB
  <2> QED BY <1>0, <2>1 DEF LogFits, Active, CleanupSteps, CommitSteps
<1>9. CASE DeleteBranch(t)
  <2>1. tx'[t].pc \in {"wait"} \cup Outcomes
    BY <1>0, <1>9, DeletedBecomes
  <2> QED BY <2>1 DEF Outcomes, Active, Locked, CommitSteps, RefreshSteps, CleanupSteps
<1> QED BY <1>1, <1>2, <1>3, <1>4, <1>5, <1>6, <1>7, <1>8, <1>9 DEF Own, InRefresh, Fails

\* What recovery makes of the log and of the history of a transaction that survives.
LEMMA RecoveredFits ==
  ASSUME TypeInv, NEW t \in Txs, Survives(t), LogFits(t, tx[t].db, tx[t].log, touched[t]), Crash
  PROVE  LogFits(t, tx'[t].db, tx'[t].log, touched'[t])
<1> DEFINE r == tx[t]  db == tx[t].db  tree == Baseline(t)  log == Difference(t)
           did == [k \in Keys |-> IF Forgets(t, k) THEN None ELSE touched[t][k]]
<1>1. tx'[t].db = db /\ tx'[t].log = log
  <2>1. tx'[t] = [r EXCEPT !.pc = "open", !.op = "none", !.before = None,
                           !.log = log, !.stale = {}, !.mem = r.dur \ {"hydrated"}]
    BY DEF Crash, Recovered
  <2>2. r \in Record
    BY DEF TypeInv, TxsSound, Sound
  <2> HIDE DEF log
  <2> QED BY <2>1, <2>2 DEF Record
<1>2. touched'[t] = did
  BY DEF Crash
<1>3. db # None
  BY DEF Survives
<1>4. ASSUME NEW k \in Keys
      PROVE  /\ db[k] # tree[k] /\ db[k] = Absent => <<"del", k>> \in log
             /\ db[k] # tree[k] /\ db[k] # Absent => {<<"add", k>>, <<"mod", k>>} \cap log # {}
             /\ <<"del", k>> \in log => db[k] = Absent
  BY DEF Difference
<1>5. ASSUME NEW k \in Keys
      PROVE  did[k] = IF db[k] = tree[k] THEN None ELSE touched[t][k]
  BY DEF Forgets
<1>6. ASSUME NEW k \in Keys
      PROVE  touched[t][k] # None => touched[t][k].want = db[k] /\ (db[k] # Absent => db[k] = t)
  BY <1>3 DEF LogFits, Entered
<1> HIDE DEF log, db, did, tree
<1>7. ASSUME NEW k \in Keys
      PROVE  /\ did[k] # None => Entered(t, log, k, did[k].want) /\ did[k].want = db[k]
             /\ <<"del", k>> \in log /\ db[k] # Absent => <<"add", k>> \in log
  BY <1>4, <1>5, <1>6 DEF Entered
<1> QED BY <1>1, <1>2, <1>7 DEF LogFits

\* The durable record is missing only as DatabasesThere says.
LEMMA OwnRecord ==
  ASSUME LogInv, NEW t \in Txs, Own(t), Missing \in tx'[t].dur, tx'[t].db # None
  PROVE  tx'[t].pc = "validate" \/ <<t, "changes">> \in lapses'
<1>0. /\ TypeInv /\ lapses \subseteq lapses' /\ tx \in [Txs -> Record]
      /\ tx[t].pc \notin Active => tx[t].dur = {}
      /\ Missing \in tx[t].dur /\ tx[t].db # None => tx[t].pc = "validate" \/ <<t, "changes">> \in lapses
  BY OwnHistory DEF LogInv, GitInv, BaseInv, TypeInv, TxsSound, Sound, DatabasesThere, Lapsed
<1>m. Missing \notin Flags /\ tx[t].mem \subseteq Flags
  BY <1>0 DEF Missing, Flags, Milestones, Record
<1>d. Missing \notin Detected(t) /\ Missing \notin Reconciled(t, Detected(t))
  BY <1>m DEF Detected, Reconciled, Void, Missing
<1> USE DEF Becomes, Same, KeepsData
<1>1. CASE BeginTransaction(t)
  BY <1>0, <1>1, BeginBecomes DEF BeginTransaction, Active, Locked, CommitSteps, RefreshSteps, CleanupSteps
<1>2. CASE Mutate(t)
  BY <1>0, <1>2, MutateBecomes DEF Mutate, Usable
<1>3. CASE (Called(t) \/ Collect(t)) /\ ~BeginTransaction(t) /\ ~Mutate(t)
  <2>1. KeepsData(t) /\ tx[t].pc = "open"
    BY <1>0, <1>3, CallKeepsData DEF Called, RollbackTransaction, RefreshBegins, Refreshable, RefreshIsNotSaved, CommitResumesCleanup,
       CommitOfNothing, CommitFindsMerge, CommitIsNotUpToDate, CommitBegins, Committing, Usable, Collect
  <2>2. Missing \in tx[t].dur
    <3>1. CASE RollbackTransaction(t) \/ CommitResumesCleanup(t) \/ CommitOfNothing(t) \/ Collect(t)
      BY <1>0, <3>1, RollbackBecomes, ResumeBecomes, EmptyBecomes, CollectBecomes
    <3>2. CASE CommitFindsMerge(t)
      BY <1>0, <1>d, <3>2, FoundBecomes DEF Missing
    <3>3. CASE CommitIsNotUpToDate(t)
      BY <1>0, <1>d, <3>3, RefusedBecomes
    <3>4. CASE RefreshBegins(t)
      BY <1>0, <1>m, <3>4, RefreshBegunBecomes DEF Void
    <3>5. CASE RefreshIsNotSaved(t)
      BY <3>5 DEF RefreshIsNotSaved
    <3>6. CASE CommitBegins(t)
      BY <1>0, <1>d, <3>6, BeginsBecomes
    <3> QED BY <1>3, <3>1, <3>2, <3>3, <3>4, <3>5, <3>6 DEF Called
  <2> QED BY <1>0, <2>1, <2>2
<1>4. CASE InCommit(t) \/ FailCommit(t) \/ FailCleanup(t)
  <2>1. KeepsData(t)
    BY <1>0, <1>4, CommitKeepsData
  <2>2. tx[t].pc # "validate"
    BY <1>4 DEF InCommit, CommitStarts, CommitCreates, CommitRecords, CommitLoads, CommitMerges, CommitRecordsMerge,
       Reaches, FailCommit, FailCleanup, CommitSteps, CleanupSteps
  <2>3. Missing \in tx[t].dur
    <3>1. CASE InCommit(t)
      BY <1>0, <1>m, <3>1, StartBecomes, CreateBecomes, RecordBecomes, LoadBecomes, MergeBecomes, MergedBecomes
         DEF InCommit, Missing
    <3>2. CASE FailCleanup(t)
      BY <1>0, <3>2, FailedCleanupBecomes
    <3>3. CASE FailCommit(t)
      <4>1. PICK begun \in BOOLEAN, saved \in BOOLEAN :
              LET left == IF begun THEN tx[t].mem \cup {"rehydrated"} ELSE Residue(t)
                  after == Reconciled(t, left)
              IN tx' = [tx EXCEPT ![t].pc = "open", ![t].mem = IF saved \/ Exists(t) THEN after ELSE left,
                                  ![t].dur = IF saved THEN after ELSE IF begun THEN left ELSE @]
        BY <3>3, Zenon DEF FailCommit
      <4> DEFINE left == IF begun THEN tx[t].mem \cup {"rehydrated"} ELSE Residue(t)
                 after == Reconciled(t, left)
      <4>2. Missing \notin tx[t].mem
        BY <1>m
      <4>3. Missing \notin left
        BY <4>2 DEF Residue, Missing
      <4> HIDE DEF left
      <4>4. Missing \notin after
        BY <4>3 DEF Reconciled, Void, Missing
      <4> HIDE DEF after
      <4>5. tx' = [tx EXCEPT ![t].pc = "open", ![t].mem = IF saved \/ Exists(t) THEN after ELSE left,
                             ![t].dur = IF saved THEN after ELSE IF begun THEN left ELSE @]
        BY <4>1 DEF after, left
      <4>6. tx'[t].dur = IF saved THEN after ELSE IF begun THEN left ELSE tx[t].dur
        BY <1>0, <4>5 DEF Record
      <4> QED BY <4>3, <4>4, <4>6
    <3> QED BY <1>4, <3>1, <3>2, <3>3
  <2> QED BY <1>0, <2>1, <2>2, <2>3
<1>5. CASE RefreshResets(t)
  <2>1. KeepsData(t) /\ tx[t].pc = "reset"
    BY <1>0, <1>5, RefreshKeepsData DEF RefreshResets
  <2> QED BY <1>0, <1>5, <2>1, ResetBecomes
<1>6. CASE RefreshMarks(t) \/ RefreshEnds(t)
  BY <1>0, <1>m, <1>6, MarkBecomes, RefreshedBecomes DEF Missing
<1>7. CASE RefreshSwaps(t)
  BY <1>0, <1>7, SwappedIs
<1>8. CASE RefreshAborts(t)
  BY <1>8 DEF RefreshAborts
<1>9. CASE FailRefresh(t)
  <2>1. CASE <<t, "changes">> \in lapses'
    BY <2>1
  <2>2. CASE <<t, "changes">> \notin lapses'
    <3>1. KeepsData(t) /\ tx[t].pc = "reset"
      BY <1>0, <1>9, <2>2, FailedRefreshData
    <3>2. tx'[t].dur = tx[t].dur
      <4>1. PICK marked \in SUBSET {"refreshing"}, left \in {tx[t].db}, dur \in {tx[t].dur} :
              tx' = [tx EXCEPT ![t].pc = "open", ![t].before = None, ![t].mem = @ \cup marked,
                               ![t].db = left, ![t].dur = dur]
        <5>1. tx[t].pc = "reset"
          BY <3>1
        <5>2. FailRefresh(t)
          BY <1>9
        <5> HIDE DEF KeepsData
        <5> QED BY ONLY <5>1, <5>2 DEF FailRefresh
      <4> QED BY <1>0, <4>1 DEF Record
    <3> QED BY <1>0, <3>1, <3>2
  <2> QED BY <2>1, <2>2
<1>10. CASE DropBranchDB(t)
  BY <1>0, <1>10, DroppedIs
<1>11. CASE DeleteBranch(t)
  BY <1>0, <1>11, OwnStaysActive, OwnHistory DEF Own
<1> QED BY <1>1, <1>2, <1>3, <1>4, <1>5, <1>6, <1>7, <1>8, <1>9, <1>10, <1>11 DEF Own, InRefresh, Fails

LEMMA CrashKeepsLogs == ASSUME LogInv, Crash PROVE LogInv'
<1>1. GitInv' /\ TypeInv /\ lapses \subseteq lapses' /\ tx' = [t \in Txs |-> Recovered(t)]
  BY CrashKeepsGit DEF LogInv, GitInv, BaseInv, Crash
<1>2. ASSUME NEW u \in Txs
      PROVE  /\ tx'[u].pc \in Active =>
                  <<u, "changes">> \in lapses' \/ LogFits(u, tx'[u].db, tx'[u].log, touched'[u])
             /\ tx'[u].pc = "new" => tx'[u].log = {} /\ \A k \in Keys : touched'[u][k] = None
             /\ tx'[u].pc \notin CommitSteps \cup {"mark"}
             /\ tx'[u].pc \notin Active => tx'[u].db = None /\ tx'[u].dur = {}
             /\ tx'[u].db # None => Missing \notin tx'[u].dur
  <2>1. tx'[u] = Recovered(u)
    BY <1>1
  <2>2. CASE Survives(u)
    <3>1. tx[u].pc \in Active /\ tx'[u].pc = "open"
      BY <1>1, <2>1, <2>2, RecoveredIs DEF Same, Survives, Active, Outcomes, Locked, CommitSteps, RefreshSteps, CleanupSteps
    <3>2. Missing \notin tx'[u].dur
      BY <1>1, <2>1, <2>2, RecoveredIs DEF Same, Survives, Active, Outcomes, Locked, CommitSteps, RefreshSteps, CleanupSteps
    <3> QED BY <1>1, <2>2, <3>1, <3>2, RecoveredFits DEF LogInv, LogsFit, Lapsed, CommitSteps, Active
  <2>3. CASE ~Survives(u)
    <3>1. /\ tx'[u].pc \notin Active
          /\ tx'[u].pc = "new" => tx'[u] = tx[u]
      BY <1>1, <2>1, <2>3, RecoveredIs DEF Same, Active, Locked, CommitSteps, RefreshSteps, CleanupSteps, Outcomes
    <3>2. touched'[u] = [k \in Keys |-> touched[u][k]]
      BY <2>3 DEF Crash
    <3>3. tx'[u].db = None /\ tx'[u].dur = {}
      <4>1. CASE tx[u].pc \in {"new"} \cup Outcomes
        BY <2>1, <2>3, <4>1 DEF Recovered, LogInv, DatabasesThere, Active, Locked, CommitSteps, RefreshSteps,
           CleanupSteps, Outcomes
      <4>2. CASE tx[u].pc \notin {"new"} \cup Outcomes
        <5> DEFINE n == [NoTx EXCEPT !.pc = IF tx[u].pc = "wait" THEN "committed" ELSE "lost"]
        <5>1. Recovered(u) = n
          BY <2>3, <4>2 DEF Recovered
        <5>2. n.db = None /\ n.dur = {}
          BY DEF NoTx
        <5> QED BY <2>1, <5>1, <5>2
      <4> QED BY <4>1, <4>2
    <3> QED BY <3>1, <3>2, <3>3 DEF LogInv, LogsFit, Active, Locked, RefreshSteps
  <2> QED BY <2>2, <2>3
<1> QED BY <1>1, <1>2 DEF LogInv, LogsFit, DatabasesThere, Lapsed

\* What the steps of the sync worker and of others leave alone.
LEMMA FreeKeeps ==
  ASSUME GitInv, CycleRuns \/ CycleLocks \/ HydrationFails \/ CheckoutFails \/ CycleFails \/ PeerPushes
  PROVE  /\ touched' = touched /\ lapses' = lapses
         /\ \A u \in Txs : \/ tx'[u] = tx[u]
                           \/ tx[u].pc = "wait" /\ tx'[u].pc \in {"acked", "committed"} /\ tx'[u].db = tx[u].db /\ tx'[u].dur = tx[u].dur
<1>1. touched' = touched /\ lapses' = lapses
  BY DEF CycleRuns, CycleLocks, HydrationFails, CheckoutFails, CycleFails, PeerPushes, Fetches, FetchDiverges,
     NothingToPush, PushBegins, Pushes, Delivers, PushIsRejected
<1> QED BY <1>1, FreeStep

LEMMA NextKeepsLogs == ASSUME LogInv, [Next]_vars PROVE LogInv'
<1>1. CASE UNCHANGED vars
  BY <1>1, NextKeepsGit DEF vars, LogInv, LogsFit, DatabasesThere, Lapsed
<1>2. ASSUME NEW t \in Txs, Own(t) PROVE LogInv'
  <2>1. GitInv' /\ Alone(t) /\ lapses \subseteq lapses' /\ \A u \in Txs \ {t} : touched'[u] = touched[u]
    BY <1>2, OwnKeepsGit, OwnTypes, OwnHistory DEF LogInv, GitInv, BaseInv, Own
  <2>2. /\ tx'[t].pc \in Active =>
              <<t, "changes">> \in lapses' \/ LogFits(t, tx'[t].db, tx'[t].log, touched'[t])
        /\ tx'[t].pc # "new"
        /\ tx'[t].pc \in CommitSteps \cup {"mark"} => tx'[t].db # None
    BY <1>2, OwnLogFits
  <2>3. LogsFit'
    BY <2>1, <2>2 DEF Alone, LogInv, LogsFit, Lapsed
  <2>4. DatabasesThere'
    <3>1. tx'[t].pc \notin Active => tx'[t].db = None /\ tx'[t].dur = {}
      BY <1>2, OwnStaysActive DEF LogInv, GitInv, BaseInv
    <3>2. Missing \in tx'[t].dur /\ tx'[t].db # None => tx'[t].pc = "validate" \/ <<t, "changes">> \in lapses'
      BY <1>2, OwnRecord
    <3> QED BY <2>1, <2>2, <3>1, <3>2 DEF Alone, LogInv, DatabasesThere, Lapsed
  <2> QED BY <2>1, <2>3, <2>4 DEF LogInv
<1>3. ASSUME CycleRuns \/ CycleLocks \/ HydrationFails \/ CheckoutFails \/ CycleFails \/ PeerPushes PROVE LogInv'
  <2>1. GitInv' /\ touched' = touched /\ lapses' = lapses
        /\ \A u \in Txs : \/ tx'[u] = tx[u]
                          \/ tx[u].pc = "wait" /\ tx'[u].pc \in {"acked", "committed"} /\ tx'[u].db = tx[u].db /\ tx'[u].dur = tx[u].dur
    BY <1>3, FreeKeepsGit, FreeKeeps DEF LogInv
  <2>2. LogsFit' /\ DatabasesThere'
    BY <2>1 DEF LogInv, LogsFit, DatabasesThere, Lapsed, Active, Locked, CommitSteps, RefreshSteps, CleanupSteps
  <2> QED BY <2>1, <2>2 DEF LogInv
<1> QED BY <1>1, <1>2, <1>3, CrashKeepsLogs DEF Next, Own

LEMMA InitLogs == ASSUME Init PROVE LogInv
<1>1. \A t \in Txs : /\ tx[t].pc = "new" /\ tx[t].log = {} /\ tx[t].db = None /\ tx[t].dur = {}
                     /\ \A k \in Keys : touched[t][k] = None
  BY DEF Init, NoTx
<1> QED BY <1>1, InitGit DEF LogInv, LogsFit, DatabasesThere, Active, Locked, CommitSteps, RefreshSteps, CleanupSteps

LEMMA LogsAlways == Spec => []LogInv
BY InitLogs, NextKeepsLogs, PTL DEF Spec

\* `Holds` of a history and of what was done, whatever the state.
DoesHold(h, did) == \E i \in DOMAIN h : \A k \in Keys : did[k] # None => did[k].want = h[i].tree[k]

\* A history that goes on holds what it held.
LEMMA DoneInPrefix ==
  ASSUME NEW s \in Seq(Commits), NEW h \in Seq(Commits), IsPrefix(s, h), NEW did, DoesHold(s, did)
  PROVE  DoesHold(h, did)
<1>1. Len(s) <= Len(h) /\ \A i \in 1..Len(s) : s[i] = h[i]
  BY PrefixIs
<1> QED BY <1>1 DEF DoesHold

EndsWith(h, did) == \A k \in Keys : did[k] # None => did[k].want = Tree(h)[k]

LEMMA DoneAtItsEnd ==
  ASSUME NEW s \in Seq(Commits), s # <<>>, NEW did, EndsWith(s, did)
  PROVE  DoesHold(s, did)
<1>1. Len(s) \in 1..Len(s) /\ Last(s) = s[Len(s)]
  <2>1. Len(s) \in Nat \ {0}
    BY EmptySeq
  <2> QED BY <2>1 DEF Last
<1> QED BY <1>1 DEF DoesHold, EndsWith, Tree

\* Main has held all that was wanted of a transaction that a restart drops.
LEMMA LostIsHeld ==
  ASSUME LogInv, NEW t \in Txs, Crash, tx[t].pc \in Active, tx[t].db # None, ~Rebuilt(tx[t]),
         ~Survives(t), ~Lapsed(t, "changes")
  PROVE  DoesHold(main, touched[t])
<1>0. Missing \notin tx[t].dur
  BY DEF LogInv, DatabasesThere, Rebuilt
<1>1. \A k \in Keys : tx[t].db[k] = Baseline(t)[k]
  BY <1>0 DEF Survives, Difference, Active
<1>2. \A k \in Keys : touched[t][k] # None => touched[t][k].want = tx[t].db[k]
  BY DEF LogInv, LogsFit, LogFits
<1>3. \A k \in Keys : touched[t][k] # None => touched[t][k].want = Baseline(t)[k]
  BY <1>1, <1>2
<1>4. /\ main \in Seq(Commits) /\ main # <<>>
      /\ tx[t].base \in Seq(Commits) /\ tx[t].base # <<>> /\ IsPrefix(tx[t].base, main)
  BY DEF LogInv, GitInv, BaseInv, TypeInv, HistoriesOk, TxsSound, Sound, Record, StepFits, BranchesPlaced, Placed
<1>5. Baseline(t) = Tree(main) \/ Baseline(t) = Tree(tx[t].base)
  BY DEF Baseline
<1> QED BY <1>3, <1>4, <1>5, DoneAtItsEnd, DoneInPrefix DEF EndsWith

\* A restart drops an open transaction only when nothing of it can be lost: it
\* is on main, or main has held what it wants, at every step of a commit,
\* a refresh or a clean-up, until that drops its database, and after a refresh
\* that built it again.
THEOREM RestartsLoseNothing == Spec => RecoveryKeepsChanges
<1> DEFINE Safe == \A t \in Txs :
              StageOf(tx[t]) = "open" /\ tx'[t].pc = "lost" =>
                Holds(main, t) \/ Lapsed(t, "changes")
<1>1. ASSUME LogInv, LogInv', [Next]_vars PROVE [Safe]_vars
  <2> SUFFICES ASSUME NEW t \in Txs, StageOf(tx[t]) = "open", tx'[t].pc = "lost", vars' # vars, ~Lapsed(t, "changes")
               PROVE  Holds(main, t)
    BY DEF vars
  <2>0. TypeInv /\ GitInv
    BY <1>1 DEF LogInv, GitInv, BaseInv
  <2>1. /\ (tx[t].pc \in Active /\ tx[t].db # None /\ ~Rebuilt(tx[t])) \/ tx[t].pc = "new"
        /\ tx[t].pc # "lost"
    BY <1>1 DEF StageOf, LogInv, DatabasesThere, Active, Locked, CommitSteps, RefreshSteps, CleanupSteps
  <2>2. CASE Crash
    <3>1. ~Survives(t) /\ tx[t].pc # "new"
      <4>1. tx'[t] = Recovered(t)
        BY <2>2 DEF Crash
      <4> QED BY <2>0, <2>1, <4>1, RecoveredIs DEF Same, Active, Locked, CommitSteps, RefreshSteps, CleanupSteps, Outcomes
    <3>2. DoesHold(main, touched[t])
      BY <1>1, <2>1, <2>2, <3>1, LostIsHeld
    <3> QED BY <3>2 DEF DoesHold, Holds, Wanted
  <2>3. ASSUME NEW u \in Txs, Own(u) PROVE FALSE
    <3>1. Alone(u)
      BY <1>1, <2>3, OwnTypes DEF LogInv, GitInv, Own
    <3>2. tx'[u].pc # "lost"
      BY <2>0, <2>3, OwnStaysActive DEF Active, Locked, CommitSteps, RefreshSteps, CleanupSteps
    <3> QED BY <2>1, <3>1, <3>2 DEF Alone
  <2>4. ASSUME CycleRuns \/ CycleLocks \/ HydrationFails \/ CheckoutFails \/ CycleFails \/ PeerPushes PROVE FALSE
    BY <2>0, <2>1, <2>4, FreeKeeps
  <2> QED BY <1>1, <2>2, <2>3, <2>4 DEF Next, Own
<1> QED BY <1>1, LogsAlways, PTL DEF Spec, RecoveryKeepsChanges


-----------------------------------------------------------------------------
(* What a commit made is on main once it was answered.                     *)

\* The attempts of a transaction at a commit: one that is on the branch is durable
\* until a refresh voids it, whatever says that it was made holds what was wanted,
\* and so does whatever says that it was merged.
WorkFits(t, r, did, m) ==
  /\ r.pc # "reset" /\ CommittedBy(t, r.branch) =>
       "started" \in r.mem /\ (r.db # None => "started" \in r.dur)
  /\ "created" \in r.mem \cup r.dur \/ r.pc = "created" \/ CommittedBy(t, r.branch)
       => EndsWith(r.branch, did)
  /\ "merged" \in r.mem \cup r.dur \/ (r.pc \in CleanupSteps /\ r.op \in {"commit", "resume", "empty"})
       => DoesHold(m, did)
  /\ r.pc \in RefreshSteps => "started" \notin r.mem

Clean(t) == ~Lapsed(t, "changes") /\ ~Lapsed(t, "reopen")

RemoteBehind == \A t \in Txs : CommittedBy(t, remote) => CommittedBy(t, main)

\* A transaction that works knows that its commit is on main.
MergeKnown(t, r, m) == CommittedBy(t, m) => r.pc = "merged" \/ "merged" \in r.mem
MergesKnown ==
  \A t \in Txs : tx[t].pc \in Active \cup {"new"} /\ Clean(t) => MergeKnown(t, tx[t], main)

WorkHeld == \A t \in Txs : tx[t].pc \in Active /\ Clean(t) => WorkFits(t, tx[t], touched[t], main)
AnswersHeld ==
  \A t \in Txs : tx[t].pc \in {"wait", "committed", "acked"} /\ Clean(t) => DoesHold(main, touched[t])

HeldInv == LogInv /\ RemoteBehind /\ MergesKnown /\ WorkHeld /\ AnswersHeld

\* A commit writes what its transaction wanted.
LEMMA WrittenIsWanted ==
  ASSUME NEW t \in Txs, NEW tree, tx[t].db # None, ~Outdates(t),
         LogFits(t, tx[t].db, tx[t].log, touched[t]), NEW k \in Keys, touched[t][k] # None
  PROVE  touched[t][k].want = Written(tree, t)[k]
<1> DEFINE db == tx[t].db  log == tx[t].log  did == touched[t]  is == Written(tree, t)[k]
<1>1. /\ <<"del", k>> \in log /\ ~(<<"add", k>> \in log /\ db[k] # Absent) => is = Absent
      /\ ~(<<"del", k>> \in log /\ ~(<<"add", k>> \in log /\ db[k] # Absent))
           /\ k \notin tx[t].stale /\ (<<"add", k>> \in log \/ <<"mod", k>> \in log) => is = t
  BY DEF Written
<1>2. /\ did[k].want = db[k] /\ Entered(t, log, k, db[k])
      /\ db[k] # Absent => <<"add", k>> \in log \/ <<"mod", k>> \in log
  BY DEF LogFits, Entered
<1>3. k \in tx[t].stale => db[k] = Absent
  <2>1. k \in tx[t].stale /\ db[k] # Absent => Outdates(t)
    BY DEF Outdates
  <2> QED BY <2>1
<1> HIDE DEF db, log, did, is
<1>4. did[k].want = is
  BY <1>1, <1>2, <1>3 DEF Entered
<1> QED BY <1>4 DEF did, is

LEMMA CommitWritesAll ==
  ASSUME GitInv, NEW t \in Txs, CommitCreates(t), tx[t].db # None, ~Outdates(t),
         LogFits(t, tx[t].db, tx[t].log, touched[t])
  PROVE  EndsWith(NewBranch(t), touched[t])
<1> DEFINE branch == tx[t].branch  tree == Written(Tree(branch), t)
<1>1. \A k \in Keys : touched[t][k] # None => touched[t][k].want = tree[k]
  BY WrittenIsWanted
<1> HIDE DEF tree
<1>2. branch \in Seq(Commits) /\ branch # <<>> /\ TypeInv /\ tx[t].pc = "create"
  BY DEF GitInv, BaseInv, TypeInv, TxsSound, Sound, Record, StepFits, CommitCreates, Active, Locked, CommitSteps
<1>3. /\ NewCommit(t) \in Commits /\ NewCommit(t).tree = tree
      /\ NewBranch(t) = IF tree = Tree(branch) THEN branch ELSE Append(branch, NewCommit(t))
  BY <1>2, NewBranchType DEF NewCommit, NewBranch, tree
<1>4. Tree(NewBranch(t)) = tree
  BY <1>2, <1>3, PrefixOfAppended DEF Tree
<1> QED BY <1>1, <1>4 DEF EndsWith

\* What the flags of a transaction owe each other, on a step of it.
LEMMA FlagsKnown ==
  ASSUME TypeInv, NEW t \in Txs
  PROVE  /\ tx[t] \in Record /\ FlagsFit(tx[t]) /\ StepFits(tx[t])
         /\ "created" \in tx[t].mem => "started" \in tx[t].mem
         /\ "merged" \in tx[t].mem => "created" \in tx[t].mem
         /\ "created" \in tx[t].dur => "started" \in tx[t].dur
         /\ "merged" \in tx[t].dur => "created" \in tx[t].dur
         /\ "started" \in tx[t].dur => "started" \in tx[t].mem
BY DEF TypeInv, TxsSound, Sound, FlagsFit, Valid

\* A step of t that keeps its wishes and leaves main alone, or moves it on.
LEMMA WorkStays ==
  ASSUME NEW t, NEW r, NEW s, NEW did, WorkFits(t, r, did, main), NEW m \in Seq(Commits),
         main \in Seq(Commits), IsPrefix(main, m),
         s.branch = r.branch, s.dur = r.dur, r.pc # "reset", s.db # None => r.db # None,
         s.mem \subseteq r.mem, "started" \in r.mem => "started" \in s.mem,
         s.pc \notin RefreshSteps \cup {"created"},
         s.pc \in CleanupSteps /\ s.op \in {"commit", "resume", "empty"} =>
           DoesHold(main, did)
  PROVE  WorkFits(t, s, did, m)
<1>1. DoesHold(main, did) => DoesHold(m, did)
  BY DoneInPrefix
<1> QED BY <1>1 DEF WorkFits, RefreshSteps

LEMMA CallKeepsWork ==
  ASSUME HeldInv, NEW t \in Txs, Called(t) \/ Collect(t), ~Lapsed(t, "changes"), ~Lapsed(t, "reopen")
  PROVE  WorkFits(t, tx'[t], touched'[t], main) /\ MergeKnown(t, tx'[t], main)
<1>0. /\ TypeInv /\ GitInv /\ main \in Seq(Commits) /\ main # <<>> /\ IsPrefix(main, main)
      /\ tx[t].pc \in Active => WorkFits(t, tx[t], touched[t], main)
      /\ tx[t].pc \in Active \cup {"new"} => MergeKnown(t, tx[t], main)
      /\ tx[t].pc \in Active => LogFits(t, tx[t].db, tx[t].log, touched[t])
  BY PrefixRefl DEF HeldInv, LogInv, GitInv, BaseInv, TypeInv, HistoriesOk, WorkHeld, MergesKnown, Clean, LogsFit
<1>a. /\ tx[t] \in Record /\ FlagsFit(tx[t]) /\ StepFits(tx[t])
      /\ "created" \in tx[t].mem => "started" \in tx[t].mem
      /\ "merged" \in tx[t].mem => "created" \in tx[t].mem
      /\ "created" \in tx[t].dur => "started" \in tx[t].dur
      /\ "merged" \in tx[t].dur => "created" \in tx[t].dur
      /\ "started" \in tx[t].dur => "started" \in tx[t].mem
  BY <1>0, FlagsKnown
<1> USE DEF Becomes, Same
<1>1. CASE BeginTransaction(t)
  <2>1. tx[t].pc = "new" /\ tx[t].mem = {}
    BY <1>1, <1>a DEF BeginTransaction, StepFits, Active, Locked, CommitSteps, RefreshSteps, CleanupSteps
  <2>2. ~CommittedBy(t, main)
    BY <1>0, <2>1 DEF MergeKnown
  <2>4. tx[t].dur = {}
    BY <2>1 DEF HeldInv, LogInv, DatabasesThere, Active, Locked, CommitSteps, RefreshSteps, CleanupSteps
  <2>3. tx'[t].pc = "open" /\ tx'[t].branch = main /\ tx'[t].mem = {} /\ tx'[t].dur = tx[t].dur
    BY <1>0, <1>1, <2>1, BeginBecomes
  <2> QED BY <1>a, <2>1, <2>2, <2>3 DEF WorkFits, MergeKnown, RefreshSteps, CleanupSteps
<1>2. CASE Mutate(t)
  <2>1. tx[t].pc = "open" /\ tx[t].db # None /\ "started" \notin tx[t].mem
    BY <1>2 DEF Mutate, Usable, CreateEntity, UpdateEntity, DeleteEntity, Records, Has
  <2>2. ~CommittedBy(t, tx[t].branch)
    BY <1>0, <1>a, <2>1 DEF WorkFits, Active
  <2>3. tx'[t].pc = "open" /\ tx'[t].branch = tx[t].branch /\ tx'[t].mem = tx[t].mem /\ tx'[t].dur = tx[t].dur
    BY <1>0, <1>2, MutateBecomes
  <2> QED BY <1>0, <1>a, <2>1, <2>2, <2>3 DEF WorkFits, MergeKnown, RefreshSteps, CleanupSteps, Active
<1>3. CASE /\ RollbackTransaction(t) \/ CommitResumesCleanup(t) \/ CommitOfNothing(t) \/ Collect(t)
           /\ ~BeginTransaction(t) /\ ~Mutate(t)
  <2>1. tx[t].pc = "open" /\ touched' = touched /\ tx'[t].db = tx[t].db
    <3>1. tx[t].pc = "open"
      BY <1>3 DEF RollbackTransaction, CommitResumesCleanup, CommitOfNothing, Collect
    <3> QED BY <1>0, <1>3, <3>1, CallKeepsData DEF Called, KeepsData
  <2>2. /\ tx'[t].pc = "drop" /\ tx'[t].branch = tx[t].branch /\ tx'[t].mem = tx[t].mem \ {"rehydrated"}
        /\ tx'[t].dur = tx[t].dur
        /\ tx'[t].op \in {"commit", "resume", "empty"} => CommitResumesCleanup(t) \/ CommitOfNothing(t)
    BY <1>0, <1>3, RollbackBecomes, ResumeBecomes, EmptyBecomes, CollectBecomes
  <2>3. CommitResumesCleanup(t) => DoesHold(main, touched[t])
    BY <1>0, <2>1 DEF CommitResumesCleanup, Has, WorkFits, Active
  <2>4. CommitOfNothing(t) => DoesHold(main, touched[t])
    <3>1. ASSUME CommitOfNothing(t), NEW k \in Keys PROVE touched[t][k] = None
      BY <1>0, <2>1, <3>1 DEF CommitOfNothing, LogFits, Entered, Active
    <3> QED BY <1>0, <3>1, DoneAtItsEnd DEF EndsWith
  <2>5. WorkFits(t, tx'[t], touched[t], main)
    BY <1>0, <2>1, <2>2, <2>3, <2>4, WorkStays DEF RefreshSteps, CleanupSteps, Active
  <2> QED BY <1>0, <2>1, <2>2, <2>5 DEF MergeKnown, Active
<1>4. CASE CommitFindsMerge(t)
  <2>1. /\ tx[t].pc = "open" /\ tx[t].db # None /\ touched' = touched
        /\ "created" \in Detected(t) /\ tx[t].branch = main
    BY <1>4 DEF CommitFindsMerge, Committing, Usable, AlreadyMerged
  <2>2. EndsWith(main, touched[t]) /\ DoesHold(main, touched[t])
    BY <1>0, <2>1, DoneAtItsEnd DEF WorkFits, Detected, Exists, Active
  <2>3. Exists(t) => "started" \in Detected(t)
    BY DEF Detected
  <2>4. LET flags == (Detected(t) \cup {"merged"}) \ {"rehydrated"}
        IN tx'[t].pc = "drop" /\ tx'[t].branch = tx[t].branch /\ tx'[t].mem = flags /\ tx'[t].dur = flags
    BY <1>0, <1>4, FoundBecomes
  <2> QED BY <2>1, <2>2, <2>3, <2>4 DEF WorkFits, MergeKnown, Exists, RefreshSteps, CleanupSteps
<1>5. CASE CommitIsNotUpToDate(t) \/ CommitBegins(t)
  <2>1. tx[t].pc = "open" /\ tx[t].db # None /\ touched' = touched /\ "merged" \notin tx[t].mem
    BY <1>5 DEF CommitIsNotUpToDate, CommitBegins, Committing, Usable, Has
  <2> DEFINE flags == Detected(t)
  <2>2. /\ Exists(t) => "started" \in flags /\ flags \cap Milestones # {}
        /\ "created" \in flags => Exists(t) \/ "created" \in tx[t].mem
        /\ "merged" \notin flags
    BY <2>1 DEF Detected, Milestones
  <2> HIDE DEF flags
  <2>3. /\ "created" \in Reconciled(t, flags) => Exists(t)
        /\ "merged" \notin Reconciled(t, flags)
        /\ Exists(t) => "started" \in Reconciled(t, flags)
    BY <2>2 DEF Reconciled, Void, Milestones
  <2>4. /\ tx'[t].pc \notin {"created", "reset"} \cup RefreshSteps \cup CleanupSteps /\ tx'[t].branch = tx[t].branch
        /\ tx'[t].mem \in {flags, Reconciled(t, flags)}
        /\ tx'[t].dur \in {flags, Reconciled(t, flags), tx[t].dur}
        /\ Exists(t) => "started" \in tx'[t].dur \/ tx'[t].dur = tx[t].dur
    <3>1. CASE CommitIsNotUpToDate(t)
      BY <1>0, <2>2, <2>3, <3>1, RefusedBecomes DEF flags, RefreshSteps, CleanupSteps
    <3>2. CASE CommitBegins(t)
      <4>1. FirstStep(t) \in {"start", "load", "merge"}
        BY DEF FirstStep, NextAfterCreated
      <4> QED BY <1>0, <2>2, <2>3, <3>2, <4>1, BeginsBecomes DEF flags, RefreshSteps, CleanupSteps
    <3> QED BY <1>5, <3>1, <3>2
  <2>5. WorkFits(t, tx[t], touched[t], main) /\ MergeKnown(t, tx[t], main)
    BY <1>0, <2>1 DEF Active
  <2> QED BY <1>a, <2>1, <2>2, <2>3, <2>4, <2>5 DEF WorkFits, MergeKnown, Exists
<1>7. CASE RefreshIsNotSaved(t)
  <2>1. tx[t].pc = "open" /\ tx' = tx /\ touched' = touched
    BY <1>7 DEF RefreshIsNotSaved, Refreshable
  <2> QED BY <1>0, <2>1 DEF Active
<1>6. CASE RefreshBegins(t)
  <2>1. tx[t].pc = "open" /\ touched' = touched /\ "merged" \notin tx[t].mem
    BY <1>6 DEF RefreshBegins, Refreshable, Abandonable, Has
  <2>2. Void(tx[t].mem) \cap {"started", "created", "merged"} = {}
    BY <2>1 DEF Void, Milestones
  <2>3. /\ tx'[t].pc = "reset" /\ tx'[t].branch = tx[t].branch /\ tx'[t].mem = Void(tx[t].mem)
        /\ tx'[t].dur = IF "started" \in tx[t].mem THEN Void(tx[t].mem) ELSE tx[t].dur
    BY <1>0, <1>6, RefreshBegunBecomes DEF Has
  <2> QED BY <1>0, <1>a, <2>1, <2>2, <2>3 DEF WorkFits, MergeKnown, CleanupSteps, Active
<1> QED BY <1>1, <1>2, <1>3, <1>4, <1>5, <1>6, <1>7 DEF Called


LEMMA CommitKeepsWork ==
  ASSUME HeldInv, NEW t \in Txs, InCommit(t), ~Lapsed(t, "changes")', ~Lapsed(t, "reopen")'
  PROVE  WorkFits(t, tx'[t], touched'[t], main') /\ MergeKnown(t, tx'[t], main')
<1>0. /\ TypeInv /\ GitInv /\ main \in Seq(Commits) /\ main # <<>>
      /\ tx[t].branch \in Seq(Commits)
      /\ touched' = touched /\ tx'[t].db = tx[t].db
      /\ ~Lapsed(t, "changes") /\ ~Lapsed(t, "reopen")
  BY CommitKeepsData DEF HeldInv, LogInv, GitInv, BaseInv, TypeInv, HistoriesOk, TxsSound, Sound, Record, KeepsData,
     Lapsed
<1>a. /\ tx[t] \in Record /\ FlagsFit(tx[t]) /\ StepFits(tx[t])
      /\ "created" \in tx[t].mem => "started" \in tx[t].mem
      /\ "merged" \in tx[t].mem => "created" \in tx[t].mem
      /\ "created" \in tx[t].dur => "started" \in tx[t].dur
      /\ "merged" \in tx[t].dur => "created" \in tx[t].dur
      /\ "started" \in tx[t].dur => "started" \in tx[t].mem
  BY <1>0, FlagsKnown
<1>b. tx[t].pc \in CommitSteps
  BY DEF InCommit, CommitStarts, CommitCreates, CommitRecords, CommitLoads, CommitMerges, CommitRecordsMerge,
     Reaches, CommitSteps
<1>c. /\ WorkFits(t, tx[t], touched[t], main) /\ MergeKnown(t, tx[t], main)
      /\ LogFits(t, tx[t].db, tx[t].log, touched[t]) /\ tx[t].db # None
      /\ "merged" \notin tx[t].mem
      /\ tx[t].pc # "reset"
  BY <1>0, <1>a, <1>b DEF HeldInv, LogInv, LogsFit, DatabasesThere, WorkHeld, MergesKnown, Clean, Active, Locked,
     FlagsFit, CommitSteps
<1> USE DEF Becomes, Same
<1>1. CASE CommitStarts(t)
  <2>1. main' = main /\ tx[t].pc = "start"
    BY <1>1 DEF CommitStarts, Reaches
  <2>2. LET flags == tx[t].mem \cup {"started"}
        IN tx'[t].pc = "create" /\ tx'[t].branch = tx[t].branch /\ tx'[t].mem = flags /\ tx'[t].dur = flags
    BY <1>0, <1>1, StartBecomes
  <2> QED BY <1>0, <1>c, <2>1, <2>2 DEF WorkFits, MergeKnown, CleanupSteps, RefreshSteps
<1>2. CASE CommitCreates(t)
  <2>1. main' = main /\ tx[t].pc = "create"
    BY <1>2 DEF CommitCreates
  <2>2. tx'[t].pc = "created" /\ tx'[t].branch = NewBranch(t) /\ tx'[t].mem = tx[t].mem /\ tx'[t].dur = tx[t].dur
    BY <1>0, <1>2, CreateBecomes
  <2>3. "started" \in tx[t].dur /\ "started" \in tx[t].mem
    BY <1>a, <2>1 DEF FlagsFit
  <2>4. EndsWith(NewBranch(t), touched[t])
    <3>1. ~Outdates(t)
      BY <1>2 DEF CommitCreates, Lapsed
    <3> QED BY <1>0, <1>2, <1>c, <3>1, CommitWritesAll
  <2> QED BY <1>0, <1>c, <2>1, <2>2, <2>3, <2>4 DEF WorkFits, MergeKnown, CleanupSteps, RefreshSteps
<1>3. CASE CommitRecords(t) \/ CommitLoads(t)
  <2>1. main' = main /\ tx[t].pc \in {"created", "load"}
    BY <1>3 DEF CommitRecords, CommitLoads, Reaches
  <2>2. NextAfterCreated(tx[t].mem) \in {"load", "merge"}
    BY DEF NextAfterCreated
  <2>3. /\ tx'[t].pc \in {"load", "merge"} /\ tx'[t].branch = tx[t].branch /\ tx'[t].mem = tx'[t].dur
        /\ tx'[t].mem \in {tx[t].mem \cup {"created"}, tx[t].mem \cup {"rehydrated", "hydrated"}}
    BY <1>0, <1>3, <2>2, RecordBecomes, LoadBecomes
  <2>4. "started" \in tx[t].mem
    BY <1>a, <2>1 DEF FlagsFit
  <2>5. EndsWith(tx[t].branch, touched[t])
    BY <1>a, <1>c, <2>1 DEF FlagsFit, WorkFits
  <2> QED BY <1>0, <1>c, <2>1, <2>3, <2>4, <2>5 DEF WorkFits, MergeKnown, CleanupSteps, RefreshSteps
<1>4. CASE CommitMerges(t)
  <2>1. main' = tx[t].branch /\ IsPrefix(main, main') /\ tx[t].pc = "merge" /\ main' \in Seq(Commits)
    BY <1>0, <1>4 DEF CommitMerges
  <2>2. tx'[t].pc = "merged" /\ tx'[t].branch = tx[t].branch /\ tx'[t].mem = tx[t].mem /\ tx'[t].dur = tx[t].dur
    BY <1>0, <1>4, MergeBecomes
  <2>3. DoesHold(main, touched[t]) => DoesHold(main', touched[t])
    BY <1>0, <2>1, DoneInPrefix
  <2> QED BY <1>0, <1>c, <2>1, <2>2, <2>3 DEF WorkFits, MergeKnown, CleanupSteps, RefreshSteps
<1>5. CASE CommitRecordsMerge(t)
  <2>1. main' = main /\ tx[t].pc = "merged"
    BY <1>5 DEF CommitRecordsMerge
  <2>2. main = tx[t].branch
    BY <1>0, <2>1 DEF GitInv, StepsHold, AtStep
  <2>3. LET flags == (tx[t].mem \cup {"merged"}) \ {"rehydrated"}
        IN tx'[t].pc = "drop" /\ tx'[t].branch = tx[t].branch /\ tx'[t].mem = flags /\ tx'[t].dur = flags
    BY <1>0, <1>5, MergedBecomes
  <2>4. "created" \in tx[t].mem /\ DoesHold(main, touched[t])
    BY <1>0, <1>a, <1>c, <2>1, <2>2, DoneAtItsEnd DEF FlagsFit, WorkFits
  <2> QED BY <1>0, <1>a, <1>c, <2>1, <2>2, <2>3, <2>4 DEF WorkFits, MergeKnown, RefreshSteps
<1> QED BY <1>1, <1>2, <1>3, <1>4, <1>5 DEF InCommit

\* While a refresh is at work main has no commit of its transaction, and no flag
\* says that there is one.
LEMMA RefreshKeepsWork ==
  ASSUME HeldInv, NEW t \in Txs, InRefresh(t), ~Lapsed(t, "changes")', ~Lapsed(t, "reopen")'
  PROVE  WorkFits(t, tx'[t], touched'[t], main') /\ MergeKnown(t, tx'[t], main')
<1>0. TypeInv /\ GitInv /\ main' = main /\ lapses \subseteq lapses' /\ tx[t].pc \in RefreshSteps
  BY OwnHistory DEF HeldInv, LogInv, GitInv, BaseInv, InRefresh, RefreshResets, RefreshMarks, RefreshSwaps,
     RefreshAborts, RefreshEnds, Reaches, RefreshSteps, Own
<1>a. /\ tx[t] \in Record /\ FlagsFit(tx[t]) /\ StepFits(tx[t])
      /\ "created" \in tx[t].mem => "started" \in tx[t].mem
      /\ "created" \in tx[t].dur => "started" \in tx[t].dur
      /\ "merged" \in tx[t].dur => "created" \in tx[t].dur
      /\ "started" \in tx[t].dur => "started" \in tx[t].mem
  BY <1>0, FlagsKnown
<1>b. WorkFits(t, tx[t], touched[t], main) /\ MergeKnown(t, tx[t], main)
  BY <1>0 DEF HeldInv, WorkHeld, MergesKnown, Clean, Lapsed, Active, Locked
<1>c. /\ {"started", "created", "merged"} \cap (tx[t].mem \cup tx[t].dur) = {}
      /\ ~CommittedBy(t, main)
  BY <1>0, <1>a, <1>b DEF FlagsFit, WorkFits, MergeKnown, RefreshSteps
<1>d. tx[t].pc # "reset" => tx[t].branch = main
  BY <1>0 DEF GitInv, StepsHold, AtStep, RefreshSteps
<1>1. ~RefreshAborts(t)
  BY DEF RefreshAborts, Lapsed
<1>2. /\ tx'[t].branch = main /\ tx'[t].mem \subseteq tx[t].mem \cup {"refreshing"}
      /\ tx'[t].dur \subseteq tx[t].mem \cup {"refreshing"} \/ tx'[t].dur = tx[t].dur \/ tx'[t].dur = {Missing}
      /\ tx'[t].pc \notin CleanupSteps \cup {"created"}
  <2>1. CASE RefreshResets(t)
    BY <1>0, <2>1, ResetBecomes DEF Becomes, Same, CleanupSteps
  <2>2. CASE RefreshMarks(t)
    BY <1>0, <1>d, <2>2, MarkBecomes DEF Becomes, Same, CleanupSteps, RefreshMarks, Reaches
  <2>3. CASE RefreshSwaps(t)
    BY <1>0, <1>d, <2>3, SwapBecomes DEF Becomes, Same, CleanupSteps, RefreshSwaps, RecordKept
  <2>4. CASE RefreshEnds(t)
    BY <1>0, <1>d, <2>4, RefreshedBecomes DEF Becomes, Same, CleanupSteps, RefreshEnds
  <2> QED BY <1>1, <2>1, <2>2, <2>3, <2>4 DEF InRefresh
<1>3. {"started", "created", "merged"} \cap (tx'[t].mem \cup tx'[t].dur) = {}
  BY <1>c, <1>2 DEF Missing
<1> QED BY <1>0, <1>c, <1>2, <1>3 DEF WorkFits, MergeKnown


LEMMA CleanupKeepsWork ==
  ASSUME HeldInv, NEW t \in Txs, DropBranchDB(t) \/ FailCleanup(t), ~Lapsed(t, "changes"), ~Lapsed(t, "reopen")
  PROVE  WorkFits(t, tx'[t], touched'[t], main) /\ MergeKnown(t, tx'[t], main)
<1>0. TypeInv /\ main \in Seq(Commits) /\ IsPrefix(main, main) /\ tx[t].pc \in CleanupSteps
  BY PrefixRefl DEF HeldInv, LogInv, GitInv, BaseInv, TypeInv, HistoriesOk, DropBranchDB, FailCleanup, CleanupSteps
<1>1. WorkFits(t, tx[t], touched[t], main) /\ MergeKnown(t, tx[t], main)
  BY <1>0 DEF HeldInv, WorkHeld, MergesKnown, Clean, Active
<1>2. CASE DropBranchDB(t)
  <2>1. tx[t].pc = "drop" /\ tx'[t].db = None /\ touched' = touched
    BY <1>0, <1>2, DroppedIs DEF DropBranchDB
  <2>2. /\ tx'[t].pc = "delete" /\ tx'[t].op = tx[t].op /\ tx'[t].branch = tx[t].branch
        /\ tx'[t].mem = tx[t].mem /\ tx'[t].dur = {Missing}
    BY <1>0, <1>2, DropBecomes DEF Becomes, Same
  <2> QED BY <1>1, <2>1, <2>2 DEF Missing, WorkFits, MergeKnown, CleanupSteps, RefreshSteps
<1>3. CASE FailCleanup(t)
  <2>1. tx'[t].db = tx[t].db /\ touched' = touched
    BY <1>0, <1>3, CommitKeepsData DEF KeepsData
  <2>2. /\ tx'[t].pc = "open" /\ tx'[t].branch = tx[t].branch
        /\ tx'[t].mem = tx[t].mem /\ tx'[t].dur = tx[t].dur
    BY <1>0, <1>3, FailedCleanupBecomes DEF Becomes, Same
  <2> QED BY <1>0, <1>1, <2>1, <2>2 DEF WorkFits, MergeKnown, CleanupSteps, RefreshSteps
<1> QED BY <1>2, <1>3

LEMMA FailedCommitKeepsWork ==
  ASSUME HeldInv, NEW t \in Txs, FailCommit(t), ~Lapsed(t, "changes"), ~Lapsed(t, "reopen")
  PROVE  WorkFits(t, tx'[t], touched'[t], main) /\ MergeKnown(t, tx'[t], main)
<1>0. TypeInv /\ tx[t].pc \in CommitSteps /\ main \in Seq(Commits) /\ main # <<>>
  BY DEF HeldInv, LogInv, GitInv, BaseInv, TypeInv, HistoriesOk, FailCommit
<1>1. /\ WorkFits(t, tx[t], touched[t], main) /\ MergeKnown(t, tx[t], main)
      /\ tx[t].db # None /\ tx[t].pc # "reset" /\ "merged" \notin tx[t].mem
      /\ tx[t].pc = "merged" => "created" \in tx[t].mem /\ main = tx[t].branch
  BY <1>0, FlagsKnown DEF HeldInv, LogInv, DatabasesThere, GitInv, StepsHold, AtStep, WorkHeld, MergesKnown, Clean,
     Active, Locked, FlagsFit, CommitSteps
<1>2. tx'[t].db = tx[t].db /\ touched' = touched
  BY <1>0, CommitKeepsData DEF KeepsData
<1>3. PICK mem \in SUBSET Flags, dur \in SavedFlags :
        /\ Becomes(t, "open", tx[t].op, tx[t].branch, tx[t].base, mem, dur)
        /\ Exists(t) /\ "started" \in tx[t].dur => "started" \in dur
        /\ Exists(t) /\ tx[t].pc = "merged" => "merged" \in mem
        /\ "created" \in mem \cup dur =>
             "created" \in tx[t].mem \cup tx[t].dur \/ Exists(t) \/ tx[t].pc = "created"
        /\ "merged" \in mem \cup dur => "merged" \in tx[t].dur \/ tx[t].pc = "merged"
  BY <1>0, FailedCommitBecomes
<1>4. tx'[t].pc = "open" /\ tx'[t].branch = tx[t].branch /\ tx'[t].mem = mem /\ tx'[t].dur = dur
  BY <1>3 DEF Becomes, Same
<1>5. tx[t].pc = "merged" => DoesHold(main, touched[t])
  BY <1>0, <1>1, DoneAtItsEnd DEF WorkFits
<1>6. "started" \in dur => "started" \in mem
  <2>1. FlagsFit(tx'[t])
    BY <1>0, FailedCommitBecomes DEF TxsSound, Sound
  <2> QED BY <1>4, <2>1 DEF FlagsFit
<1> QED BY <1>1, <1>2, <1>3, <1>4, <1>5, <1>6 DEF WorkFits, MergeKnown, Exists, CleanupSteps, RefreshSteps

LEMMA FailedRefreshKeepsWork ==
  ASSUME HeldInv, NEW t \in Txs, FailRefresh(t), ~Lapsed(t, "changes")', ~Lapsed(t, "reopen")'
  PROVE  WorkFits(t, tx'[t], touched'[t], main) /\ MergeKnown(t, tx'[t], main)
<1>0. TypeInv /\ tx[t].pc \in RefreshSteps
  BY DEF HeldInv, LogInv, GitInv, BaseInv, FailRefresh
<1>1. /\ touched' = touched /\ lapses \subseteq lapses' /\ tx[t].pc = "reset" /\ ~Exists(t) /\ KeepsData(t)
  BY <1>0, FailedRefreshData DEF Lapsed
<1>2. WorkFits(t, tx[t], touched[t], main) /\ MergeKnown(t, tx[t], main)
  BY <1>0, <1>1 DEF HeldInv, WorkHeld, MergesKnown, Clean, Lapsed, Active, Locked
<1>3. /\ {"started", "created", "merged"} \cap (tx[t].mem \cup tx[t].dur) = {}
      /\ ~CommittedBy(t, main)
  BY <1>0, <1>1, <1>2, FlagsKnown DEF FlagsFit, WorkFits, MergeKnown, RefreshSteps
<1>4. PICK mem \in SUBSET Flags, dur \in {tx[t].dur, RecordKept(t)} :
        /\ Becomes(t, "open", tx[t].op, tx[t].branch, tx[t].base, mem, dur)
        /\ mem \subseteq tx[t].mem \cup {"refreshing"}
  BY <1>0, FailedRefreshBecomes
<1>5. tx'[t].pc = "open" /\ tx'[t].branch = tx[t].branch /\ tx'[t].mem = mem /\ tx'[t].dur = dur
  BY <1>4 DEF Becomes, Same
<1>6. {"started", "created", "merged"} \cap (mem \cup dur) = {}
  BY <1>3, <1>4 DEF RecordKept, Missing
<1> QED BY <1>1, <1>3, <1>5, <1>6 DEF WorkFits, MergeKnown, Exists, CleanupSteps, RefreshSteps

\* What t's own step makes of t's work: it is still there, or it is on main.
LEMMA OwnKeepsWork ==
  ASSUME HeldInv, NEW t \in Txs, Own(t), ~Lapsed(t, "changes")', ~Lapsed(t, "reopen")'
  PROVE  /\ tx'[t].pc \in Active => WorkFits(t, tx'[t], touched'[t], main') /\ MergeKnown(t, tx'[t], main')
         /\ tx'[t].pc \in {"wait", "committed", "acked"} => DoesHold(main', touched'[t])
<1>0. TypeInv /\ GitInv /\ ~Lapsed(t, "changes") /\ ~Lapsed(t, "reopen")
  BY OwnHistory DEF HeldInv, LogInv, GitInv, BaseInv, Lapsed
<1>1. main' = main \/ InCommit(t)
  BY <1>0, CalledFits, RefreshFits, CleanupFits DEF Own
<1>2. CASE DeleteBranch(t)
  <2>1. tx[t].pc = "delete" /\ tx[t].op \in {"commit", "resume", "empty", "rollback", "collect"}
    BY <1>0, <1>2 DEF DeleteBranch, TypeInv, TxsSound, Sound, Record, StepFits, CleanupSteps, Ops
  <2>2. PICK next \in AfterCleanup[tx[t].op] : tx'[t].pc = next
    BY <1>0, <1>2, DeletedBecomes DEF Becomes, Same
  <2>3. next \in {"wait", "committed", "acked"} => tx[t].op \in {"commit", "resume", "empty"}
    BY <2>1, <2>2 DEF AfterCleanup
  <2>4. tx'[t].pc \notin Active
    BY <2>1, <2>2 DEF AfterCleanup, Active, Locked, CommitSteps, RefreshSteps, CleanupSteps
  <2>5. touched' = touched /\ main' = main
    BY <1>2 DEF DeleteBranch
  <2>6. WorkFits(t, tx[t], touched[t], main)
    BY <1>0, <2>1 DEF HeldInv, WorkHeld, Clean, Active, CleanupSteps
  <2> QED BY <2>1, <2>2, <2>3, <2>4, <2>5, <2>6 DEF WorkFits, CleanupSteps
<1>3. CASE ~DeleteBranch(t)
  <2>1. tx'[t].pc \in Active /\ tx'[t].pc \notin {"wait", "committed", "acked"}
    BY <1>0, <1>3, OwnStaysActive DEF Active, Locked, CommitSteps, RefreshSteps, CleanupSteps
  <2>2. WorkFits(t, tx'[t], touched'[t], main') /\ MergeKnown(t, tx'[t], main')
    BY <1>0, <1>1, <1>3, CallKeepsWork, CommitKeepsWork, RefreshKeepsWork, CleanupKeepsWork, FailedCommitKeepsWork,
       FailedRefreshKeepsWork DEF Own, Fails
  <2> QED BY <2>1, <2>2
<1> QED BY <1>2, <1>3


LEMMA OwnKeepsHeld ==
  ASSUME HeldInv, NEW t \in Txs, Own(t) PROVE HeldInv'
<1>1. /\ LogInv' /\ GitInv /\ TypeInv /\ Alone(t) /\ lapses \subseteq lapses'
      /\ \A u \in Txs \ {t} : touched'[u] = touched[u] /\ tx'[u] = tx[u]
  BY NextKeepsLogs, OwnTypes, OwnHistory DEF HeldInv, LogInv, GitInv, BaseInv, Own, Next, Alone
<1>2. main \in Seq(Commits) /\ main' \in Seq(Commits) /\ IsPrefix(main, main')
  BY <1>1, OwnFits, PrefixRefl DEF GitInv, BaseInv, TypeInv, HistoriesOk
<1>3. ASSUME NEW u \in Txs, u # t, CommittedBy(u, main') PROVE CommittedBy(u, main)
  <2>1. main' = main \/ \E c \in Commits : c.by = t /\ main' = Append(main, c)
    BY <1>1, OwnFits
  <2> QED BY <1>2, <1>3, <2>1, CommittedInAppended
<1>4. RemoteBehind'
  <2>1. remote' = remote
    BY <1>1, OwnKeepsRemote
  <2> QED BY <1>2, <2>1, CommittedInPrefix DEF HeldInv, RemoteBehind
<1>5. ASSUME NEW u \in Txs, Clean(u)'
      PROVE  /\ tx'[u].pc \in Active \cup {"new"} => MergeKnown(u, tx'[u], main')
             /\ tx'[u].pc \in Active => WorkFits(u, tx'[u], touched'[u], main')
             /\ tx'[u].pc \in {"wait", "committed", "acked"} => DoesHold(main', touched'[u])
  <2>1. CASE u = t
    <3>1. tx'[t].pc # "new"
      BY OwnLogFits DEF HeldInv
    <3> QED BY <1>5, <2>1, <3>1, OwnKeepsWork DEF Clean
  <2>2. CASE u # t
    <3>1. Clean(u) /\ tx'[u] = tx[u] /\ touched'[u] = touched[u]
      BY <1>1, <1>5, <2>2 DEF Clean, Lapsed
    <3>2. DoesHold(main, touched[u]) => DoesHold(main', touched[u])
      BY <1>2, DoneInPrefix
    <3>3. tx[u].pc \in Active => WorkFits(u, tx[u], touched[u], main')
      BY <3>1, <3>2 DEF HeldInv, WorkHeld, WorkFits
    <3>4. tx[u].pc \in Active \cup {"new"} => MergeKnown(u, tx[u], main')
      BY <1>3, <2>2, <3>1 DEF HeldInv, MergesKnown, MergeKnown
    <3>5. tx[u].pc \in {"wait", "committed", "acked"} => DoesHold(main', touched[u])
      BY <3>1, <3>2 DEF HeldInv, AnswersHeld
    <3> QED BY <3>1, <3>3, <3>4, <3>5
  <2> QED BY <2>1, <2>2
<1>6. MergesKnown' /\ WorkHeld' /\ AnswersHeld'
  BY <1>5 DEF MergesKnown, WorkHeld, AnswersHeld
<1> QED BY <1>1, <1>4, <1>6 DEF HeldInv

\* The worker and the others bring main only what was there of transactions before.
LEMMA FreeKeepsHeld ==
  ASSUME HeldInv, CycleRuns \/ CycleLocks \/ HydrationFails \/ CheckoutFails \/ CycleFails \/ PeerPushes
  PROVE  HeldInv'
<1>1. /\ LogInv' /\ GitInv /\ GitInv' /\ touched' = touched /\ lapses' = lapses
      /\ main \in Seq(Commits) /\ main' \in Seq(Commits) /\ remote \in Seq(Commits)
      /\ \A u \in Txs : \/ tx'[u] = tx[u]
                        \/ tx[u].pc = "wait" /\ tx'[u].pc \in {"acked", "committed"}
  BY NextKeepsLogs, FreeKeeps DEF HeldInv, LogInv, GitInv, BaseInv, TypeInv, HistoriesOk, Next
<1>2. /\ IsPrefix(main, main')
      /\ \A u \in Txs : CommittedBy(u, main') => CommittedBy(u, main)
  BY <1>1, FreeStep, PrefixRefl DEF HeldInv, RemoteBehind
<1>3. RemoteBehind'
  <2> SUFFICES ASSUME NEW u \in Txs, CommittedBy(u, remote') PROVE CommittedBy(u, main')
    BY DEF RemoteBehind
  <2>1. CASE PeerPushes
    <3>1. PICK k \in Keys : remote' = Append(remote, [by |-> Peer, tree |-> [Tree(remote) EXCEPT ![k] = Peer]])
      BY <2>1 DEF PeerPushes
    <3> DEFINE c == [by |-> Peer, tree |-> [Tree(remote) EXCEPT ![k] = Peer]]
    <3>2. c \in Commits /\ c.by # u
      <4>1. Tree(remote) \in Trees
        BY <1>1, TreeType DEF GitInv, BaseInv, TypeInv, HistoriesOk
      <4> QED BY <4>1, GraphAssumption DEF Commits, Trees, Contents, Writers
    <3> HIDE DEF c
    <3>3. CommittedBy(u, remote)
      BY <1>1, <3>1, <3>2, CommittedInAppended DEF c
    <3> QED BY <1>1, <1>2, <3>3, CommittedInPrefix DEF HeldInv, RemoteBehind
  <2>2. CASE CycleRuns \/ CycleLocks \/ HydrationFails \/ CheckoutFails \/ CycleFails
    <3>1. remote' = remote \/ remote' = main
      BY <2>2 DEF CycleRuns, CycleLocks, HydrationFails, CheckoutFails, CycleFails, Fetches, FetchDiverges,
         NothingToPush, PushBegins, Pushes, Delivers, PushIsRejected
    <3> QED BY <1>1, <1>2, <3>1, CommittedInPrefix DEF HeldInv, RemoteBehind
  <2> QED BY <2>1, <2>2
<1>4. ASSUME NEW u \in Txs, Clean(u)'
      PROVE  /\ tx'[u].pc \in Active \cup {"new"} => MergeKnown(u, tx'[u], main')
             /\ tx'[u].pc \in Active => WorkFits(u, tx'[u], touched'[u], main')
             /\ tx'[u].pc \in {"wait", "committed", "acked"} => DoesHold(main', touched'[u])
  <2>1. Clean(u) /\ touched' = touched
    BY <1>1, <1>4 DEF Clean, Lapsed
  <2>2. DoesHold(main, touched[u]) => DoesHold(main', touched[u])
    BY <1>1, <1>2, DoneInPrefix
  <2>3. tx[u].pc \in {"wait", "committed", "acked"} => DoesHold(main', touched[u])
    BY <2>1, <2>2 DEF HeldInv, AnswersHeld
  <2>4. CASE tx'[u] = tx[u]
    <3>1. tx[u].pc \in Active => WorkFits(u, tx[u], touched[u], main')
      BY <2>1, <2>2 DEF HeldInv, WorkHeld, WorkFits
    <3>2. tx[u].pc \in Active \cup {"new"} => MergeKnown(u, tx[u], main')
      BY <1>2, <2>1 DEF HeldInv, MergesKnown, MergeKnown
    <3> QED BY <2>1, <2>3, <2>4, <3>1, <3>2
  <2>5. CASE tx[u].pc = "wait" /\ tx'[u].pc \in {"acked", "committed"}
    BY <2>1, <2>3, <2>5 DEF Active, Locked, CommitSteps, RefreshSteps, CleanupSteps
  <2> QED BY <1>1, <2>4, <2>5
<1>5. MergesKnown' /\ WorkHeld' /\ AnswersHeld'
  BY <1>4 DEF MergesKnown, WorkHeld, AnswersHeld
<1> QED BY <1>1, <1>3, <1>5 DEF HeldInv

\* What is durable says what a restarted transaction made; what recovery forgets it
\* need not hold.
LEMMA CrashKeepsHeld == ASSUME HeldInv, Crash PROVE HeldInv'
<1>1. /\ LogInv' /\ TypeInv /\ main' = main /\ remote' = remote /\ lapses \subseteq lapses'
      /\ tx' = [t \in Txs |-> Recovered(t)]
  BY CrashKeepsLogs DEF HeldInv, LogInv, GitInv, BaseInv, Crash
<1>2. ASSUME NEW u \in Txs, Clean(u)'
      PROVE  /\ tx'[u].pc \in Active \cup {"new"} => MergeKnown(u, tx'[u], main)
             /\ tx'[u].pc \in Active => WorkFits(u, tx'[u], touched'[u], main)
             /\ tx'[u].pc \in {"wait", "committed", "acked"} => DoesHold(main, touched'[u])
  <2>1. Clean(u) /\ tx'[u] = Recovered(u)
    BY <1>1, <1>2 DEF Clean, Lapsed
  <2>2. /\ \A h : DoesHold(h, touched[u]) => DoesHold(h, touched'[u])
        /\ \A h : EndsWith(h, touched[u]) => EndsWith(h, touched'[u])
    <3>1. \A k \in Keys : touched'[u][k] # None => touched'[u][k] = touched[u][k]
      BY DEF Crash
    <3> QED BY <3>1 DEF DoesHold, EndsWith
  <2>3. CASE Survives(u)
    <3>1. /\ tx[u].pc \in Active /\ tx[u].db # None
          /\ tx'[u].pc = "open" /\ tx'[u].branch = tx[u].branch
          /\ tx'[u].mem = tx[u].dur \ {"hydrated"} /\ tx'[u].dur = tx[u].dur
      BY <1>1, <2>1, <2>3, RecoveredIs DEF Same, Survives, Outcomes, Active, Locked, CommitSteps, RefreshSteps,
         CleanupSteps
    <3>2. ~CommittedBy(u, main) /\ ~(tx[u].pc = "reset" /\ Exists(u))
      BY <1>2, <2>3 DEF Crash, Clean, Lapsed
    <3>3. WorkFits(u, tx[u], touched[u], main)
      BY <2>1, <3>1 DEF HeldInv, WorkHeld
    <3> QED BY <2>2, <3>1, <3>2, <3>3 DEF WorkFits, MergeKnown, Exists, CleanupSteps, RefreshSteps
  <2>4. CASE ~Survives(u)
    <3>1. /\ tx'[u].pc \notin Active
          /\ tx'[u].pc = "new" => tx'[u] = tx[u]
          /\ tx'[u].pc \in {"wait", "committed", "acked"} => tx[u].pc \in {"wait", "committed", "acked"}
      BY <1>1, <2>1, <2>4, RecoveredIs DEF Same, Active, Locked, CommitSteps, RefreshSteps, CleanupSteps, Outcomes
    <3> QED BY <2>1, <2>2, <3>1 DEF HeldInv, MergesKnown, AnswersHeld
  <2> QED BY <2>3, <2>4
<1>3. RemoteBehind' /\ MergesKnown' /\ WorkHeld' /\ AnswersHeld'
  BY <1>1, <1>2 DEF HeldInv, RemoteBehind, MergesKnown, WorkHeld, AnswersHeld
<1> QED BY <1>1, <1>3 DEF HeldInv

LEMMA NextKeepsHeld == ASSUME HeldInv, [Next]_vars PROVE HeldInv'
<1>1. CASE UNCHANGED vars
  BY <1>1, NextKeepsLogs DEF vars, HeldInv, RemoteBehind, MergesKnown, WorkHeld, AnswersHeld, Clean, Lapsed
<1> QED BY <1>1, OwnKeepsHeld, FreeKeepsHeld, CrashKeepsHeld DEF Next, Own

LEMMA InitHeld == ASSUME Init PROVE HeldInv
<1>1. \A t \in Txs : tx[t].pc = "new"
  BY NoTxIs DEF Init
<1>2. ASSUME NEW t \in Txs PROVE ~CommittedBy(t, main)
  <2> DEFINE first == [by |-> Seed, tree |-> [k \in Keys |-> IF k \in Seeded THEN Seed ELSE Absent]]
  <2>1. main = <<first>> /\ first.by = Seed
    BY DEF Init
  <2> HIDE DEF first
  <2>2. DOMAIN main = {1} /\ main[1] = first
    BY <2>1
  <2> QED BY <2>1, <2>2, GraphAssumption DEF CommittedBy
<1>3. remote = main
  BY DEF Init
<1> QED BY <1>1, <1>2, <1>3, InitLogs DEF HeldInv, RemoteBehind, MergesKnown, WorkHeld, AnswersHeld, MergeKnown,
    Active, Locked, CommitSteps, RefreshSteps, CleanupSteps

LEMMA HeldAlways == Spec => []HeldInv
BY InitHeld, NextKeepsHeld, PTL DEF Spec

\* What a commit that was answered made is on main (CommitTransaction, through every
\* failed attempt, retry, refresh and resumed clean-up): unless a refresh was
\* interrupted or a restart opened the transaction again after its merge.
THEOREM CommitsAreOnMain == Spec => []CommittedIsOnMain
<1>1. HeldInv => CommittedIsOnMain
  BY DEF HeldInv, AnswersHeld, Clean, CommittedIsOnMain, Holds, Wanted, DoesHold
<1> QED BY <1>1, HeldAlways, PTL


-----------------------------------------------------------------------------
(* No update is lost.                                                      *)

\* A value that a transaction gave is in a history only together with a commit of
\* that transaction.
Sourced(h) == \A i \in DOMAIN h, k \in Keys, v \in Txs : h[i].tree[k] = v => CommittedBy(v, h)
AllSourced ==
  Sourced(main) /\ Sourced(remote) /\ \A t \in Txs : tx[t].pc \in Active => Sourced(tx[t].branch)

LEMMA SourcedTree ==
  ASSUME NEW h \in Seq(Commits), h # <<>>, Sourced(h), NEW k \in Keys, NEW v \in Txs, Tree(h)[k] = v
  PROVE  CommittedBy(v, h)
<1>1. Len(h) \in DOMAIN h /\ Last(h) = h[Len(h)]
  <2>1. Len(h) \in Nat \ {0}
    BY EmptySeq
  <2> QED BY <2>1 DEF Last
<1> QED BY <1>1 DEF Sourced, Tree

LEMMA SourcedAppended ==
  ASSUME NEW h \in Seq(Commits), h # <<>>, Sourced(h), NEW c \in Commits,
         \A k \in Keys : c.tree[k] \notin Txs \ {c.by} \/ c.tree[k] = Tree(h)[k]
  PROVE  Sourced(Append(h, c))
<1> DEFINE g == Append(h, c)
<1>1. /\ g \in Seq(Commits) /\ Len(g) = Len(h) + 1 /\ Len(h) \in Nat /\ g[Len(h) + 1] = c
      /\ \A i \in 1..Len(h) : g[i] = h[i]
  BY AppendProperties
<1>2. \A v \in Txs : CommittedBy(v, g) <=> CommittedBy(v, h) \/ c.by = v
  BY CommittedInAppended
<1> HIDE DEF g
<1>3. DOMAIN g = 1 .. Len(h) + 1 /\ DOMAIN h = 1..Len(h)
  BY <1>1
<1>4. ASSUME NEW i \in DOMAIN g, NEW k \in Keys, NEW v \in Txs, g[i].tree[k] = v PROVE CommittedBy(v, g)
  <2>1. CASE i \in 1..Len(h)
    BY <1>1, <1>2, <1>3, <1>4, <2>1 DEF Sourced
  <2>2. CASE i = Len(h) + 1
    <3>1. CASE v = c.by
      BY <1>2, <3>1
    <3>2. CASE Tree(h)[k] = v
      BY <1>2, <3>2, SourcedTree
    <3> QED BY <1>1, <1>4, <2>2, <3>1, <3>2
  <2> QED BY <1>1, <1>3, <1>4, <2>1, <2>2
<1> QED BY <1>4 DEF Sourced, g

LEMMA NewBranchSourced ==
  ASSUME NEW t \in Txs, tx[t].branch \in Seq(Commits), tx[t].branch # <<>>, Sourced(tx[t].branch)
  PROVE  Sourced(NewBranch(t))
<1>1. NewCommit(t) \in Commits /\ NewCommit(t).by = t
      /\ NewCommit(t).tree = Written(Tree(tx[t].branch), t)
  BY NewBranchType DEF NewCommit
<1>2. ASSUME NEW k \in Keys
      PROVE  LET v == Written(Tree(tx[t].branch), t)[k] IN v \in {t, Absent, Draft, Tree(tx[t].branch)[k]}
  BY DEF Written
<1>3. {Absent, Draft} \cap Txs = {}
  BY GraphAssumption
<1>4. \A k \in Keys : NewCommit(t).tree[k] \notin Txs \ {t} \/ NewCommit(t).tree[k] = Tree(tx[t].branch)[k]
  BY <1>1, <1>2, <1>3
<1> QED BY <1>1, <1>4, SourcedAppended DEF NewBranch

LEMMA OwnKeepsSourced ==
  ASSUME GitInv, NEW t \in Txs, Own(t), AllSourced PROVE AllSourced'
<1>1. /\ TypeInv /\ Alone(t) /\ remote' = remote
      /\ tx[t].pc \in Active => tx[t].branch \in Seq(Commits) /\ tx[t].branch # <<>>
  BY OwnTypes, OwnKeepsRemote DEF GitInv, BaseInv, Own, TypeInv, TxsSound, Sound, Record, StepFits
<1>2. Sourced(main')
  BY OwnFits DEF AllSourced, Active, Locked, CommitSteps
<1>3. tx'[t].pc \in Active => Sourced(tx'[t].branch)
  <2> USE <1>1 DEF Becomes, Same, AllSourced
  <2>1. CASE Called(t)
    <3>1. tx'[t].branch \in {tx[t].branch, main} /\ (tx'[t].branch = main \/ tx[t].pc \in Active)
      BY <2>1, BeginBecomes, MutateBecomes, RollbackBecomes, RefreshBegunBecomes, ResumeBecomes, EmptyBecomes,
         FoundBecomes, RefusedBecomes, BeginsBecomes DEF Called, Mutate, RollbackTransaction, RefreshIsNotSaved,
         RefreshBegins, Refreshable, CommitResumesCleanup, CommitOfNothing, CommitFindsMerge, CommitIsNotUpToDate, CommitBegins,
         Committing, Usable, Active
    <3> QED BY <3>1
  <2>2. CASE InCommit(t)
    <3>1. tx[t].pc \in Active
      BY <2>2 DEF InCommit, CommitStarts, CommitCreates, CommitRecords, CommitLoads, CommitMerges, CommitRecordsMerge,
         Reaches, Active, Locked, CommitSteps
    <3>2. tx'[t].branch \in {tx[t].branch, NewBranch(t)}
      BY <2>2, StartBecomes, CreateBecomes, RecordBecomes, LoadBecomes, MergeBecomes, MergedBecomes DEF InCommit
    <3> QED BY <3>1, <3>2, NewBranchSourced
  <2>3. CASE InRefresh(t)
    <3>1. tx[t].pc \in Active
      BY <2>3 DEF InRefresh, RefreshResets, RefreshMarks, RefreshSwaps, RefreshAborts, RefreshEnds,
         Reaches, Active, Locked, RefreshSteps
    <3>2. tx'[t].branch \in {tx[t].branch, main}
      BY <2>3, ResetBecomes, MarkBecomes, SwapBecomes, AbortBecomes, RefreshedBecomes DEF InRefresh
    <3> QED BY <3>1, <3>2
  <2>4. CASE DropBranchDB(t) \/ Collect(t) \/ Fails(t)
    <3>1. tx[t].pc \in Active
      BY <2>4 DEF DropBranchDB, Collect, Fails, FailCommit, FailCleanup, FailRefresh, Active, Locked, CleanupSteps
    <3>2. tx'[t].branch = tx[t].branch
      BY <2>4, DropBecomes, CollectBecomes, FailedCommitBecomes, FailedCleanupBecomes, FailedRefreshBecomes DEF Fails
    <3> QED BY <3>1, <3>2
  <2>5. CASE DeleteBranch(t)
    BY <2>5, OwnStaysActive DEF Active, Locked, CommitSteps, RefreshSteps, CleanupSteps
  <2> QED BY <2>1, <2>2, <2>3, <2>4, <2>5 DEF Own
<1> QED BY <1>1, <1>2, <1>3 DEF AllSourced, Alone

LEMMA NextKeepsSourced == ASSUME GitInv, AllSourced, [Next]_vars PROVE AllSourced'
<1>0. TypeInv
  BY DEF GitInv, BaseInv
<1>1. CASE UNCHANGED vars
  BY <1>1 DEF vars, AllSourced
<1>2. ASSUME CycleRuns \/ CycleLocks \/ HydrationFails \/ CheckoutFails \/ CycleFails \/ PeerPushes PROVE AllSourced'
  <2>1. Sourced(main') /\ \A u \in Txs : tx'[u].pc \in Active => tx'[u] = tx[u]
    BY <1>2, FreeStep DEF AllSourced, Active, Locked, CommitSteps, RefreshSteps, CleanupSteps
  <2>2. Sourced(remote')
    <3>1. CASE PeerPushes
      <4>1. PICK k \in Keys : remote' = Append(remote, [by |-> Peer, tree |-> [Tree(remote) EXCEPT ![k] = Peer]])
        BY <3>1 DEF PeerPushes
      <4> DEFINE c == [by |-> Peer, tree |-> [Tree(remote) EXCEPT ![k] = Peer]]
      <4>2. remote \in Seq(Commits) /\ remote # <<>> /\ Tree(remote) \in Trees
        BY <1>0, TreeType DEF TypeInv, HistoriesOk
      <4>3. c \in Commits /\ \A j \in Keys : c.tree[j] \notin Txs \/ c.tree[j] = Tree(remote)[j]
        BY <4>2, GraphAssumption DEF Commits, Trees, Contents, Writers
      <4> HIDE DEF c
      <4> QED BY <4>1, <4>2, <4>3, SourcedAppended DEF AllSourced, c
    <3>2. CASE CycleRuns \/ CycleLocks \/ HydrationFails \/ CheckoutFails \/ CycleFails
      <4>1. remote' = remote \/ remote' = main
        BY <3>2 DEF CycleRuns, CycleLocks, HydrationFails, CheckoutFails, CycleFails, Fetches, FetchDiverges,
           NothingToPush, PushBegins, Pushes, Delivers, PushIsRejected
      <4> QED BY <4>1 DEF AllSourced
    <3> QED BY <1>2, <3>1, <3>2
  <2> QED BY <2>1, <2>2 DEF AllSourced
<1>3. CASE Crash
  <2>1. main' = main /\ remote' = remote /\ \A u \in Txs : tx'[u] = Recovered(u)
    BY <1>3 DEF Crash
  <2>2. \A u \in Txs : tx'[u].pc \in Active => tx[u].pc \in Active /\ tx'[u].branch = tx[u].branch
    BY <1>0, <2>1, RecoveredIs DEF Same, Active, Locked, CommitSteps, RefreshSteps, CleanupSteps, Outcomes
  <2> QED BY <2>1, <2>2 DEF AllSourced
<1> QED BY <1>1, <1>2, <1>3, OwnKeepsSourced DEF Next, Own


\* What the log has is what was touched.  What was not touched is as it was where the
\* transaction started from, the base of its branch or, once the log is applied again,
\* main.  What was touched had at the base the value that was seen, or none.  The
\* branch adds to its base no more than a commit of what was wanted.
MadeOf(t, c, base, did) ==
  c.by = t /\ \A k \in Keys : c.tree[k] # Tree(base)[k] => did[k] # None /\ did[k].want = c.tree[k]

Start(r, m) == IF r.pc = "validate" THEN m ELSE r.base

StillSeen(t, r, did, m) ==
  /\ \A k \in Keys : {<<"add", k>>, <<"mod", k>>, <<"del", k>>} \cap r.log # {} => did[k] # None
  /\ r.db # None => \A k \in Keys : did[k] = None => r.db[k] = Tree(Start(r, m))[k]
  /\ \A k \in Keys : did[k] # None => Tree(r.base)[k] \in {did[k].saw, Absent}
  /\ r.pc \notin {"mark", "swap", "validate"} =>
       \/ r.branch = r.base
       \/ \E c \in Commits : r.branch = Append(r.base, c) /\ MadeOf(t, c, r.base, did)

\* The elements with which a refresh compares main.
BeforeFits(t, r) == r.pc \in RefreshSteps => \A k \in Keys : r.before[k] \in {t, Absent, Tree(r.base)[k]}

SeenFits(t, r, did, m) == StillSeen(t, r, did, m) /\ BeforeFits(t, r)

AllSeen == \A t \in Txs : tx[t].pc \in Active /\ Clean(t) => SeenFits(t, tx[t], touched[t], main)

LEMMA SeenStays ==
  ASSUME NEW t, NEW r, NEW s, NEW did, NEW m, NEW n, StillSeen(t, r, did, m),
         s.log = r.log, s.db = r.db \/ s.db = None, s.base = r.base, s.branch = r.branch,
         r.pc \notin {"mark", "swap", "validate"}, s.pc \notin {"mark", "swap", "validate"}
  PROVE  StillSeen(t, s, did, n)
BY DEF StillSeen, Start

\* A transaction without a commit on its branch has its branch where it started.
LEMMA BranchIsBase ==
  ASSUME NEW t \in Txs, NEW r \in Record, NEW did, NEW m, StillSeen(t, r, did, m), ~CommittedBy(t, r.branch),
         r.pc \notin {"mark", "swap", "validate"}
  PROVE  r.branch = r.base
<1>1. ASSUME NEW c \in Commits, r.branch = Append(r.base, c), c.by = t PROVE CommittedBy(t, r.branch)
  BY <1>1, CommittedInAppended DEF Record
<1> QED BY <1>1 DEF StillSeen, MadeOf

LEMMA RecordsSeen ==
  ASSUME TypeInv, NEW t \in Txs, NEW k \in Keys, CreateEntity(t, k) \/ UpdateEntity(t, k) \/ DeleteEntity(t, k),
         StillSeen(t, tx[t], touched[t], main), tx[t].branch = tx[t].base
  PROVE  StillSeen(t, tx'[t], touched'[t], main)
<1> DEFINE r == tx[t]  old == touched[t][k]
<1>1. r \in Record
  BY DEF TypeInv, TxsSound, Sound
<1>2. PICK kind \in Kinds, value \in {t, Absent} : Records(t, kind, k, value)
  BY DEF CreateEntity, UpdateEntity, DeleteEntity, Kinds
<1> DEFINE saw == IF old = None THEN r.db[k] ELSE old.saw
           new == [saw |-> saw, want |-> value]
           log == r.log \cup {<<kind, k>>}
           db == [r.db EXCEPT ![k] = value]
           did == [touched[t] EXCEPT ![k] = new]
<1>3. tx'[t].db = db /\ tx'[t].log = log /\ tx'[t].branch = r.branch /\ tx'[t].base = r.base /\ tx'[t].pc = r.pc
  BY <1>1, <1>2 DEF Records, TypeInv, TxsSound, Sound, Record
<1>4. touched'[t] = did
  BY <1>2 DEF Records, TypeInv, TouchedType
<1>5. r.pc = "open" /\ r.db \in Trees
  BY <1>1, <1>2 DEF Records, Usable, Record
<1>6. new # None
  <2>1. saw \in Contents /\ value \in Contents
    BY <1>5 DEF TypeInv, TouchedType, Touches, Trees, Contents, Writers
  <2> HIDE DEF saw
  <2> QED BY <2>1, NoneAssumption DEF Touches
<1>7. ASSUME NEW j \in Keys
      PROVE  /\ {<<"add", j>>, <<"mod", j>>, <<"del", j>>} \cap log # {} => did[j] # None
             /\ did[j] = None => db[j] = Tree(r.base)[j]
             /\ did[j] # None => Tree(r.base)[j] \in {did[j].saw, Absent}
  <2>1. /\ {<<"add", j>>, <<"mod", j>>, <<"del", j>>} \cap r.log # {} => touched[t][j] # None
        /\ touched[t][j] = None => r.db[j] = Tree(r.base)[j]
        /\ touched[t][j] # None => Tree(r.base)[j] \in {touched[t][j].saw, Absent}
    BY <1>2, <1>5 DEF StillSeen, Start, Records, Usable
  <2>2. CASE j # k
    <3>1. did[j] = touched[t][j] /\ db[j] = r.db[j]
      BY <1>5, <2>2 DEF TypeInv, TouchedType, Trees
    <3>2. {<<"add", j>>, <<"mod", j>>, <<"del", j>>} \cap log = {<<"add", j>>, <<"mod", j>>, <<"del", j>>} \cap r.log
      BY <2>2
    <3> HIDE DEF log, db, did
    <3> QED BY <2>1, <3>1, <3>2
  <2>3. CASE j = k
    <3>1. did[k] = new
      BY DEF TypeInv, TouchedType
    <3>2. new.saw = saw
      OBVIOUS
    <3> HIDE DEF new, did
    <3> QED BY <1>6, <2>1, <2>3, <3>1, <3>2
  <2> QED BY <2>2, <2>3
<1> HIDE DEF log, db, did
<1> QED BY <1>3, <1>4, <1>5, <1>7 DEF StillSeen, Start

\* What a transaction that is not lapsed may rely on, at a step of it.
SeenInv == HeldInv /\ AllSourced /\ AllSeen

LEMMA SeenFacts ==
  ASSUME SeenInv, NEW t \in Txs, ~Lapsed(t, "changes"), ~Lapsed(t, "reopen")
  PROVE  /\ TypeInv /\ GitInv /\ main \in Seq(Commits) /\ main # <<>> /\ tx[t] \in Record
         /\ tx[t].pc \in Active =>
              /\ StillSeen(t, tx[t], touched[t], main) /\ BeforeFits(t, tx[t])
              /\ LogFits(t, tx[t].db, tx[t].log, touched[t])
              /\ WorkFits(t, tx[t], touched[t], main) /\ MergeKnown(t, tx[t], main)
BY DEF SeenInv, HeldInv, LogInv, GitInv, BaseInv, TypeInv, TxsSound, Sound, HistoriesOk, AllSeen, SeenFits, Clean,
   LogsFit, WorkHeld, MergesKnown

LEMMA CallKeepsSeen ==
  ASSUME SeenInv, NEW t \in Txs, Called(t) \/ Collect(t), ~Lapsed(t, "changes"), ~Lapsed(t, "reopen")
  PROVE  SeenFits(t, tx'[t], touched'[t], main)
<1>0. /\ TypeInv /\ main \in Seq(Commits) /\ main # <<>> /\ tx[t] \in Record
      /\ tx[t].pc \in Active =>
           /\ StillSeen(t, tx[t], touched[t], main)
           /\ LogFits(t, tx[t].db, tx[t].log, touched[t]) /\ WorkFits(t, tx[t], touched[t], main)
  BY SeenFacts
<1> USE DEF Becomes, Same
<1>1. CASE BeginTransaction(t)
  <2>1. /\ tx'[t].log = tx[t].log /\ tx'[t].db = Tree(main) /\ touched' = touched
        /\ tx[t].pc = "new" /\ tx'[t].pc = "open" /\ tx'[t].branch = main /\ tx'[t].base = main
    BY <1>0, <1>1, BegunIs, BeginBecomes
  <2>2. tx[t].log = {} /\ \A k \in Keys : touched[t][k] = None
    BY <2>1 DEF SeenInv, HeldInv, LogInv, LogsFit
  <2> QED BY <2>1, <2>2 DEF SeenFits, StillSeen, BeforeFits, Start, RefreshSteps
<1>2. CASE Mutate(t)
  <2>1. PICK k \in Keys : CreateEntity(t, k) \/ UpdateEntity(t, k) \/ DeleteEntity(t, k)
    BY <1>2 DEF Mutate
  <2>2. tx[t].pc = "open" /\ tx[t].db # None /\ "started" \notin tx[t].mem
    BY <1>2 DEF Mutate, Usable, CreateEntity, UpdateEntity, DeleteEntity, Records, Has
  <2>3. ~CommittedBy(t, tx[t].branch)
    BY <1>0, <2>2, FlagsKnown DEF WorkFits, Active
  <2>4. tx[t].branch = tx[t].base
    BY <1>0, <2>2, <2>3, BranchIsBase DEF Active
  <2>5. StillSeen(t, tx'[t], touched'[t], main)
    BY <1>0, <2>1, <2>2, <2>4, RecordsSeen DEF Active
  <2>6. tx'[t].pc = "open"
    BY <1>0, <1>2, MutateBecomes
  <2> QED BY <2>5, <2>6 DEF SeenFits, BeforeFits, RefreshSteps
<1>3. CASE RefreshBegins(t) /\ ~BeginTransaction(t) /\ ~Mutate(t)
  <2>1. tx[t].pc = "open"
    BY <1>3 DEF RefreshBegins, Refreshable
  <2>2. KeepsData(t)
    BY <1>0, <1>3, CallKeepsData DEF Called
  <2>3. tx'[t].pc = "reset" /\ tx'[t].branch = tx[t].branch /\ tx'[t].base = tx[t].base
    BY <1>0, <1>3, RefreshBegunBecomes
  <2>4. StillSeen(t, tx'[t], touched'[t], main)
    BY <1>0, <2>1, <2>2, <2>3, SeenStays DEF KeepsData, Active
  <2>5. tx'[t].before = Tree(tx[t].branch)
    <3>1. tx' = [tx EXCEPT ![t].pc = "reset", ![t].before = Tree(tx[t].branch), ![t].mem = Void(tx[t].mem),
                           ![t].dur = IF Has(t, "started") THEN Void(tx[t].mem) ELSE @]
      BY <1>3 DEF RefreshBegins
    <3> QED BY <1>0, <3>1 DEF TypeInv, TxsSound, Sound, Record
  <2>6. ASSUME NEW k \in Keys PROVE Tree(tx[t].branch)[k] \in {t, Absent, Tree(tx[t].base)[k]}
    <3>1. CASE tx[t].branch = tx[t].base
      BY <3>1
    <3>2. ASSUME NEW c \in Commits, tx[t].branch = Append(tx[t].base, c), MadeOf(t, c, tx[t].base, touched[t])
          PROVE  Tree(tx[t].branch)[k] \in {t, Absent, Tree(tx[t].base)[k]}
      <4>1. Tree(tx[t].branch) = c.tree
        BY <1>0, <3>2, PrefixOfAppended DEF Record, Tree
      <4>2. c.tree[k] # Tree(tx[t].base)[k] => touched[t][k] # None /\ touched[t][k].want = c.tree[k]
        BY <3>2 DEF MadeOf
      <4>3. touched[t][k] # None => touched[t][k].want \in {t, Absent}
        BY <1>0, <2>1 DEF LogFits, Entered, Active
      <4> QED BY <4>1, <4>2, <4>3
    <3> QED BY <1>0, <2>1, <3>1, <3>2 DEF StillSeen, Active
  <2> QED BY <2>3, <2>4, <2>5, <2>6 DEF SeenFits, BeforeFits
<1>4. CASE ~BeginTransaction(t) /\ ~Mutate(t) /\ ~RefreshBegins(t)
  <2>1. tx[t].pc = "open"
    BY <1>4 DEF Called, RollbackTransaction, CommitResumesCleanup, CommitOfNothing, CommitFindsMerge,
       CommitIsNotUpToDate, CommitBegins, Committing, Usable, Collect, RefreshIsNotSaved, Refreshable
  <2>2. KeepsData(t)
    BY <1>0, <1>4, CallKeepsData
  <2>3. FirstStep(t) \in {"start", "load", "merge"}
    BY DEF FirstStep, NextAfterCreated
  <2>4. tx'[t].pc \notin RefreshSteps /\ tx'[t].branch = tx[t].branch /\ tx'[t].base = tx[t].base
    <3>1. CASE RefreshIsNotSaved(t)
      BY <2>1, <3>1 DEF RefreshIsNotSaved, RefreshSteps
    <3>2. CASE ~RefreshIsNotSaved(t)
      BY <1>0, <1>4, <2>3, <3>2, RollbackBecomes, ResumeBecomes, EmptyBecomes, FoundBecomes, RefusedBecomes,
         BeginsBecomes, CollectBecomes DEF Called, RefreshSteps
    <3> QED BY <3>1, <3>2
  <2>5. StillSeen(t, tx'[t], touched'[t], main)
    BY <1>0, <2>1, <2>2, <2>4, SeenStays DEF KeepsData, Active, RefreshSteps
  <2> QED BY <2>4, <2>5 DEF SeenFits, BeforeFits
<1> QED BY <1>1, <1>2, <1>3, <1>4


\* The commit of t changes of its base what was touched, and to what was wanted.
LEMMA NewCommitIsMade ==
  ASSUME TypeInv, NEW t \in Txs, StillSeen(t, tx[t], touched[t], main), tx[t].branch = tx[t].base,
         tx[t].db # None, ~Outdates(t), LogFits(t, tx[t].db, tx[t].log, touched[t])
  PROVE  MadeOf(t, NewCommit(t), tx[t].base, touched[t])
<1> DEFINE was == Tree(tx[t].branch)  is == Written(was, t)
<1>1. ASSUME NEW k \in Keys, is[k] # was[k]
      PROVE  {<<"add", k>>, <<"mod", k>>, <<"del", k>>} \cap tx[t].log # {}
  BY <1>1 DEF Written
<1>2. ASSUME NEW k \in Keys, is[k] # was[k] PROVE touched[t][k] # None /\ touched[t][k].want = is[k]
  <2>1. touched[t][k] # None
    BY <1>1, <1>2 DEF StillSeen
  <2> QED BY <2>1, WrittenIsWanted
<1> HIDE DEF is
<1>3. NewCommit(t).by = t /\ NewCommit(t).tree = is
  BY DEF NewCommit, is
<1> QED BY <1>2, <1>3 DEF MadeOf

LEMMA CommitKeepsSeen ==
  ASSUME SeenInv, NEW t \in Txs, InCommit(t) \/ FailCommit(t) \/ FailCleanup(t) \/ DropBranchDB(t),
         ~Lapsed(t, "changes")', ~Lapsed(t, "reopen")', NEW m
  PROVE  SeenFits(t, tx'[t], touched'[t], m)
<1>a. ~Lapsed(t, "changes") /\ ~Lapsed(t, "reopen") /\ (CommitCreates(t) => ~Outdates(t))
  BY OwnHistory DEF SeenInv, HeldInv, LogInv, GitInv, BaseInv, Own, Fails, Lapsed, CommitCreates
<1>0. /\ TypeInv /\ GitInv /\ main \in Seq(Commits) /\ main # <<>> /\ tx[t] \in Record
      /\ tx[t].pc \in Active =>
           /\ StillSeen(t, tx[t], touched[t], main)
           /\ LogFits(t, tx[t].db, tx[t].log, touched[t]) /\ WorkFits(t, tx[t], touched[t], main)
  BY <1>a, SeenFacts
<1>1. tx[t].pc \in CommitSteps \cup CleanupSteps /\ (CommitCreates(t) => tx[t].pc = "create")
  BY DEF InCommit, CommitStarts, CommitCreates, CommitRecords, CommitLoads, CommitMerges, CommitRecordsMerge,
     Reaches, FailCommit, FailCleanup, DropBranchDB, CommitSteps, CleanupSteps
<1>2. tx[t].pc \in Active /\ tx[t].pc \notin RefreshSteps
  BY <1>1 DEF Active, Locked, CommitSteps, CleanupSteps, RefreshSteps
<1>3. tx'[t].log = tx[t].log /\ touched' = touched /\ tx'[t].db \in {None, tx[t].db}
  BY <1>0, CommitKeepsData, DroppedIs DEF KeepsData
<1>4. /\ tx'[t].pc \notin RefreshSteps /\ tx'[t].base = tx[t].base
      /\ tx'[t].branch = tx[t].branch \/ CommitCreates(t)
  <2>1. NextAfterCreated(tx[t].mem) \in {"load", "merge"}
    BY DEF NextAfterCreated
  <2> QED BY <1>0, <2>1, StartBecomes, CreateBecomes, RecordBecomes, LoadBecomes, MergeBecomes, MergedBecomes,
          FailedCommitBecomes, FailedCleanupBecomes, DropBecomes DEF InCommit, Becomes, Same, RefreshSteps
<1>5. StillSeen(t, tx'[t], touched[t], m)
  <2>1. CASE tx'[t].branch = tx[t].branch
    BY <1>0, <1>2, <1>3, <1>4, <2>1, SeenStays DEF RefreshSteps
  <2>2. CASE CommitCreates(t)
    <3>1. tx[t].branch = tx[t].base /\ tx[t].db # None
      BY <1>0, <1>1, <2>2, BranchInCommit DEF SeenInv, HeldInv, LogInv, DatabasesThere, GitInv, StepsHold, AtStep,
         CommitSteps, Exists
    <3>2. MadeOf(t, NewCommit(t), tx[t].base, touched[t]) /\ NewCommit(t) \in Commits
      <4>1. tx[t].branch # <<>>
        BY <1>0, <1>2 DEF TypeInv, TxsSound, Sound, StepFits
      <4> QED BY <1>a, <1>0, <1>2, <2>2, <3>1, <4>1, NewCommitIsMade, NewBranchType DEF Record
    <3>3. tx'[t].branch = NewBranch(t)
      BY <1>0, <2>2, CreateBecomes DEF Becomes, Same
    <3>4. tx'[t].branch = tx'[t].base \/ tx'[t].branch = Append(tx'[t].base, NewCommit(t))
      BY <1>4, <3>1, <3>3 DEF NewBranch
    <3>5. tx'[t].db # None => tx'[t].db = tx[t].db
      BY <1>3
    <3>6. tx'[t].pc # "validate" /\ tx[t].pc # "validate"
      BY <1>2, <1>4 DEF RefreshSteps
    <3> QED BY <1>0, <1>2, <1>3, <1>4, <3>2, <3>4, <3>5, <3>6 DEF StillSeen, Start
  <2> QED BY <1>4, <2>1, <2>2
<1> QED BY <1>3, <1>4, <1>5 DEF SeenFits, BeforeFits


\* A refresh that found no overlap starts t again from main, which has of what t
\* touched what t saw, or nothing.
LEMMA EndIsSeen ==
  ASSUME SeenInv, NEW t \in Txs, tx[t].pc = "validate", ~Overlaps(t), ~Lapsed(t, "changes"), ~Lapsed(t, "reopen"),
         NEW k \in Keys, touched[t][k] # None
  PROVE  Tree(main)[k] \in {touched[t][k].saw, Absent}
<1>0. /\ TypeInv /\ main \in Seq(Commits) /\ main # <<>> /\ Sourced(main)
      /\ StillSeen(t, tx[t], touched[t], main) /\ BeforeFits(t, tx[t])
      /\ LogFits(t, tx[t].db, tx[t].log, touched[t])
      /\ WorkFits(t, tx[t], touched[t], main) /\ MergeKnown(t, tx[t], main)
  BY SeenFacts DEF SeenInv, AllSourced, Active, Locked, RefreshSteps
<1>1. ~CommittedBy(t, main)
  BY <1>0, FlagsKnown DEF WorkFits, MergeKnown, RefreshSteps
<1>2. {<<"add", k>>, <<"mod", k>>, <<"del", k>>} \cap tx[t].log # {}
  BY <1>0 DEF LogFits, Entered
<1>3. CASE <<"add", k>> \in tx[t].log
  BY <1>3 DEF Overlaps
<1>4. CASE <<"add", k>> \notin tx[t].log
  <2>1. {<<"mod", k>>, <<"del", k>>} \cap tx[t].log # {}
    BY <1>2, <1>4
  <2>2. tx[t].before[k] = Tree(main)[k]
    BY <2>1 DEF Overlaps
  <2>3. Tree(main)[k] # t
    BY <1>0, <1>1, SourcedTree
  <2>4. Tree(main)[k] \in {Absent, Tree(tx[t].base)[k]}
    BY <1>0, <2>2, <2>3 DEF BeforeFits, RefreshSteps
  <2> QED BY <1>0, <2>4 DEF StillSeen
<1> QED BY <1>3, <1>4

LEMMA RefreshKeepsSeen ==
  ASSUME SeenInv, NEW t \in Txs, InRefresh(t) \/ FailRefresh(t), ~Lapsed(t, "changes")', ~Lapsed(t, "reopen")'
  PROVE  SeenFits(t, tx'[t], touched'[t], main)
<1>a. ~Lapsed(t, "changes") /\ ~Lapsed(t, "reopen")
  BY OwnHistory DEF SeenInv, HeldInv, LogInv, GitInv, BaseInv, Own, Fails, Lapsed
<1>0. tx[t].pc \in RefreshSteps
  BY DEF InRefresh, RefreshResets, RefreshMarks, RefreshSwaps, RefreshAborts, RefreshEnds, Reaches, FailRefresh, RefreshSteps
<1>1. /\ TypeInv /\ tx \in [Txs -> Record]
      /\ StillSeen(t, tx[t], touched[t], main) /\ BeforeFits(t, tx[t])
      /\ tx[t].pc # "reset" => tx[t].branch = main
  BY <1>0, <1>a, SeenFacts DEF TypeInv, TxsSound, Sound, Active, Locked, GitInv, StepsHold, AtStep, RefreshSteps
<1> USE DEF Becomes, Same
<1>2. CASE RefreshResets(t) \/ RefreshMarks(t)
  <2>1. KeepsData(t)
    BY <1>1, <1>2, RefreshKeepsData
  <2>2. tx'[t].before = tx[t].before
    <3>1. CASE RefreshResets(t)
      <4> DEFINE to == IF tx[t].db = None THEN "swap" ELSE "mark"
      <4>1. tx' = [tx EXCEPT ![t].pc = to, ![t].branch = main]
        BY <3>1 DEF RefreshResets
      <4> HIDE DEF to
      <4> QED BY <1>1, <4>1 DEF Record
    <3>2. CASE RefreshMarks(t)
      BY <1>1, <3>2 DEF RefreshMarks, Reaches, Record
    <3> QED BY <1>2, <3>1, <3>2
  <2>3. tx[t].pc \in {"reset", "mark"} /\ tx'[t].pc \in {"mark", "swap"} /\ tx'[t].base = tx[t].base
    <3>1. CASE RefreshResets(t)
      BY <1>1, <3>1, ResetBecomes DEF RefreshResets
    <3>2. CASE RefreshMarks(t)
      BY <1>1, <3>2, MarkBecomes DEF RefreshMarks, Reaches
    <3> QED BY <1>2, <3>1, <3>2
  <2> QED BY <1>0, <1>1, <2>1, <2>2, <2>3 DEF SeenFits, StillSeen, BeforeFits, Start, KeepsData
<1>3. CASE RefreshSwaps(t)
  <2>1. /\ tx'[t].log = tx[t].log /\ tx'[t].db = Reapplied(t) /\ touched' = touched /\ tx'[t].before = tx[t].before
        /\ tx'[t].pc = "validate" /\ tx'[t].base = tx[t].base
    <3>1. tx'[t].before = tx[t].before
      BY <1>1, <1>3 DEF RefreshSwaps, Record
    <3> QED BY <1>1, <1>3, <3>1, SwappedIs, SwapBecomes
  <2>2. ASSUME NEW k \in Keys, touched[t][k] = None PROVE Reapplied(t)[k] = Tree(main)[k]
    <3>1. {<<"add", k>>, <<"mod", k>>, <<"del", k>>} \cap tx[t].log = {}
      BY <1>1, <2>2 DEF StillSeen
    <3> QED BY <3>1 DEF Reapplied
  <2> QED BY <1>0, <1>1, <2>1, <2>2 DEF SeenFits, StillSeen, BeforeFits, Start
<1>4. CASE RefreshAborts(t)
  BY <1>4 DEF RefreshAborts, Lapsed
<1>5. CASE RefreshEnds(t)
  <2>1. KeepsData(t) /\ touched' = touched /\ tx[t].pc = "validate" /\ ~Overlaps(t)
    BY <1>1, <1>5, RefreshKeepsData DEF RefreshEnds
  <2>2. tx'[t].pc = "open" /\ tx'[t].branch = tx[t].branch /\ tx'[t].base = main /\ tx[t].branch = main
    BY <1>1, <1>5, <2>1, RefreshedBecomes
  <2>3. \A k \in Keys : touched[t][k] # None => Tree(main)[k] \in {touched[t][k].saw, Absent}
    BY <1>a, <2>1, EndIsSeen
  <2> QED BY <1>1, <2>1, <2>2, <2>3 DEF SeenFits, StillSeen, BeforeFits, Start, KeepsData, RefreshSteps
<1>6. CASE FailRefresh(t)
  <2>1. KeepsData(t) /\ touched' = touched /\ tx[t].pc = "reset"
    BY <1>1, <1>6, FailedRefreshData DEF Lapsed
  <2>2. tx'[t].pc = "open" /\ tx'[t].branch = tx[t].branch /\ tx'[t].base = tx[t].base
    BY <1>1, <1>6, FailedRefreshBecomes
  <2> QED BY <1>1, <2>1, <2>2, SeenStays DEF SeenFits, BeforeFits, KeepsData, RefreshSteps
<1> QED BY <1>2, <1>3, <1>4, <1>5, <1>6 DEF InRefresh

LEMMA OwnKeepsSeen ==
  ASSUME SeenInv, NEW t \in Txs, Own(t) PROVE AllSeen'
<1>1. /\ HeldInv' /\ GitInv /\ TypeInv /\ Alone(t) /\ lapses \subseteq lapses'
      /\ \A u \in Txs \ {t} : touched'[u] = touched[u] /\ tx'[u] = tx[u]
  BY NextKeepsHeld, OwnTypes, OwnHistory DEF SeenInv, HeldInv, LogInv, GitInv, BaseInv, Own, Next, Alone
<1>2. ASSUME NEW u \in Txs \ {t}, tx'[u].pc \in Active, Clean(u)' PROVE SeenFits(u, tx'[u], touched'[u], main')
  <2>1. Clean(u) /\ tx'[u] = tx[u] /\ touched'[u] = touched[u]
    BY <1>1, <1>2 DEF Clean, Lapsed
  <2>2. SeenFits(u, tx[u], touched[u], main)
    BY <1>2, <2>1 DEF SeenInv, AllSeen
  <2>3. tx[u].pc = "validate" => main' = main
    BY <1>1, OwnFits DEF GitInv, OneAtWork, Locked, CommitSteps, RefreshSteps
  <2> QED BY <2>1, <2>2, <2>3 DEF SeenFits, StillSeen, Start
<1>3. ASSUME tx'[t].pc \in Active, Clean(t)' PROVE SeenFits(t, tx'[t], touched'[t], main')
  <2>1. ~Lapsed(t, "changes") /\ ~Lapsed(t, "reopen") /\ ~Lapsed(t, "changes")' /\ ~Lapsed(t, "reopen")'
    BY <1>1, <1>3 DEF Clean, Lapsed
  <2>2. ~DeleteBranch(t)
    BY <1>1, <1>3, OwnStaysActive DEF Active, Locked, CommitSteps, RefreshSteps, CleanupSteps
  <2>3. Called(t) \/ Collect(t) \/ InRefresh(t) \/ FailRefresh(t) => main' = main
    BY <1>1, CalledFits, RefreshFits DEF Collect, FailRefresh
  <2> QED BY <2>1, <2>2, <2>3, CallKeepsSeen, CommitKeepsSeen, RefreshKeepsSeen DEF Own, Fails
<1> QED BY <1>2, <1>3 DEF AllSeen

LEMMA FreeKeepsSeen ==
  ASSUME SeenInv, CycleRuns \/ CycleLocks \/ HydrationFails \/ CheckoutFails \/ CycleFails \/ PeerPushes
  PROVE  AllSeen'
<1>1. /\ GitInv /\ touched' = touched /\ lapses' = lapses
      /\ \A u \in Txs : tx'[u].pc \in Active => tx'[u] = tx[u]
      /\ main' = main \/ GitFree
  BY FreeKeeps, FreeStep DEF SeenInv, HeldInv, LogInv, Active, Locked, CommitSteps, RefreshSteps, CleanupSteps
<1>2. ASSUME NEW u \in Txs, tx'[u].pc \in Active, Clean(u)' PROVE SeenFits(u, tx'[u], touched'[u], main')
  <2>1. tx'[u] = tx[u] /\ SeenFits(u, tx[u], touched[u], main)
    BY <1>1, <1>2 DEF SeenInv, AllSeen, Clean, Lapsed
  <2>2. tx[u].pc = "validate" => main' = main
    BY <1>1 DEF GitFree, Locked, RefreshSteps
  <2> QED BY <1>1, <2>1, <2>2 DEF SeenFits, StillSeen, Start
<1> QED BY <1>2 DEF AllSeen


\* What recovery finds again is what t touched and did not undo.
LEMMA RecoveredSeen ==
  ASSUME SeenInv, NEW t \in Txs, Survives(t), Crash, ~Lapsed(t, "changes")', ~Lapsed(t, "reopen")'
  PROVE  SeenFits(t, tx'[t], touched'[t], main')
<1> DEFINE r == tx[t]  db == tx[t].db  tree == Tree(tx[t].base)  log == Difference(t)
           did == [k \in Keys |-> IF Forgets(t, k) THEN None ELSE touched[t][k]]
<1>a. TypeInv /\ tx[t] \in Record
  BY DEF SeenInv, HeldInv, LogInv, GitInv, BaseInv, TypeInv, TxsSound, Sound
<1>b. tx'[t] = [r EXCEPT !.pc = "open", !.op = "none", !.before = None,
                         !.log = log, !.stale = {}, !.mem = r.dur \ {"hydrated"}]
  BY DEF Crash, Recovered
<1>c. tx[t].pc \in Active /\ tx[t].pc \notin {"mark", "swap", "validate"} /\ "refreshing" \notin tx[t].dur
      /\ ~Lapsed(t, "changes") /\ ~Lapsed(t, "reopen")
  BY DEF Crash, Survives, Lapsed, Active, Locked, RefreshSteps
<1>1. db # None /\ Baseline(t) = tree
  BY <1>c DEF Survives, Baseline
<1>2. tx'[t].db = db /\ tx'[t].log = log /\ tx'[t].pc = "open" /\ tx'[t].branch = r.branch /\ tx'[t].base = r.base
  <2> HIDE DEF log
  <2> QED BY <1>a, <1>b DEF Record
<1>3. touched'[t] = did
  BY DEF Crash
<1>4. StillSeen(t, tx[t], touched[t], main) /\ LogFits(t, tx[t].db, tx[t].log, touched[t])
  BY <1>c, SeenFacts
<1>5. ASSUME NEW k \in Keys PROVE {<<"add", k>>, <<"mod", k>>, <<"del", k>>} \cap log # {} => db[k] # tree[k]
  BY <1>1 DEF Difference
<1>6. ASSUME NEW k \in Keys
      PROVE  did[k] = IF db[k] = tree[k] THEN None ELSE touched[t][k]
  BY <1>1 DEF Forgets
<1>7. ASSUME NEW k \in Keys
      PROVE  /\ touched[t][k] # None => touched[t][k].want = db[k] /\ tree[k] \in {touched[t][k].saw, Absent}
             /\ touched[t][k] = None => db[k] = tree[k]
  BY <1>1, <1>4, <1>c DEF LogFits, StillSeen, Start
<1>8. ASSUME NEW c \in Commits, MadeOf(t, c, r.base, touched[t]) PROVE MadeOf(t, c, r.base, did)
  <2>1. \A k \in Keys : c.tree[k] # tree[k] => touched[t][k] # None /\ touched[t][k].want = c.tree[k]
    BY <1>8 DEF MadeOf
  <2> HIDE DEF db, did
  <2>2. \A k \in Keys : c.tree[k] # tree[k] => did[k] # None /\ did[k].want = c.tree[k]
    BY <1>6, <1>7, <2>1
  <2> QED BY <1>8, <2>2 DEF MadeOf
<1>9. r.branch = r.base \/ \E c \in Commits : r.branch = Append(r.base, c) /\ MadeOf(t, c, r.base, did)
  <2>1. r.branch = r.base \/ \E c \in Commits : r.branch = Append(r.base, c) /\ MadeOf(t, c, r.base, touched[t])
    BY <1>4, <1>c DEF StillSeen
  <2> HIDE DEF did
  <2> QED BY <1>8, <2>1
<1> HIDE DEF log, db, did, tree
<1>10. ASSUME NEW k \in Keys
       PROVE  /\ {<<"add", k>>, <<"mod", k>>, <<"del", k>>} \cap log # {} => did[k] # None
              /\ did[k] = None => db[k] = tree[k]
              /\ did[k] # None => tree[k] \in {did[k].saw, Absent}
  BY <1>5, <1>6, <1>7
<1> QED BY <1>2, <1>3, <1>9, <1>10 DEF SeenFits, StillSeen, BeforeFits, Start, RefreshSteps, r, tree

LEMMA CrashKeepsSeen == ASSUME SeenInv, Crash PROVE AllSeen'
<1>1. TypeInv /\ tx' = [t \in Txs |-> Recovered(t)]
  BY DEF SeenInv, HeldInv, LogInv, GitInv, BaseInv, Crash
<1>2. ASSUME NEW u \in Txs, tx'[u].pc \in Active PROVE Survives(u)
  BY <1>1, <1>2, RecoveredIs DEF Same, Active, Locked, CommitSteps, RefreshSteps, CleanupSteps, Outcomes
<1> QED BY <1>2, RecoveredSeen DEF AllSeen, Clean

LEMMA NextKeepsSeen == ASSUME SeenInv, [Next]_vars PROVE SeenInv'
<1>1. HeldInv' /\ AllSourced'
  BY NextKeepsHeld, NextKeepsSourced DEF SeenInv, HeldInv, LogInv
<1>2. CASE UNCHANGED vars
  BY <1>1, <1>2 DEF vars, SeenInv, AllSeen, Clean, Lapsed
<1> QED BY <1>1, <1>2, OwnKeepsSeen, FreeKeepsSeen, CrashKeepsSeen DEF SeenInv, Next, Own

\* Commits that the remote has and main has not are the peers'.
RemoteMade == \A i \in 2..Len(remote) : remote[i].by = Peer \/ i <= Len(main)

\* What a transaction that did `did` may change.
Made(did, was, is) ==
  \A k \in Keys : is[k] # was[k] => did[k] # None /\ did[k].want = is[k] /\ was[k] \in {did[k].saw, Absent}
ChangeMade(h, i, did, gone) ==
  \/ h[i].by = Peer
  \/ /\ h[i].by \in Txs
     /\ {<<h[i].by, "changes">>, <<h[i].by, "reopen">>} \cap gone = {}
          => Made(did[h[i].by], h[i - 1].tree, h[i].tree)
MainMade == \A i \in 2..Len(main) : ChangeMade(main, i, touched, lapses)

OverInv == SeenInv /\ RemoteMade /\ MainMade


LEMMA NextKeepsRemoteMade == ASSUME OverInv, [Next]_vars PROVE RemoteMade'
<1>0. /\ GitInv /\ main \in Seq(Commits) /\ main' \in Seq(Commits) /\ remote \in Seq(Commits)
      /\ Len(main) <= Len(main') /\ Len(main) \in Nat /\ Len(main') \in Nat
  <2>1. GitInv /\ GitInv'
    BY NextKeepsGit DEF OverInv, SeenInv, HeldInv, LogInv
  <2>2. main \in Seq(Commits) /\ main' \in Seq(Commits) /\ remote \in Seq(Commits)
    BY <2>1 DEF GitInv, BaseInv, TypeInv, HistoriesOk
  <2>3. main' = main \/ IsPrefix(main, main')
    BY <2>1, OwnFits, FreeStep DEF Next, Own, Crash, vars
  <2> QED BY <2>1, <2>2, <2>3, PrefixRefl, PrefixIs
<1>1. CASE remote' = remote
  BY <1>0, <1>1 DEF OverInv, RemoteMade
<1>2. CASE remote' = main
  BY <1>0, <1>2 DEF RemoteMade
<1>3. CASE PeerPushes
  <2>1. PICK k \in Keys : remote' = Append(remote, [by |-> Peer, tree |-> [Tree(remote) EXCEPT ![k] = Peer]])
    BY <1>3 DEF PeerPushes
  <2> DEFINE c == [by |-> Peer, tree |-> [Tree(remote) EXCEPT ![k] = Peer]]
  <2>2. c.by = Peer /\ remote' = Append(remote, c)
    BY <2>1
  <2> HIDE DEF c
  <2>3. Len(remote') = Len(remote) + 1 /\ Len(remote) \in Nat
        /\ \A i \in 1..Len(remote') : remote'[i] = IF i <= Len(remote) THEN remote[i] ELSE c
    BY <1>0, <2>2
  <2> QED BY <1>0, <2>2, <2>3 DEF OverInv, RemoteMade
<1>4. remote' \in {remote, main} \/ PeerPushes
  <2>1. ASSUME NEW t \in Txs, Own(t) PROVE remote' = remote
    BY <1>0, <2>1, OwnKeepsRemote DEF GitInv, BaseInv
  <2>2. CASE CycleRuns \/ CycleLocks \/ HydrationFails \/ CheckoutFails \/ CycleFails
    BY <2>2 DEF CycleRuns, CycleLocks, HydrationFails, CheckoutFails, CycleFails, Fetches, FetchDiverges,
       NothingToPush, PushBegins, Pushes, Delivers, PushIsRejected
  <2> QED BY <2>1, <2>2 DEF Next, Own, Crash, vars
<1> QED BY <1>1, <1>2, <1>3, <1>4

\* What is made stays made: t adds to its history only before its commit is on main.
LEMMA OwnKeepsMade == ASSUME OverInv, NEW t \in Txs, Own(t) PROVE MainMade'
<1>1. /\ GitInv /\ TypeInv /\ lapses \subseteq lapses' /\ main \in Seq(Commits) /\ main # <<>>
      /\ \A u \in Txs \ {t} : touched'[u] = touched[u]
      /\ Mutate(t) \/ touched' = touched
  BY OwnHistory DEF OverInv, SeenInv, HeldInv, LogInv, GitInv, BaseInv, TypeInv, HistoriesOk
<1>2. ASSUME Mutate(t), Clean(t) PROVE ~CommittedBy(t, main)
  <2>1. tx[t].pc = "open" /\ "started" \notin tx[t].mem
    BY <1>2 DEF Mutate, Usable, CreateEntity, UpdateEntity, DeleteEntity, Records, Has
  <2>2. MergeKnown(t, tx[t], main)
    BY <1>2, <2>1 DEF OverInv, SeenInv, HeldInv, MergesKnown, Active
  <2> QED BY <1>1, <2>1, <2>2, FlagsKnown DEF MergeKnown
<1>3. ASSUME NEW i \in 2..Len(main) PROVE ChangeMade(main, i, touched', lapses')
  <2> DEFINE u == main[i].by
  <2>1. CommittedBy(u, main)
    BY <1>1 DEF CommittedBy
  <2>2. {<<u, "changes">>, <<u, "reopen">>} \cap lapses' = {} => {<<u, "changes">>, <<u, "reopen">>} \cap lapses = {}
    BY <1>1
  <2>3. u \in Txs /\ {<<u, "changes">>, <<u, "reopen">>} \cap lapses = {} => touched'[u] = touched[u]
    BY <1>1, <1>2, <2>1 DEF Clean, Lapsed
  <2> QED BY <2>2, <2>3 DEF OverInv, MainMade, ChangeMade
<1>4. CASE main' = main
  BY <1>3, <1>4 DEF MainMade
<1>5. CASE main' # main
  <2>1. PICK c \in Commits : c.by = t /\ main' = Append(main, c)
    BY <1>1, <1>5, OwnFits
  <2>2. tx[t].pc = "merge" /\ main' = tx[t].branch /\ main = tx[t].base
    BY <1>1, <1>5, OwnFits DEF GitInv, StepsHold, AtStep, CommitSteps
  <2>3. /\ Len(main') = Len(main) + 1 /\ Len(main) \in Nat \ {0} /\ main'[Len(main) + 1] = c
        /\ \A i \in 1..Len(main) : main'[i] = main[i]
    BY <1>1, <2>1, AppendProperties, EmptySeq
  <2>4. touched' = touched
    BY <1>1, <2>2 DEF Mutate, Usable
  <2>5. ASSUME Clean(t)' PROVE Made(touched[t], Tree(main), c.tree)
    <3>1. Clean(t)
      BY <1>1, <2>5 DEF Clean, Lapsed
    <3>2. StillSeen(t, tx[t], touched[t], main)
      BY <2>2, <3>1 DEF OverInv, SeenInv, AllSeen, SeenFits, Active, Locked, CommitSteps
    <3>3. tx[t].branch # tx[t].base
      BY <1>5, <2>2
    <3>4. PICK d \in Commits : tx[t].branch = Append(tx[t].base, d) /\ MadeOf(t, d, tx[t].base, touched[t])
      BY <2>2, <3>2, <3>3 DEF StillSeen
    <3>5. main'[Len(main) + 1] = d
      BY <1>1, <2>2, <3>4, AppendProperties
    <3> QED BY <2>2, <2>3, <3>2, <3>4, <3>5 DEF MadeOf, StillSeen, Made
  <2>6. Tree(main) = main'[Len(main)].tree
    BY <2>3 DEF Tree, Last
  <2>7. ASSUME NEW i \in 2..Len(main') PROVE ChangeMade(main', i, touched', lapses')
    <3>1. CASE i \in 2..Len(main)
      <4>1. main'[i] = main[i] /\ main'[i - 1] = main[i - 1]
        BY <2>3, <3>1
      <4> QED BY <1>3, <3>1, <4>1 DEF ChangeMade
    <3>2. CASE i = Len(main) + 1
      <4>1. main'[i] = c /\ i - 1 = Len(main)
        BY <2>3, <3>2
      <4> QED BY <2>1, <2>4, <2>5, <2>6, <4>1 DEF ChangeMade, Clean, Lapsed
    <3> QED BY <2>3, <2>7, <3>1, <3>2
  <2> QED BY <2>7 DEF MainMade
<1> QED BY <1>4, <1>5

LEMMA FreeKeepsMade ==
  ASSUME OverInv, CycleRuns \/ CycleLocks \/ HydrationFails \/ CheckoutFails \/ CycleFails \/ PeerPushes
  PROVE  MainMade'
<1>1. /\ GitInv /\ touched' = touched /\ lapses' = lapses
      /\ main \in Seq(Commits) /\ remote \in Seq(Commits)
      /\ main' = main \/ (main' = remote /\ IsPrefix(main, remote))
  BY FreeKeeps, FreeStep DEF OverInv, SeenInv, HeldInv, LogInv, GitInv, BaseInv, TypeInv, HistoriesOk
<1>2. CASE main' = main
  BY <1>1, <1>2 DEF OverInv, MainMade
<1>3. CASE main' = remote /\ IsPrefix(main, remote)
  <2>1. Len(main) <= Len(remote) /\ \A i \in 1..Len(main) : main[i] = remote[i]
    BY <1>1, <1>3, PrefixIs
  <2>2. Len(main) \in Nat /\ Len(remote) \in Nat
    BY <1>1
  <2>3. ASSUME NEW i \in 2..Len(remote) PROVE ChangeMade(remote, i, touched, lapses)
    <3>1. CASE i <= Len(main)
      <4>1. i \in 2..Len(main) /\ remote[i] = main[i] /\ remote[i - 1] = main[i - 1]
        BY <2>1, <2>2, <3>1
      <4> QED BY <4>1 DEF OverInv, MainMade, ChangeMade
    <3>2. CASE ~(i <= Len(main))
      BY <3>2 DEF OverInv, RemoteMade, ChangeMade
    <3> QED BY <3>1, <3>2
  <2> QED BY <1>1, <1>3, <2>3 DEF MainMade
<1> QED BY <1>1, <1>2, <1>3

LEMMA CrashKeepsMade == ASSUME OverInv, Crash PROVE MainMade'
<1>1. main' = main /\ main \in Seq(Commits) /\ lapses \subseteq lapses'
  BY DEF Crash, OverInv, SeenInv, HeldInv, LogInv, GitInv, BaseInv, TypeInv, HistoriesOk
<1>2. ASSUME NEW i \in 2..Len(main), main[i].by \in Txs,
             {<<main[i].by, "changes">>, <<main[i].by, "reopen">>} \cap lapses' = {}
      PROVE  Made(touched'[main[i].by], main[i - 1].tree, main[i].tree)
  <2> DEFINE u == main[i].by
  <2>1. CommittedBy(u, main)
    BY <1>1 DEF CommittedBy
  <2>2. ~Survives(u)
    BY <1>2, <2>1 DEF Crash
  <2>3. touched'[u] = [k \in Keys |-> touched[u][k]]
    BY <1>2, <2>2 DEF Crash
  <2>4. Made(touched[u], main[i - 1].tree, main[i].tree)
    BY <1>1, <1>2, GraphAssumption DEF OverInv, MainMade, ChangeMade
  <2> HIDE DEF u
  <2>5. Made(touched'[u], main[i - 1].tree, main[i].tree)
    BY <2>3, <2>4 DEF Made
  <2> QED BY <2>5 DEF u
<1> QED BY <1>1, <1>2 DEF OverInv, MainMade, ChangeMade

LEMMA NextKeepsOver == ASSUME OverInv, [Next]_vars PROVE OverInv'
<1>1. SeenInv' /\ RemoteMade'
  BY NextKeepsSeen, NextKeepsRemoteMade DEF OverInv
<1>2. CASE UNCHANGED vars
  BY <1>1, <1>2 DEF vars, OverInv, MainMade
<1> QED BY <1>1, <1>2, OwnKeepsMade, FreeKeepsMade, CrashKeepsMade DEF OverInv, Next, Own

LEMMA InitOver == ASSUME Init PROVE OverInv
<1>1. \A t \in Txs : tx[t].pc = "new"
  BY NoTxIs DEF Init
<1> DEFINE first == [by |-> Seed, tree |-> [k \in Keys |-> IF k \in Seeded THEN Seed ELSE Absent]]
<1>2. main = <<first>> /\ remote = main /\ \A k \in Keys : first.tree[k] \in {Seed, Absent}
  BY DEF Init
<1> HIDE DEF first
<1>3. Len(main) = 1 /\ Len(remote) = 1 /\ DOMAIN main = {1} /\ DOMAIN remote = {1} /\ main[1] = first /\ remote[1] = first
  BY <1>2
<1>4. Sourced(main) /\ Sourced(remote)
  BY <1>2, <1>3, GraphAssumption DEF Sourced
<1>5. RemoteMade /\ MainMade
  BY <1>3 DEF RemoteMade, MainMade
<1>6. AllSourced /\ AllSeen
  BY <1>1, <1>4 DEF AllSourced, AllSeen, Active, Locked, CommitSteps, RefreshSteps, CleanupSteps
<1> QED BY <1>5, <1>6, InitHeld DEF OverInv, SeenInv

LEMMA OverAlways == Spec => []OverInv
BY InitOver, NextKeepsOver, PTL DEF Spec

\* No update is lost: what a commit changes of main is what its transaction
\* did, over a value that the transaction had seen or over none, although main
\* moved while it worked and its log was applied again.
THEOREM NoUpdateIsLost == Spec => []NoOverwrite
<1>1. ASSUME OverInv PROVE NoOverwrite
  <2>1. TypeInv
    BY <1>1 DEF OverInv, SeenInv, HeldInv, LogInv, GitInv, BaseInv
  <2>2. ASSUME NEW i \in 2..Len(main), main[i].by # Peer, Clean(main[i].by), NEW k \in Keys,
               main[i].tree[k] # main[i - 1].tree[k]
        PROVE  \E saw \in Contents :
                 /\ touched[main[i].by][k] = [saw |-> saw, want |-> main[i].tree[k]]
                 /\ main[i - 1].tree[k] \in {saw, Absent}
    <3> DEFINE t == main[i].by  did == touched[t][k]
    <3>1. t \in Txs /\ Made(touched[t], main[i - 1].tree, main[i].tree)
      BY <1>1, <2>2 DEF OverInv, MainMade, ChangeMade, Clean, Lapsed
    <3>2. did # None /\ did.want = main[i].tree[k] /\ main[i - 1].tree[k] \in {did.saw, Absent}
      BY <2>2, <3>1 DEF Made
    <3>3. did \in Touches
      BY <2>1, <3>1, <3>2 DEF TypeInv, TouchedType
    <3> HIDE DEF t, did
    <3>4. did = [saw |-> did.saw, want |-> did.want] /\ did.saw \in Contents
      BY <3>3 DEF Touches
    <3>5. did = [saw |-> did.saw, want |-> main[i].tree[k]]
      BY <3>2, <3>4
    <3> QED BY <3>2, <3>4, <3>5 DEF did, t
  <2> QED BY <2>2 DEF NoOverwrite, Clean
<1> QED BY <1>1, OverAlways, PTL

-----------------------------------------------------------------------------
(* The transactions, in all they do, are a serial history.                 *)

\* A refresh has a database; a clean-up has dropped it before it deletes the branch;
\* who rolls back was not merged.
StageFits(r) ==
  /\ r.pc = "validate" => r.db # None
  /\ r.pc = "delete" => r.db = None
  /\ r.pc \in CleanupSteps /\ r.op = "rollback" => "merged" \notin r.mem

StagesFit == \A t \in Txs : StageFits(tx[t])

LEMMA OwnKeepsStages ==
  ASSUME LogInv, NEW t \in Txs, Own(t), StageFits(tx[t]) PROVE StageFits(tx'[t])
<1>0. TypeInv
  BY DEF LogInv, GitInv, BaseInv
<1> USE DEF Becomes, Same, CleanupSteps
<1>1. CASE Called(t) \/ Collect(t)
  <2>1. CASE RollbackTransaction(t)
    BY <1>0, <2>1, RollbackBecomes DEF RollbackTransaction, Abandonable, Has, StageFits
  <2>2. CASE CommitBegins(t)
    <3>1. FirstStep(t) \notin {"validate", "delete", "drop"}
      BY DEF FirstStep, NextAfterCreated
    <3> QED BY <1>0, <2>2, <3>1, BeginsBecomes DEF StageFits
  <2>3. CASE RefreshIsNotSaved(t)
    BY <2>3 DEF RefreshIsNotSaved
  <2> QED BY <1>0, <1>1, <2>1, <2>2, <2>3, BeginBecomes, MutateBecomes, RefreshBegunBecomes, ResumeBecomes,
          EmptyBecomes, FoundBecomes, RefusedBecomes, CollectBecomes DEF Called, StageFits
<1>2. CASE InCommit(t)
  <2>1. NextAfterCreated(tx[t].mem) \in {"merge", "load"}
    BY DEF NextAfterCreated
  <2> QED BY <1>0, <1>2, <2>1, StartBecomes, CreateBecomes, RecordBecomes, LoadBecomes, MergeBecomes, MergedBecomes
          DEF InCommit, StageFits
<1>3. CASE RefreshSwaps(t)
  <2>1. tx'[t].pc = "validate" /\ tx'[t].db = Reapplied(t)
    BY <1>0, <1>3, SwappedIs
  <2>2. Reapplied(t) \in Trees
    <3>1. Tree(main) \in Trees
      BY <1>0, TreeType DEF TypeInv, HistoriesOk
    <3> QED BY <3>1 DEF Reapplied, Trees, Contents, Writers
  <2> QED BY <2>1, <2>2, NoneAssumption DEF StageFits
<1>4. CASE InRefresh(t) /\ ~RefreshSwaps(t)
  BY <1>0, <1>4, ResetBecomes, MarkBecomes, AbortBecomes, RefreshedBecomes DEF InRefresh, StageFits
<1>5. CASE DropBranchDB(t)
  BY <1>0, <1>5, DropBecomes, DroppedIs DEF DropBranchDB, StageFits
<1>6. CASE DeleteBranch(t)
  BY <1>0, <1>6, OwnStaysActive DEF StageFits
<1>7. CASE Fails(t)
  BY <1>0, <1>7, FailedCommitBecomes, FailedCleanupBecomes, FailedRefreshBecomes DEF Fails, StageFits
<1> QED BY <1>1, <1>2, <1>3, <1>4, <1>5, <1>6, <1>7 DEF Own

LEMMA NextKeepsStages == ASSUME LogInv, StagesFit, [Next]_vars PROVE StagesFit'
<1>0. TypeInv /\ GitInv
  BY DEF LogInv, GitInv, BaseInv
<1>1. ASSUME NEW t \in Txs, Own(t) PROVE StagesFit'
  <2>1. Alone(t)
    BY <1>0, <1>1, OwnTypes DEF GitInv, Own
  <2> QED BY <1>1, <2>1, OwnKeepsStages DEF StagesFit, Alone
<1>2. CASE CycleRuns \/ CycleLocks \/ HydrationFails \/ CheckoutFails \/ CycleFails \/ PeerPushes
  BY <1>0, <1>2, FreeStep DEF StagesFit, StageFits, CleanupSteps
<1>3. CASE Crash
  <2>1. tx' = [t \in Txs |-> Recovered(t)]
    BY <1>3 DEF Crash
  <2>2. ASSUME NEW t \in Txs PROVE Recovered(t).pc \notin {"validate", "delete", "drop"}
    BY <1>0, RecoveredIs DEF Same, Outcomes
  <2> QED BY <2>1, <2>2 DEF StagesFit, StageFits, CleanupSteps
<1>4. CASE UNCHANGED vars
  BY <1>4 DEF vars, StagesFit
<1> QED BY <1>1, <1>2, <1>3, <1>4 DEF Next, Own

SerialInv == OverInv /\ PushInv /\ StagesFit

LEMMA SerialAlways == Spec => []SerialInv
<1>1. Init => StagesFit
  <2>1. Init => \A t \in Txs : tx[t].pc = "new"
    BY NoTxIs DEF Init
  <2> QED BY <2>1 DEF StagesFit, StageFits, CleanupSteps
<1>2. LogInv /\ StagesFit /\ [Next]_vars => StagesFit'
  BY NextKeepsStages
<1> QED BY <1>1, <1>2, LogsAlways, OverAlways, PushesAlways, PTL DEF Spec, SerialInv

LEMMA StageIs ==
  ASSUME NEW r
  PROVE  /\ r.pc \in Active => StageOf(r) = IF r.db # None /\ ~Rebuilt(r) THEN "open" ELSE "closing"
         /\ r.pc # "validate" => ~Rebuilt(r)
         /\ r.pc = "new" => StageOf(r) = "open"
         /\ r.pc \in {"wait", "committed"} => StageOf(r) = "committed"
         /\ r.pc \in {"acked", "rolledback"} => StageOf(r) = r.pc
         /\ r.pc \in {"collected", "lost"} => StageOf(r) = "gone"
BY DEF StageOf, Rebuilt, Active, Locked, CommitSteps, RefreshSteps, CleanupSteps

\* What the history sees of a state.
Stages == [t \in Txs |-> StageOf(tx[t])]
LapsedTxs == {t \in Txs : Lapsed(t, "changes") \/ Lapsed(t, "reopen")}

LEMMA ViewIs ==
  /\ [t \in Txs |-> StageOf(tx[t])] = Stages /\ [t \in Txs |-> StageOf(tx[t])]' = Stages'
  /\ \A t \in Txs : Stages[t] = StageOf(tx[t]) /\ Stages'[t] = StageOf(tx'[t])
  /\ \A t \in Txs : t \in LapsedTxs <=> ~Clean(t)
BY DEF Stages, LapsedTxs, Clean

\* A step that the history does not see.
LEMMA Unseen ==
  ASSUME UNCHANGED <<main, remote, touched, Stages, LapsedTxs>> PROVE UNCHANGED H!vars
BY ViewIs DEF H!vars, LapsedTxs

\* A step that takes one transaction from a stage to the next.
LEMMA OneGoes ==
  ASSUME NEW t \in Txs, NEW to, UNCHANGED <<main, remote, touched, lapses>>,
         StageOf(tx'[t]) = to, \A u \in Txs \ {t} : tx'[u] = tx[u]
  PROVE  H!Goes(t, to)
<1>1. Stages' = [Stages EXCEPT ![t] = to]
  BY DEF Stages
<1>2. LapsedTxs' = LapsedTxs
  BY DEF LapsedTxs, Lapsed
<1> QED BY <1>1, <1>2, ViewIs DEF H!Goes, LapsedTxs

LEMMA StagesKept ==
  ASSUME NEW t \in Txs, StageOf(tx'[t]) = StageOf(tx[t]), \A u \in Txs \ {t} : tx'[u] = tx[u]
  PROVE  Stages' = Stages
BY DEF Stages

\* A step in which one transaction lapses, or has lapsed.
LEMMA LapseIs ==
  ASSUME NEW t \in Txs, UNCHANGED <<main, remote, touched>>, LapsedTxs' = LapsedTxs \cup {t},
         Stages[t] \in {"open", "closing"},
         NEW to \in {"open", "closing"}, Stages' = [Stages EXCEPT ![t] = to]
  PROVE  H!Lapse(t)
BY ViewIs DEF H!Lapse, LapsedTxs

\* What the steps of a transaction leave to the worker and the others.
LEMMA SerialFacts ==
  ASSUME SerialInv
  PROVE  /\ TypeInv /\ GitInv /\ LogInv /\ SeenInv /\ PushInv
         /\ main \in Seq(Commits) /\ main # <<>> /\ Tree(main) \in Trees /\ tx \in [Txs -> Record]
BY TreeType DEF SerialInv, OverInv, SeenInv, HeldInv, LogInv, GitInv, BaseInv, TypeInv, TxsSound, Sound, HistoriesOk

LEMMA OwnAlone ==
  ASSUME SerialInv, NEW t \in Txs, Own(t)
  PROVE  remote' = remote /\ \A u \in Txs \ {t} : tx'[u] = tx[u]
BY SerialFacts, OwnKeepsRemote, OwnTypes DEF GitInv, Alone, Own

\* Calls but those that change elements are not seen.
LEMMA CallMaps ==
  ASSUME SerialInv, NEW t \in Txs, Called(t) \/ Collect(t), ~Mutate(t) PROVE UNCHANGED H!vars
<1>0. TypeInv /\ GitInv /\ Own(t) /\ Tree(main) \in Trees
  BY SerialFacts DEF Own
<1>1. main' = main
  BY <1>0, CalledFits DEF Collect
<1>2. touched' = touched
  BY <1>0, OwnHistory
<1>3. LapsedTxs' = LapsedTxs
  <2>1. lapses' = lapses \/ lapses' = lapses \cup {<<t, "hydrate">>}
    BY DEF Called, Collect, BeginTransaction, RollbackTransaction, RefreshBegins, CommitResumesCleanup,
       CommitOfNothing, CommitFindsMerge, CommitIsNotUpToDate, CommitBegins, RefreshIsNotSaved
  <2> QED BY <2>1 DEF LapsedTxs, Lapsed
<1>4. StageOf(tx'[t]) = StageOf(tx[t])
  <2>1. CASE BeginTransaction(t)
    <3>1. tx'[t].db # None /\ tx[t].pc = "new" /\ tx'[t].pc = "open"
      BY <1>0, <2>1, BegunIs, NoneAssumption
    <3> QED BY <3>1, StageIs DEF Active
  <2>2. CASE ~BeginTransaction(t)
    <3>1. tx'[t].db = tx[t].db
      BY <1>0, <2>2, CallKeepsData DEF KeepsData
    <3>2. tx[t].pc = "open"
      BY <2>2 DEF Called, RollbackTransaction, RefreshBegins, RefreshIsNotSaved, Refreshable, CommitResumesCleanup,
         CommitOfNothing, CommitFindsMerge, CommitIsNotUpToDate, CommitBegins, Committing, Usable, Collect
    <3>3. tx'[t].pc \in Active /\ tx'[t].pc # "validate"
      <4>1. tx'[t].pc \in Active
        BY <1>0, <3>2, OwnStaysActive DEF DeleteBranch
      <4>2. FirstStep(t) # "validate"
        BY DEF FirstStep, NextAfterCreated
      <4>3. CASE RefreshIsNotSaved(t)
        BY <3>2, <4>1, <4>3 DEF RefreshIsNotSaved
      <4>4. CASE ~RefreshIsNotSaved(t)
        BY <1>0, <2>2, <4>1, <4>2, <4>4, RefreshBegunBecomes, RollbackBecomes, ResumeBecomes, EmptyBecomes, FoundBecomes,
           RefusedBecomes, BeginsBecomes, CollectBecomes DEF Called, Becomes, Same
      <4> QED BY <4>1, <4>3, <4>4
    <3> QED BY <3>1, <3>2, <3>3, StageIs DEF Active
  <2> QED BY <2>1, <2>2
<1> QED BY <1>0, <1>1, <1>2, <1>3, <1>4, OwnAlone, StagesKept, Unseen

\* A transaction that has not lapsed has no commit on main when it may still change
\* something, and what it sees was on main.
LEMMA MutateMaps ==
  ASSUME SerialInv, NEW t \in Txs, Mutate(t) PROVE \E k \in Keys : H!Change(t, k)
<1>0. TypeInv /\ GitInv /\ Own(t) /\ SeenInv /\ tx \in [Txs -> Record] /\ main \in Seq(Commits) /\ main # <<>>
  BY SerialFacts DEF Own, Called
<1>1. PICK k \in Keys : CreateEntity(t, k) \/ UpdateEntity(t, k) \/ DeleteEntity(t, k)
  BY DEF Mutate
<1>2. PICK kind \in Kinds, value \in {t, Absent} : Records(t, kind, k, value)
  BY <1>1 DEF CreateEntity, UpdateEntity, DeleteEntity, Kinds
<1> DEFINE r == tx[t]  old == touched[t][k]
           saw == IF old = None THEN r.db[k] ELSE old.saw
<1>3. /\ r.pc = "open" /\ r.db \in Trees /\ "started" \notin r.mem
      /\ touched' = [touched EXCEPT ![t][k] = [saw |-> saw, want |-> value]]
      /\ UNCHANGED <<main, remote, lapses>>
  <2>1. r.pc = "open" /\ r.db # None /\ "started" \notin r.mem /\ UNCHANGED <<main, remote, lapses>>
    BY <1>2 DEF Records, Usable, Has, Unsynced
  <2>2. touched' = [touched EXCEPT ![t][k] = [saw |-> saw, want |-> value]]
    BY <1>2 DEF Records, TypeInv, TouchedType
  <2> QED BY <1>0, <2>1, <2>2 DEF Record
<1>4. saw \in Contents
  BY <1>0, <1>3 DEF TypeInv, TouchedType, Touches, Trees
<1>5. StageOf(tx[t]) = "open" /\ StageOf(tx'[t]) = StageOf(tx[t])
  <2>1. tx'[t].pc = "open" /\ tx'[t].db # None
    <3>1. tx'[t].pc = "open" /\ tx'[t].db = [r.db EXCEPT ![k] = value]
      BY <1>0, <1>2, <1>3 DEF Records, Record
    <3>2. [r.db EXCEPT ![k] = value] \in Trees
      BY <1>3 DEF Trees, Contents, Writers
    <3> QED BY <3>1, <3>2, NoneAssumption
  <2> QED BY <1>3, <2>1, StageIs, NoneAssumption DEF Active
<1>6. ASSUME Clean(t) PROVE ~CommittedBy(t, main) /\ (old = None => \E i \in DOMAIN main : main[i].tree[k] = saw)
  <2>1. /\ StillSeen(t, r, touched[t], main) /\ MergeKnown(t, r, main) /\ FlagsFit(r) /\ "merged" \notin r.mem
    BY <1>0, <1>3, <1>6, SeenFacts, FlagsKnown DEF Clean, Active
  <2>2. r.base \in Seq(Commits) /\ r.base # <<>> /\ IsPrefix(r.base, main)
    BY <1>0, <1>3 DEF GitInv, BranchesPlaced, Placed, TypeInv, TxsSound, Sound, Record, StepFits, Active
  <2>3. ASSUME old = None PROVE saw = Tree(r.base)[k]
    BY <1>3, <2>1, <2>3, NoneAssumption DEF StillSeen, Start
  <2>4. Len(r.base) \in DOMAIN main /\ Tree(r.base) = main[Len(r.base)].tree
    <3>1. Len(r.base) \in Nat \ {0}
      BY <2>2, EmptySeq
    <3>2. Len(r.base) <= Len(main) /\ \A i \in 1..Len(r.base) : r.base[i] = main[i]
      BY <1>0, <2>2, PrefixIs
    <3> QED BY <1>0, <3>1, <3>2 DEF Tree, Last
  <2> HIDE DEF r, saw, old
  <2> QED BY <1>3, <2>1, <2>3, <2>4 DEF MergeKnown
<1>7. Stages' = Stages /\ Stages[t] = "open" /\ LapsedTxs' = LapsedTxs
  BY <1>0, <1>3, <1>5, OwnAlone, StagesKept, ViewIs DEF LapsedTxs, Lapsed
<1>8. /\ CommittedBy(t, main) => t \in LapsedTxs
      /\ IF old = None THEN (\E i \in DOMAIN main : main[i].tree[k] = saw) \/ t \in LapsedTxs ELSE saw = old.saw
  BY <1>6, ViewIs
<1> HIDE DEF saw
<1> QED BY <1>3, <1>4, <1>7, <1>8, ViewIs DEF H!Change, H!WasOnMain, H!CommittedBy, CommittedBy, LapsedTxs,
    H!Contents, H!Writers, Contents, Writers

\* A commit is seen when main is moved, or when it writes an outdated element.
LEMMA CommitMaps ==
  ASSUME SerialInv, NEW t \in Txs, InCommit(t) \/ FailCommit(t) \/ FailCleanup(t), main' = main
  PROVE  UNCHANGED H!vars \/ H!Lapse(t)
<1>0. TypeInv /\ Own(t) /\ LogInv
  BY SerialFacts DEF Own, Fails
<1>1. KeepsData(t) /\ touched' = touched /\ (lapses' = lapses \/ CommitCreates(t))
  BY <1>0, CommitKeepsData
<1>2. tx[t].pc \in CommitSteps \cup CleanupSteps
  BY DEF InCommit, CommitStarts, CommitCreates, CommitRecords, CommitLoads, CommitMerges, CommitRecordsMerge,
     Reaches, FailCommit, FailCleanup, CommitSteps, CleanupSteps
<1>3. tx[t].pc \in Active /\ tx'[t].pc \in Active
  <2>1. ~DeleteBranch(t)
    <3>1. ASSUME DeleteBranch(t) PROVE tx'[t].pc \notin Active
      BY <1>0, <3>1, OwnStaysActive DEF Active, Locked, CommitSteps, RefreshSteps, CleanupSteps
    <3>2. tx'[t].pc \in Active
      <4>1. NextAfterCreated(tx[t].mem) \in Active /\ {"open", "create", "created", "merge", "merged", "drop"} \subseteq Active
        BY DEF NextAfterCreated, Active, Locked, CommitSteps, RefreshSteps, CleanupSteps
      <4> QED BY <1>0, <4>1, StartBecomes, CreateBecomes, RecordBecomes, LoadBecomes, MergeBecomes, MergedBecomes,
              FailedCommitBecomes, FailedCleanupBecomes DEF InCommit, Becomes, Same
    <3> QED BY <3>1, <3>2
  <2> QED BY <1>0, <1>2, <2>1, OwnStaysActive DEF Active, Locked
<1>4. StageOf(tx'[t]) = StageOf(tx[t])
  <2>1. tx'[t].pc # "validate"
    <3>1. NextAfterCreated(tx[t].mem) # "validate"
      BY DEF NextAfterCreated
    <3> QED BY <1>0, <3>1, StartBecomes, CreateBecomes, RecordBecomes, LoadBecomes, MergeBecomes, MergedBecomes,
            FailedCommitBecomes, FailedCleanupBecomes DEF InCommit, Becomes, Same
  <2>2. tx[t].pc # "validate"
    BY <1>2 DEF CommitSteps, CleanupSteps
  <2> QED BY <1>1, <1>3, <2>1, <2>2, StageIs DEF KeepsData
<1>5. Stages' = Stages /\ remote' = remote
  BY <1>0, <1>4, OwnAlone, StagesKept
<1>6. CASE lapses' = lapses
  BY <1>1, <1>5, <1>6, Unseen DEF LapsedTxs, Lapsed
<1>7. CASE CommitCreates(t)
  <2>1. lapses' \in {lapses, lapses \cup {<<t, "changes">>}}
    BY <1>7 DEF CommitCreates
  <2>2. LapsedTxs' = LapsedTxs \/ LapsedTxs' = LapsedTxs \cup {t}
    BY <2>1 DEF LapsedTxs, Lapsed
  <2>3. Stages[t] \in {"open", "closing"}
    BY <1>3, StageIs, ViewIs
  <2>4. Stages' = [Stages EXCEPT ![t] = Stages[t]]
    BY <1>5 DEF Stages
  <2>5. CASE LapsedTxs' = LapsedTxs
    BY <1>0, <1>1, <1>5, <1>7, <2>5, Unseen DEF CommitCreates
  <2>6. CASE LapsedTxs' = LapsedTxs \cup {t}
    BY <1>0, <1>1, <1>5, <1>7, <2>3, <2>4, <2>6, LapseIs DEF CommitCreates
  <2> QED BY <2>2, <2>5, <2>6
<1> QED BY <1>1, <1>6, <1>7

\* What is merged is all that the transaction wanted and nothing else, over main as it
\* is, unless the transaction has lapsed.
LEMMA MergeMaps ==
  ASSUME SerialInv, NEW t \in Txs, CommitMerges(t), main' # main PROVE H!Commit(t) \/ H!Stray(t)
<1> DEFINE r == tx[t]  did == touched[t]
<1>0. TypeInv /\ GitInv /\ Own(t) /\ LogInv /\ SeenInv /\ main \in Seq(Commits) /\ main # <<>> /\ Tree(main) \in Trees
  BY SerialFacts DEF Own, InCommit
<1>1. r.pc = "merge" /\ main' = r.branch /\ r.base = main /\ r.db # None
  BY <1>0 DEF CommitMerges, GitInv, StepsHold, AtStep, LogInv, DatabasesThere, CommitSteps
<1>2. PICK c \in Commits : c.by = t /\ main' = Append(main, c)
  BY <1>0, OwnFits
<1>3. KeepsData(t) /\ UNCHANGED <<remote, touched, lapses>>
  BY <1>0, CommitKeepsData, OwnAlone DEF InCommit, CommitMerges
<1>4. StageOf(tx'[t]) = StageOf(tx[t]) /\ StageOf(tx[t]) = "open"
  <2>1. tx'[t].pc = "merged"
    BY <1>0, MergeBecomes DEF Becomes, Same
  <2> QED BY <1>1, <1>3, <2>1, StageIs DEF KeepsData, Active, Locked, CommitSteps
<1>5. Stages' = Stages /\ Stages[t] = "open" /\ LapsedTxs' = LapsedTxs
  BY <1>0, <1>3, <1>4, OwnAlone, StagesKept, ViewIs DEF LapsedTxs, Lapsed
<1>6. CASE t \in LapsedTxs
  <2>1. \E tree \in Trees : main' = Append(main, [by |-> t, tree |-> tree])
    <3>1. c = [by |-> c.by, tree |-> c.tree] /\ c.tree \in Trees
      BY DEF Commits
    <3> QED BY <1>2, <3>1
  <2> QED BY <1>3, <1>5, <1>6, <2>1, ViewIs DEF H!Stray, LapsedTxs, H!Trees, H!Contents, H!Writers, Trees, Contents,
          Writers
<1>7. CASE Clean(t)
  <2>1. /\ StillSeen(t, r, did, main) /\ WorkFits(t, r, did, main) /\ MergeKnown(t, r, main)
        /\ "merged" \notin r.mem /\ "created" \in r.mem
    BY <1>0, <1>1, <1>7, SeenFacts, FlagsKnown DEF Clean, FlagsFit, Active, Locked, CommitSteps
  <2>2. ~CommittedBy(t, main)
    BY <1>1, <2>1 DEF MergeKnown
  <2>3. \A k \in Keys : did[k] # None => Tree(main)[k] \in {did[k].saw, Absent}
    BY <1>1, <2>1 DEF StillSeen
  <2>4. Tree(main') = c.tree /\ c.tree \in Trees
    BY <1>0, <1>2, PrefixOfAppended DEF Tree, Commits
  <2>5. \A k \in Keys : did[k] # None => did[k].want = c.tree[k]
    BY <1>1, <2>1, <2>4 DEF WorkFits, EndsWith
  <2>6. \A k \in Keys : did[k] = None => c.tree[k] = Tree(main)[k]
    <3>1. PICK d \in Commits : r.branch = Append(main, d) /\ MadeOf(t, d, main, did)
      BY <1>1, <2>1 DEF StillSeen
    <3>2. Last(main') = c
      BY <1>0, <1>2, PrefixOfAppended
    <3>3. Last(main') = d
      BY <1>0, <1>1, <3>1, PrefixOfAppended
    <3> QED BY <3>1, <3>2, <3>3 DEF MadeOf
  <2>7. c.tree = [k \in Keys |-> IF did[k] = None THEN Tree(main)[k] ELSE did[k].want]
    BY <2>4, <2>5, <2>6 DEF Trees
  <2>8. main' = Append(main, [by |-> t, tree |-> H!Applied(H!Tree(main), t)])
    <3>1. c = [by |-> c.by, tree |-> c.tree]
      BY DEF Commits
    <3> QED BY <1>2, <2>7, <3>1 DEF H!Applied, H!Tree, H!Last, Tree, Last
  <2> QED BY <1>3, <1>5, <2>2, <2>3, <2>8, ViewIs DEF H!Commit, H!CommittedBy, CommittedBy, H!Tree, H!Last, Tree, Last,
      LapsedTxs
<1> QED BY <1>6, <1>7, ViewIs

\* A refresh is seen when the transaction lapses in it, and when it ends one that has
\* built the database again.
LEMMA RefreshMaps ==
  ASSUME SerialInv, NEW t \in Txs, InRefresh(t) \/ FailRefresh(t)
  PROVE  UNCHANGED H!vars \/ H!Lapse(t) \/ H!Reopen(t)
<1>0. TypeInv /\ GitInv /\ LogInv /\ SeenInv /\ Own(t) /\ Tree(main) \in Trees /\ tx \in [Txs -> Record]
  BY SerialFacts DEF Own, Fails
<1>1. UNCHANGED <<main, touched>>
  BY <1>0, RefreshFits, FailedRefreshData, OwnHistory DEF InRefresh, FailRefresh, Mutate, Usable, RefreshResets,
     RefreshMarks, RefreshSwaps, RefreshAborts, RefreshEnds, Reaches
<1>2. lapses' \in {lapses, lapses \cup {<<t, "changes">>}}
  BY DEF InRefresh, RefreshResets, RefreshMarks, RefreshSwaps, RefreshAborts, RefreshEnds, FailRefresh
<1>3. tx[t].pc \in RefreshSteps
  BY DEF InRefresh, RefreshResets, RefreshMarks, RefreshSwaps, RefreshAborts, RefreshEnds, Reaches, FailRefresh, RefreshSteps
<1>4. tx[t].pc \in Active /\ tx'[t].pc \in Active
  BY <1>0, <1>3, OwnStaysActive DEF DeleteBranch, RefreshSteps, Active, Locked
<1>5. remote' = remote /\ \A u \in Txs \ {t} : tx'[u] = tx[u]
  BY <1>0, OwnAlone
<1>6. StageOf(tx[t]) \in {"open", "closing"} /\ StageOf(tx'[t]) \in {"open", "closing"}
  BY <1>4, StageIs
<1>7. CASE ~Clean(t)'
  <2>1. LapsedTxs' = LapsedTxs \cup {t}
    BY <1>2, <1>7 DEF LapsedTxs, Lapsed, Clean
  <2>2. Stages' = [Stages EXCEPT ![t] = StageOf(tx'[t])] /\ Stages[t] \in {"open", "closing"}
    BY <1>5, <1>6 DEF Stages
  <2> QED BY <1>1, <1>5, <1>6, <2>1, <2>2, LapseIs
<1>8. CASE Clean(t)'
  <2>1. lapses' = lapses /\ Clean(t)
    BY <1>2, <1>8 DEF Clean, Lapsed
  <2>2. LapsedTxs' = LapsedTxs
    BY <2>1 DEF LapsedTxs, Lapsed
  <2>3. Missing \in tx[t].dur /\ tx[t].db # None => tx[t].pc = "validate"
    BY <1>0, <2>1 DEF LogInv, DatabasesThere, Clean
  <2>4. CASE RefreshEnds(t)
    <3>1. tx[t].pc = "validate" /\ tx'[t].pc = "open" /\ tx'[t].db = tx[t].db
      BY <1>0, <2>4, RefreshKeepsData, RefreshedBecomes DEF RefreshEnds, KeepsData, Becomes, Same
    <3>2. StageOf(tx'[t]) = "open"
      BY <1>4, <3>1, StageIs DEF SerialInv, StagesFit, StageFits
    <3>3. CASE StageOf(tx[t]) = "open"
      BY <1>1, <1>5, <2>2, <3>2, <3>3, StagesKept, Unseen
    <3>4. CASE StageOf(tx[t]) = "closing"
      <4>1. ~CommittedBy(t, main)
        BY <1>0, <1>3, <1>4, <2>1, <3>1, SeenFacts, FlagsKnown DEF Clean, WorkFits, MergeKnown
      <4>2. H!Goes(t, "open")
        BY <1>1, <1>5, <2>1, <3>2, OneGoes
      <4>3. Stages[t] = "closing"
        BY <3>4 DEF Stages
      <4> QED BY <4>1, <4>2, <4>3, ViewIs DEF H!Reopen, H!CommittedBy, CommittedBy
    <3> QED BY <1>6, <3>3, <3>4
  <2>5. CASE ~RefreshEnds(t)
    <3>1. StageOf(tx'[t]) = StageOf(tx[t])
      <4>1. CASE RefreshResets(t) \/ RefreshMarks(t)
        <5>1. tx'[t].db = tx[t].db /\ tx[t].pc # "validate" /\ tx'[t].pc # "validate"
          <6>1. CASE RefreshResets(t)
            BY <1>0, <6>1, RefreshKeepsData, ResetBecomes DEF RefreshResets, KeepsData, Becomes, Same
          <6>2. CASE RefreshMarks(t)
            BY <1>0, <6>2, RefreshKeepsData, MarkBecomes DEF RefreshMarks, Reaches, KeepsData, Becomes, Same
          <6> QED BY <4>1, <6>1, <6>2
        <5> QED BY <1>4, <5>1, StageIs
      <4>2. CASE RefreshSwaps(t)
        <5>1. tx[t].pc = "swap" /\ tx'[t].pc = "validate" /\ tx'[t].db = Reapplied(t) /\ tx'[t].dur = RecordKept(t)
          BY <1>0, <4>2, SwappedIs, SwapBecomes DEF Becomes, Same
        <5>2. Reapplied(t) # None
          BY <1>0, NoneAssumption DEF Reapplied, Trees, Contents, Writers
        <5>3. Missing \in RecordKept(t) <=> tx[t].db = None
          BY <2>3, <5>1 DEF RecordKept
        <5> QED BY <1>4, <5>1, <5>2, <5>3, StageIs DEF Rebuilt
      <4>3. CASE RefreshAborts(t)
        BY <1>8, <4>3 DEF RefreshAborts, Clean, Lapsed
      <4>4. CASE FailRefresh(t)
        <5>1. tx[t].pc = "reset" /\ tx'[t].db = tx[t].db /\ tx'[t].pc = "open"
          BY <1>0, <1>8, <4>4, FailedRefreshData, FailedRefreshBecomes DEF Clean, Lapsed, KeepsData, Becomes, Same
        <5> QED BY <1>4, <5>1, StageIs
      <4> QED BY <2>5, <4>1, <4>2, <4>3, <4>4 DEF InRefresh
    <3> QED BY <1>1, <1>5, <2>2, <3>1, StagesKept, Unseen
  <2> QED BY <2>4, <2>5
<1> QED BY <1>7, <1>8

\* Some commit of main has all that t wanted.
LEMMA HoldsIs ==
  ASSUME TypeInv, NEW t \in Txs, DoesHold(main, touched[t]) PROVE H!Holds(t)
<1>1. PICK i \in DOMAIN main : \A k \in Keys : touched[t][k] # None => touched[t][k].want = main[i].tree[k]
  BY DEF DoesHold
<1>2. main[i].tree \in Trees
  <2>1. main \in Seq(Commits) /\ i \in 1..Len(main)
    BY <1>1 DEF TypeInv, HistoriesOk
  <2>2. main[i] \in Commits
    BY <2>1, ElementOfSeq
  <2> QED BY <2>2 DEF Commits
<1>3. H!Applied(main[i].tree, t) = main[i].tree
  BY <1>1, <1>2 DEF H!Applied, Trees
<1> QED BY <1>1, <1>3 DEF H!Holds

\* A clean-up is seen when the database goes, and when it ends: an answer says that
\* main holds what was wanted, and a rollback that main has nothing of it.
LEMMA CleanupMaps ==
  ASSUME SerialInv, NEW t \in Txs, DropBranchDB(t) \/ DeleteBranch(t)
  PROVE  UNCHANGED H!vars \/ H!Close(t) \/ H!Answer(t) \/ H!Rollback(t) \/ H!Collect(t)
<1> DEFINE r == tx[t]
<1>0. /\ TypeInv /\ Own(t) /\ LogInv /\ SeenInv /\ remote' = remote /\ \A u \in Txs \ {t} : tx'[u] = tx[u]
      /\ UNCHANGED <<main, touched, lapses>>
  BY SerialFacts, OwnAlone DEF Own, DropBranchDB, DeleteBranch
<1>1. CASE DropBranchDB(t)
  <2>1. tx[t].pc = "drop" /\ tx'[t].pc = "delete" /\ tx'[t].db = None
    BY <1>0, <1>1, DropBecomes, DroppedIs DEF DropBranchDB, Becomes, Same
  <2>2. StageOf(tx'[t]) = "closing" /\ StageOf(tx[t]) \in {"open", "closing"}
    BY <2>1, StageIs DEF Active, CleanupSteps
  <2>3. CASE StageOf(tx[t]) = "open"
    <3>1. H!Goes(t, "closing")
      BY <1>0, <2>2, OneGoes
    <3> QED BY <2>3, <3>1, ViewIs DEF H!Close
  <2>4. CASE StageOf(tx[t]) = "closing"
    BY <1>0, <2>2, <2>4, StagesKept, Unseen DEF LapsedTxs, Lapsed
  <2> QED BY <2>2, <2>3, <2>4
<1>2. CASE DeleteBranch(t)
  <2>1. r.pc = "delete" /\ r.op \in {"commit", "resume", "empty", "rollback", "collect"}
    BY <1>0, <1>2 DEF DeleteBranch, TypeInv, TxsSound, Sound, Record, StepFits, CleanupSteps, Ops
  <2>2. PICK next \in AfterCleanup[r.op] : tx'[t].pc = next
    BY <1>0, <1>2, DeletedBecomes DEF Becomes, Same
  <2>3. StageOf(tx[t]) = "closing"
    BY <2>1, StageIs DEF SerialInv, StagesFit, StageFits, Active, CleanupSteps
  <2>4. Stages[t] = "closing" /\ (t \in LapsedTxs <=> ~Clean(t))
    BY <2>3, ViewIs
  <2>5. CASE r.op \in {"commit", "resume", "empty"}
    <3>1. tx'[t].pc \in {"wait", "committed"}
      BY <2>2, <2>5 DEF AfterCleanup
    <3>2. H!Goes(t, "committed")
      BY <1>0, <3>1, OneGoes, StageIs
    <3>3. ASSUME Clean(t) PROVE H!Holds(t)
      <4>1. DoesHold(main', touched'[t])
        BY <1>0, <3>1, <3>3, OwnKeepsWork DEF Clean, Lapsed, SeenInv
      <4> QED BY <1>0, <4>1, HoldsIs
    <3> QED BY <2>4, <3>2, <3>3, ViewIs DEF H!Answer, LapsedTxs
  <2>6. CASE r.op = "rollback"
    <3>1. tx'[t].pc = "rolledback"
      BY <2>2, <2>6 DEF AfterCleanup
    <3>2. H!Goes(t, "rolledback")
      BY <1>0, <3>1, OneGoes, StageIs
    <3>3. ASSUME Clean(t) PROVE ~CommittedBy(t, main)
      <4>1. MergeKnown(t, r, main)
        BY <1>0, <2>1, <3>3, SeenFacts DEF Clean, Active, CleanupSteps
      <4> QED BY <2>1, <2>6, <4>1 DEF SerialInv, StagesFit, StageFits, CleanupSteps, MergeKnown
    <3> QED BY <2>4, <3>2, <3>3, ViewIs DEF H!Rollback, H!CommittedBy, CommittedBy, LapsedTxs
  <2>7. CASE r.op = "collect"
    <3>1. tx'[t].pc = "collected"
      BY <2>2, <2>7 DEF AfterCleanup
    <3>2. H!Goes(t, "gone")
      BY <1>0, <3>1, OneGoes, StageIs
    <3> QED BY <2>4, <3>2, ViewIs DEF H!Collect
  <2> QED BY <2>1, <2>5, <2>6, <2>7
<1> QED BY <1>1, <1>2

LEMMA OwnMaps ==
  ASSUME SerialInv, NEW t \in Txs, Own(t) PROVE [H!Next]_(H!vars)
<1>1. UNCHANGED H!vars \/ (\E k \in Keys : H!Change(t, k)) \/ H!Commit(t) \/ H!Stray(t) \/ H!Lapse(t)
      \/ H!Close(t) \/ H!Reopen(t) \/ H!Answer(t) \/ H!Rollback(t) \/ H!Collect(t)
  <2>1. CASE InCommit(t) /\ main' # main
    <3>1. CommitMerges(t)
      BY <2>1 DEF InCommit, CommitStarts, CommitCreates, CommitRecords, CommitLoads, CommitRecordsMerge
    <3> QED BY <2>1, <3>1, MergeMaps
  <2>2. CASE FailCommit(t) \/ FailCleanup(t) \/ (InCommit(t) /\ main' = main)
    BY <2>2, CommitMaps DEF FailCommit, FailCleanup
  <2>3. CASE Called(t) \/ Collect(t)
    BY <2>3, CallMaps, MutateMaps
  <2>4. CASE InRefresh(t) \/ FailRefresh(t)
    BY <2>4, RefreshMaps
  <2>5. CASE DropBranchDB(t) \/ DeleteBranch(t)
    BY <2>5, CleanupMaps
  <2> QED BY <2>1, <2>2, <2>3, <2>4, <2>5 DEF Own, Fails
<1> QED BY <1>1, Zenon DEF H!Next

\* Of what the worker does, the history sees that main is exchanged with the remote
\* and that callers who waited are answered.
LEMMA WorkerKeepsStages ==
  ASSUME SerialInv, UNCHANGED tx \/ \E served \in SUBSET Waiting : Answers(served, FALSE)
  PROVE  Stages' = Stages
<1>1. CASE UNCHANGED tx
  BY <1>1 DEF Stages
<1>2. ASSUME NEW served \in SUBSET Waiting, Answers(served, FALSE) PROVE Stages' = Stages
  <2>1. Answered(served, "committed")
    BY <1>2, SerialFacts, AnswersAre DEF GitInv
  <2>2. \A u \in Txs : StageOf(tx'[u]) = StageOf(tx[u])
    BY <2>1, StageIs DEF Answered
  <2> QED BY <2>2 DEF Stages
<1> QED BY <1>1, <1>2

LEMMA FetchMaps ==
  ASSUME SerialInv, Fetches \/ HydrationFails \/ CheckoutFails \/ FetchDiverges PROVE UNCHANGED H!vars \/ H!Pull
<1>1. /\ UNCHANGED <<remote, touched, lapses>> /\ Stages' = Stages
      /\ main' = main \/ (NewData /\ main' = remote)
  BY WorkerKeepsStages DEF Fetches, HydrationFails, CheckoutFails, FetchDiverges
<1>2. LapsedTxs' = LapsedTxs
  BY <1>1 DEF LapsedTxs, Lapsed
<1> QED BY <1>1, <1>2, Unseen, ViewIs DEF H!Pull, H!IsStrictPrefix, H!IsPrefix, NewData, IsStrictPrefix, IsPrefix,
    LapsedTxs

LEMMA PushMaps ==
  ASSUME SerialInv, PushBegins \/ Pushes \/ PushIsRejected \/ CycleFails PROVE UNCHANGED H!vars \/ H!Push
<1>0. Served \in SUBSET Waiting
  BY SerialFacts DEF GitInv, BaseInv, Served, ServedWait
<1>1. /\ UNCHANGED <<main, touched, lapses>> /\ Stages' = Stages
      /\ remote' = remote \/ (IsPrefix(remote, main) /\ remote' = main)
  <2>1. Stages' = Stages
    BY <1>0, WorkerKeepsStages DEF PushBegins, Pushes, PushIsRejected, CycleFails
  <2> QED BY <2>1 DEF PushBegins, Pushes, PushIsRejected, CycleFails
<1>2. LapsedTxs' = LapsedTxs
  BY <1>1 DEF LapsedTxs, Lapsed
<1>3. CASE remote' = remote
  BY <1>1, <1>2, <1>3, Unseen
<1>4. CASE remote' # remote
  BY <1>1, <1>2, <1>4, ViewIs DEF H!Push, H!IsStrictPrefix, H!IsPrefix, IsPrefix, LapsedTxs
<1> QED BY <1>3, <1>4

LEMMA AckMaps ==
  ASSUME SerialInv, NothingToPush \/ Delivers PROVE H!Acknowledge(sync.serving)
<1>1. UNCHANGED <<main, remote, touched, lapses>> /\ Answered(sync.serving, "acked")
  BY SerialFacts, AnswersAre DEF NothingToPush, Delivers, GitInv
<1>2. AckedIsPushed'
  BY SerialFacts, NextKeepsPushes DEF Next, CycleRuns, PushInv
<1>3. ASSUME NEW u \in Txs
      PROVE  /\ u \in sync.serving => /\ StageOf(tx[u]) = "committed" /\ StageOf(tx'[u]) = "acked"
                                      /\ CommittedBy(u, main) => CommittedBy(u, remote)
             /\ u \notin sync.serving => StageOf(tx'[u]) = StageOf(tx[u])
  BY <1>1, <1>2, StageIs DEF Answered, AckedIsPushed
<1>4. sync.serving \subseteq Txs
  BY SerialFacts DEF TypeInv, SyncType
<1>5. Stages' = [u \in Txs |-> IF u \in sync.serving THEN "acked" ELSE Stages[u]]
  BY <1>3 DEF Stages
<1>6. LapsedTxs' = LapsedTxs
  BY <1>1 DEF LapsedTxs, Lapsed
<1>7. \A u \in sync.serving : Stages[u] = "committed" /\ (CommittedBy(u, main) => CommittedBy(u, remote))
  BY <1>3, <1>4 DEF Stages
<1> QED BY <1>1, <1>5, <1>6, <1>7, ViewIs DEF H!Acknowledge, H!CommittedBy, CommittedBy, LapsedTxs

LEMMA PeerMaps == ASSUME SerialInv, PeerPushes PROVE H!PeerPushes
<1>1. UNCHANGED <<main, touched, lapses, tx>>
  BY DEF PeerPushes
<1>2. LapsedTxs' = LapsedTxs /\ Stages' = Stages
  BY <1>1 DEF LapsedTxs, Lapsed, Stages
<1> QED BY <1>1, <1>2, ViewIs DEF PeerPushes, H!PeerPushes, H!Tree, H!Last, Tree, Last, LapsedTxs

LEMMA FreeMaps ==
  ASSUME SerialInv, CycleRuns \/ CycleLocks \/ HydrationFails \/ CheckoutFails \/ CycleFails \/ PeerPushes
  PROVE  [H!Next]_(H!vars)
<1>1. ASSUME NothingToPush \/ Delivers PROVE H!Next
  <2>1. sync.serving \in SUBSET Txs
    BY SerialFacts DEF TypeInv, SyncType
  <2> QED BY <1>1, <2>1, AckMaps, Zenon DEF H!Next
<1>2. CASE ~(NothingToPush \/ Delivers)
  BY <1>2, FetchMaps, PushMaps, PeerMaps, Zenon DEF H!Next, CycleRuns, CycleLocks
<1> QED BY <1>1, <1>2

\* What a restart forgets of a transaction that goes on came to nothing, unless the
\* transaction lapses.
LEMMA ForgottenIsNothing ==
  ASSUME SerialInv, Crash, NEW t \in Txs, NEW k \in Keys, Survives(t), Forgets(t, k), touched[t][k] # None,
         ~Lapsed(t, "changes")', ~Lapsed(t, "reopen")'
  PROVE  ~CommittedBy(t, main) /\ \E i \in DOMAIN main : main[i].tree[k] = touched[t][k].want
<1>1. /\ tx[t].pc \in Active /\ tx[t].db # None /\ "refreshing" \notin tx[t].dur /\ ~CommittedBy(t, main)
      /\ ~Lapsed(t, "changes")
  BY DEF Crash, Survives, Lapsed, Active, Locked
<1>2. touched[t][k].want = tx[t].db[k] /\ tx[t].db[k] = Tree(tx[t].base)[k]
  BY <1>1, SerialFacts DEF LogInv, LogsFit, LogFits, Forgets, Baseline
<1>3. /\ main \in Seq(Commits)
      /\ tx[t].base \in Seq(Commits) /\ tx[t].base # <<>> /\ IsPrefix(tx[t].base, main)
  BY <1>1, SerialFacts DEF GitInv, BranchesPlaced, Placed, TypeInv, TxsSound, Sound, Record, StepFits
<1>4. Len(tx[t].base) \in DOMAIN main /\ Tree(tx[t].base) = main[Len(tx[t].base)].tree
  <2> DEFINE base == tx[t].base
  <2>1. Len(base) \in Nat \ {0} /\ Len(base) <= Len(main) /\ \A i \in 1..Len(base) : base[i] = main[i]
    BY <1>3, EmptySeq, PrefixIs
  <2> HIDE DEF base
  <2>2. Len(base) \in DOMAIN main /\ Tree(base) = main[Len(base)].tree
    BY <1>3, <2>1 DEF Tree, Last
  <2> QED BY <2>2 DEF base
<1> QED BY <1>1, <1>2, <1>4

\* A restart drops those who are cleaned up, and those of whom main holds all; of the
\* others it forgets what came to nothing.
LEMMA CrashMaps == ASSUME SerialInv, Crash PROVE H!Next
<1> DEFINE dropped == {t \in Txs : tx[t].pc \in Active /\ ~Survives(t)}
           lapsing == {t \in Txs : Survives(t) /\ t \in LapsedTxs'}
           forgotten == {c \in Txs \X Keys : Survives(c[1]) /\ Forgets(c[1], c[2]) /\ touched[c[1]][c[2]] # None}
<1>0. TypeInv /\ LogInv /\ UNCHANGED <<main, remote>>
  BY SerialFacts DEF Crash
<1>1. ASSUME NEW t \in Txs
      PROVE  /\ Survives(t) => tx[t].pc \in Active /\ StageOf(tx[t]) = "open" /\ StageOf(tx'[t]) = "open"
             /\ t \in dropped => StageOf(tx'[t]) = "gone"
             /\ t \notin dropped => StageOf(tx'[t]) = StageOf(tx[t])
  <2>1. tx'[t] = Recovered(t)
    BY DEF Crash
  <2>2. ASSUME Survives(t) PROVE tx'[t].db = tx[t].db
    <3> DEFINE log == Difference(t)  mem == tx[t].dur \ {"hydrated"}
    <3>1. tx[t] \in Record
      BY <1>0 DEF TypeInv, TxsSound, Sound
    <3>2. tx'[t] = [tx[t] EXCEPT !.pc = "open", !.op = "none", !.before = None, !.log = log, !.stale = {}, !.mem = mem]
      BY <2>1, <2>2 DEF Recovered
    <3> HIDE DEF log, mem
    <3> QED BY <3>1, <3>2 DEF Record
  <2>3. CASE Survives(t)
    <3>1. tx[t].pc \in Active /\ tx[t].db # None /\ ~Rebuilt(tx[t]) /\ tx'[t].pc = "open"
      BY <1>0, <2>1, <2>3, RecoveredIs DEF Same, Survives, Rebuilt, Outcomes, Active, Locked, CommitSteps, RefreshSteps,
         CleanupSteps
    <3> QED BY <2>2, <2>3, <3>1, StageIs DEF Active
  <2>4. CASE ~Survives(t) /\ tx[t].pc \in Active
    <3>1. tx'[t].pc = "lost"
      BY <1>0, <2>1, <2>4, RecoveredIs DEF Same, Outcomes, Active, Locked, CommitSteps, RefreshSteps, CleanupSteps
    <3> QED BY <2>4, <3>1, StageIs
  <2>5. CASE ~Survives(t) /\ tx[t].pc \notin Active
    <3>1. tx'[t] = tx[t] \/ (tx[t].pc = "wait" /\ tx'[t].pc = "committed")
      <4>1. tx[t].pc \in {"new", "wait"} \cup Outcomes
        BY <1>0, <2>5 DEF TypeInv, TxsSound, Sound, Record, Steps, Active
      <4> QED BY <1>0, <2>1, <2>5, <4>1, RecoveredIs DEF Same, Outcomes
    <3> QED BY <2>5, <3>1, StageIs
  <2> QED BY <2>3, <2>4, <2>5
<1>2. LapsedTxs' = LapsedTxs \cup lapsing
  BY DEF Crash, LapsedTxs, Lapsed
<1>3. Stages' = [t \in Txs |-> IF t \in dropped THEN "gone" ELSE Stages[t]]
  BY <1>1 DEF Stages
<1>4. touched' = [t \in Txs |-> [k \in Keys |-> IF <<t, k>> \in forgotten THEN None ELSE touched[t][k]]]
  BY DEF Crash
<1>5. \A t \in lapsing : Stages[t] = "open"
  BY <1>1, ViewIs
<1>6. ASSUME NEW t \in dropped
      PROVE  Stages[t] = "closing" \/ (Stages[t] = "open" /\ (H!Holds(t) \/ t \in LapsedTxs'))
  <2>1. CASE tx[t].db = None \/ Rebuilt(tx[t])
    BY <2>1, StageIs, ViewIs
  <2>2. CASE tx[t].db # None /\ ~Rebuilt(tx[t])
    <3>1. Stages[t] = "open"
      BY <2>2, StageIs, ViewIs
    <3>2. CASE Lapsed(t, "changes")
      BY <1>2, <3>1, <3>2 DEF LapsedTxs
    <3>3. CASE ~Lapsed(t, "changes")
      BY <1>0, <2>2, <3>1, <3>3, LostIsHeld, HoldsIs
    <3> QED BY <3>2, <3>3
  <2> QED BY <2>1, <2>2
<1>7. ASSUME NEW t \in Txs, NEW k \in Keys, <<t, k>> \in forgotten
      PROVE  /\ Stages[t] = "open" /\ touched[t][k] # None
             /\ t \in LapsedTxs' \/ (~CommittedBy(t, main) /\ H!WasOnMain(k, touched[t][k].want))
  <2>1. Survives(t) /\ Forgets(t, k) /\ touched[t][k] # None
    BY <1>7
  <2>2. Stages[t] = "open"
    BY <1>1, <2>1, ViewIs
  <2>3. CASE t \in LapsedTxs'
    BY <2>1, <2>2, <2>3
  <2>4. CASE t \notin LapsedTxs'
    BY <2>1, <2>2, <2>4, ForgottenIsNothing DEF LapsedTxs, H!WasOnMain
  <2> QED BY <2>3, <2>4
<1>8. dropped \in SUBSET Txs /\ lapsing \in SUBSET Txs /\ forgotten \in SUBSET (Txs \X Keys)
  OBVIOUS
<1> HIDE DEF dropped, lapsing, forgotten
<1>9. H!Restarts(dropped, lapsing, forgotten)
  BY <1>0, <1>2, <1>3, <1>4, <1>5, <1>6, <1>7, ViewIs DEF H!Restarts, H!CommittedBy, CommittedBy, LapsedTxs
<1> QED BY <1>8, <1>9 DEF H!Next

LEMMA InitMaps == ASSUME Init PROVE H!Init
<1>1. \A t \in Txs : tx[t].pc = "new"
  BY NoTxIs DEF Init
<1>2. Stages = [t \in Txs |-> "open"] /\ LapsedTxs = {}
  BY <1>1, StageIs DEF Stages, LapsedTxs, Lapsed, Init
<1> QED BY <1>2, ViewIs DEF Init, H!Init, LapsedTxs

\* Branches, databases, logs and flags, with every failed attempt, retry, refresh
\* and recovery among them, are to the users of the graph one history of commits:
\* each transaction's changes all at once or not at all, and over what it saw.
THEOREM TransactionsAreSerial == Spec => ImplementsSerialHistory
<1>1. SerialInv /\ [Next]_vars => [H!Next]_(H!vars)
  <2>1. ASSUME UNCHANGED vars PROVE UNCHANGED H!vars
    BY <2>1, Unseen DEF vars, Stages, LapsedTxs, Lapsed
  <2> QED BY <2>1, OwnMaps, FreeMaps, CrashMaps DEF Next, Own
<1> QED BY <1>1, InitMaps, SerialAlways, PTL DEF Spec, ImplementsSerialHistory, H!Spec

=============================================================================
