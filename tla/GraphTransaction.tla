-------------------------- MODULE GraphTransaction --------------------------
(***************************************************************************)
(* Transactions of the Cartographer.  A transaction works on a git branch  *)
(* and a database of its own; a commit serialises its change log onto the  *)
(* branch, loads the branch into main's database, and fast-forwards main;  *)
(* a refresh moves the branch to main and applies the log again.  Every    *)
(* milestone is a flag in a durable record, so that a failed or            *)
(* interrupted commit is resumed.  A sync worker exchanges main with a     *)
(* remote.                                                                 *)
(*                                                                         *)
(* A branch is its history, a sequence of commits; the hash of a commit    *)
(* stands for the history it ends.  The content of an element is the       *)
(* writer that gave it last, or Draft: a version its writer replaced.  Git *)
(* operations run under the git lock: while a transaction is at a step of  *)
(* Locked no other git operation starts.                                   *)
(***************************************************************************)
EXTENDS Integers, FiniteSets, Sequences, SequencesExt

CONSTANTS
  Txs,          \* identifiers of transactions
  Keys,         \* identifiers of entities
  Seeded,       \* the entities of the first commit
  Absent, Seed, Peer, Draft, None,
  MaxChanges,   \* entries of a change log
  MaxEvents     \* failed operations, restarts, and pushes of others

ASSUME GraphAssumption ==
  /\ Seeded \subseteq Keys
  /\ {MaxChanges, MaxEvents} \subseteq Nat
  /\ {Absent, Seed, Peer, Draft, None} \cap Txs = {}
  /\ Cardinality({Absent, Seed, Peer, Draft}) = 4

VARIABLES
  main,       \* refs/heads/main
  remote,     \* main in the remote
  store,      \* the elements in main.lbug
  tx,         \* the transactions
  sync,       \* the sync worker
  events,
  touched,    \* history: what a transaction first saw of an element, and what it last made of it
  lapses      \* history: where the properties below stop (see Lapses)

vars == <<main, remote, store, tx, sync, events, touched, lapses>>

Writers == Txs \cup {Seed, Peer}
Contents == Writers \cup {Absent, Draft}
Trees == [Keys -> Contents]
Commits == [by : Writers, tree : Trees]
Tree(history) == Last(history).tree
CommittedBy(t, history) == \E i \in DOMAIN history : history[i].by = t
Touches == [saw : Contents, want : Contents]

ASSUME NoneAssumption == None \notin Trees \cup Touches

Kinds == {"add", "mod", "del"}
Milestones == {"started", "created", "hydrated", "rehydrated"}
Flags == Milestones \cup {"merged", "refreshing"}

\* In place of flags: there is no durable record.
Missing == "missing"

CommitSteps == {"start", "create", "created", "load", "merge", "merged"}
RefreshSteps == {"reset", "mark", "swap", "validate"}
Locked == CommitSteps \cup RefreshSteps
CleanupSteps == {"drop", "delete"}
Outcomes == {"committed", "acked", "rolledback", "collected", "lost"}
Steps == {"new", "open", "wait"} \cup Locked \cup CleanupSteps \cup Outcomes

NoTx == [pc |-> "new", op |-> "none", branch |-> <<>>, db |-> None, base |-> <<>>,
         log |-> {}, stale |-> {}, mem |-> {}, dur |-> {}, before |-> None]

\* "changes": a refresh of the transaction moved its branch and did not end, or
\* ended before that and opened it again with its commit on the branch, or
\* dropped an element that the transaction had recreated; or its commit has
\* such an element as it was before;
\* "reopen": a restart registered it again after its commit reached main;
\* "hydrate": its commit kept a load of main.lbug that something had undone.
Lapses == Txs \X {"changes", "reopen", "hydrate"}
Lapsed(t, how) == <<t, how>> \in lapses

Init ==
  LET first == [by |-> Seed, tree |-> [k \in Keys |-> IF k \in Seeded THEN Seed ELSE Absent]]
  IN /\ main = <<first>>
     /\ remote = main
     /\ store = first.tree
     /\ tx = [t \in Txs |-> NoTx]
     /\ sync = [at |-> "idle", pending |-> 0, gen |-> 0,
                serving |-> {}, unhydrated |-> FALSE, skipped |-> 0]
     /\ events = 0
     /\ touched = [t \in Txs |-> [k \in Keys |-> None]]
     /\ lapses = {}

GitFree == \A t \in Txs : tx[t].pc \notin Locked
Has(t, flag) == flag \in tx[t].mem
Exists(t) == CommittedBy(t, tx[t].branch)

\* The transaction is registered, no operation runs on it, and its database
\* was not dropped by a clean-up that failed later.
Usable(t) == tx[t].pc = "open" /\ tx[t].db # None

Disturbed == events < MaxEvents /\ events' = events + 1

\* Keeps the variables that only the other actors change.
Unsynced == UNCHANGED <<remote, sync>>

-----------------------------------------------------------------------------
(* Beginning and mutating.                                                 *)

BeginTransaction(t) ==
  /\ tx[t].pc = "new"
  /\ GitFree
  /\ tx' = [tx EXCEPT ![t].pc = "open", ![t].branch = main,
                      ![t].db = Tree(main), ![t].base = main]
  /\ UNCHANGED <<main, store, events, touched, lapses>> /\ Unsynced

\* The log has one entry of each kind for an element, and no order: a modification
\* stays when the element is deleted and created again.
Stale(t, kind, k) ==
  (tx[t].stale \ (IF kind = "mod" THEN {k} ELSE {}))
    \cup (IF kind = "add" /\ <<"mod", k>> \in tx[t].log THEN {k} ELSE {})

Records(t, kind, k, value) ==
  /\ Usable(t)
  /\ ~Has(t, "started")
  /\ Cardinality(tx[t].log \cup {<<kind, k>>}) <= MaxChanges
  /\ tx' = [tx EXCEPT ![t].log = @ \cup {<<kind, k>>}, ![t].stale = Stale(t, kind, k),
                      ![t].db[k] = value]
  /\ touched' = [touched EXCEPT ![t][k] =
       [saw |-> IF @ = None THEN tx[t].db[k] ELSE @.saw, want |-> value]]
  /\ UNCHANGED <<main, store, events, lapses>> /\ Unsynced

CreateEntity(t, k) == tx[t].db[k] = Absent /\ Records(t, "add", k, t)
UpdateEntity(t, k) == tx[t].db[k] # Absent /\ Records(t, "mod", k, t)
DeleteEntity(t, k) == tx[t].db[k] # Absent /\ Records(t, "del", k, Absent)

Mutate(t) ==
  /\ Usable(t)
  /\ \E k \in Keys : CreateEntity(t, k) \/ UpdateEntity(t, k) \/ DeleteEntity(t, k)

-----------------------------------------------------------------------------
(* Cleaning up: main.lbug is restored if a partial commit loaded it, the   *)
(* database with its record is dropped, the branch is deleted, and the     *)
(* transaction deregistered.                                               *)

\* Mutant of RestoredStore: the flag is not looked at.
StoreAsIs(t) == store
RestoredStore(t) == IF Has(t, "rehydrated") THEN Tree(main) ELSE store

CleansUp(t, op) ==
  /\ store' = RestoredStore(t)
  /\ tx' = [tx EXCEPT ![t].pc = "drop", ![t].op = op, ![t].mem = @ \ {"rehydrated"}]

DropBranchDB(t) ==
  /\ tx[t].pc = "drop"
  /\ tx' = [tx EXCEPT ![t].pc = "delete", ![t].db = None, ![t].dur = {Missing}]
  /\ UNCHANGED <<main, store, events, touched, lapses>> /\ Unsynced

\* Whoever commits may wait for a cycle of the worker (WithAck).
AfterCleanup ==
  [commit |-> {"committed", "wait"}, resume |-> {"committed", "wait"}, empty |-> {"committed"},
   rollback |-> {"rolledback"}, collect |-> {"collected"}]

SetPushNeeded == sync' = [sync EXCEPT !.pending = @ + 1]

\* A commit flags a push once it is done; one that only resumes the clean-up
\* has flagged it before.
DeleteBranch(t) ==
  /\ tx[t].pc = "delete"
  /\ GitFree
  /\ \E next \in AfterCleanup[tx[t].op] : tx' = [tx EXCEPT ![t] = [NoTx EXCEPT !.pc = next]]
  /\ IF tx[t].op = "commit" THEN SetPushNeeded ELSE UNCHANGED sync
  /\ UNCHANGED <<main, remote, store, events, touched, lapses>>

\* Mutant of Abandonable: a merged transaction can be rolled back.
AbandonableAlways(t) == TRUE
Abandonable(t) == ~Has(t, "merged")

RollbackTransaction(t) ==
  /\ tx[t].pc = "open"
  /\ Abandonable(t)
  /\ GitFree
  /\ CleansUp(t, "rollback")
  /\ UNCHANGED <<main, events, touched, lapses>> /\ Unsynced

\* The collector restores main.lbug unless the commit is on main.  The lifetime
\* of a transaction may be over at any time; until the collector runs, that
\* only refuses calls.
Collect(t) ==
  /\ tx[t].pc = "open"
  /\ GitFree
  /\ tx' = [tx EXCEPT ![t].pc = "drop", ![t].op = "collect", ![t].mem = @ \ {"rehydrated"}]
  /\ store' = IF CommittedBy(t, main) THEN RestoredStore(t) ELSE Tree(main)
  /\ UNCHANGED <<main, events, touched, lapses>> /\ Unsynced

-----------------------------------------------------------------------------
(* Committing.                                                             *)

\* The tree the change log makes of `tree`: added and then modified elements are
\* written and deleted ones removed; whether an element that was both added and
\* deleted is there is what the transaction's database says.
Written(tree, t) ==
  LET Did(kind, k) == <<kind, k>> \in tx[t].log
      Gone(k) == Did("del", k) /\ ~(Did("add", k) /\ tx[t].db[k] # Absent)
  IN [k \in Keys |-> IF Gone(k) THEN Absent
                     ELSE IF ~Did("add", k) /\ ~Did("mod", k) THEN tree[k]
                     ELSE IF k \in tx[t].stale THEN Draft ELSE t]

Outdates(t) == \E k \in tx[t].stale : tx[t].db[k] # Absent

CommitResumesCleanup(t) ==
  /\ tx[t].pc = "open" /\ Has(t, "merged")
  /\ GitFree
  /\ SetPushNeeded
  /\ CleansUp(t, "resume")
  /\ UNCHANGED <<main, remote, events, touched, lapses>>

CommitOfNothing(t) ==
  /\ tx[t].pc = "open" /\ ~Has(t, "merged") /\ tx[t].log = {}
  /\ GitFree
  /\ CleansUp(t, "empty")
  /\ UNCHANGED <<main, events, touched, lapses>> /\ Unsynced

Committing(t) == Usable(t) /\ ~Has(t, "merged") /\ tx[t].log # {} /\ GitFree

\* The flags once a commit of an earlier attempt was looked for on the branch.
Detected(t) == tx[t].mem \cup IF Exists(t) THEN {"started", "created"} ELSE {}
AlreadyMerged(t) == "created" \in Detected(t) /\ tx[t].branch = main

CommitFindsMerge(t) ==
  /\ Committing(t) /\ AlreadyMerged(t)
  /\ LET flags == (Detected(t) \cup {"merged"}) \ {"rehydrated"}
     IN tx' = [tx EXCEPT ![t].pc = "drop", ![t].op = "commit",
                         ![t].mem = flags, ![t].dur = flags]
  /\ UNCHANGED <<main, store, events, touched, lapses>> /\ Unsynced

Void(flags) == flags \ Milestones

\* What an attempt that fails leaves: a commit on the branch is kept for the
\* next one, otherwise the milestones are void.
Reconciled(t, flags) ==
  IF Exists(t) THEN flags \cup {"started", "created"} ELSE Void(flags)

UpToDate(t) == main = tx[t].base

CommitIsNotUpToDate(t) ==
  /\ Committing(t) /\ ~AlreadyMerged(t) /\ ~UpToDate(t)
  /\ LET flags == Reconciled(t, Detected(t))
     IN tx' = [tx EXCEPT ![t].mem = flags,
                         ![t].dur = IF Detected(t) \cap Milestones = {} THEN @ ELSE flags]
  /\ UNCHANGED <<main, store, events, touched, lapses>> /\ Unsynced

NextAfterCreated(flags) == IF "hydrated" \in flags THEN "merge" ELSE "load"

CommitBegins(t) ==
  /\ Committing(t) /\ ~AlreadyMerged(t) /\ UpToDate(t)
  /\ LET flags == Detected(t)
         next == IF "created" \in flags THEN NextAfterCreated(flags) ELSE "start"
     IN /\ tx' = [tx EXCEPT ![t].pc = next, ![t].mem = flags,
                   ![t].dur = IF Exists(t) /\ ~Has(t, "created") THEN flags ELSE @]
        /\ lapses' = IF next = "merge" /\ store # Tree(tx[t].branch)
                     THEN lapses \cup {<<t, "hydrate">>} ELSE lapses
  /\ UNCHANGED <<main, store, events, touched>> /\ Unsynced

\* A step of a commit that records a milestone and goes on.
Reaches(t, from, flags, to) ==
  /\ tx[t].pc = from
  /\ tx' = [tx EXCEPT ![t].pc = to, ![t].mem = flags, ![t].dur = flags]

CommitStarts(t) ==
  /\ Reaches(t, "start", tx[t].mem \cup {"started"}, "create")
  /\ UNCHANGED <<main, store, events, touched, lapses>> /\ Unsynced

\* A commit that changes no file is not made.
CommitCreates(t) ==
  /\ tx[t].pc = "create"
  /\ LET branch == tx[t].branch
         tree == Written(Tree(branch), t)
     IN tx' = [tx EXCEPT ![t].pc = "created",
          ![t].branch = IF tree = Tree(branch) THEN @ ELSE Append(@, [by |-> t, tree |-> tree])]
  /\ lapses' = IF Outdates(t) THEN lapses \cup {<<t, "changes">>} ELSE lapses
  /\ UNCHANGED <<main, store, events, touched>> /\ Unsynced

CommitRecords(t) ==
  /\ Reaches(t, "created", tx[t].mem \cup {"created"}, NextAfterCreated(tx[t].mem))
  /\ UNCHANGED <<main, store, events, touched, lapses>> /\ Unsynced

\* One flag is saved before main.lbug is loaded, the other afterwards.
CommitLoads(t) ==
  /\ Reaches(t, "load", tx[t].mem \cup {"rehydrated", "hydrated"}, "merge")
  /\ store' = Tree(tx[t].branch)
  /\ UNCHANGED <<main, events, touched, lapses>> /\ Unsynced

CommitMerges(t) ==
  /\ tx[t].pc = "merge"
  /\ IsPrefix(main, tx[t].branch)
  /\ main' = tx[t].branch
  /\ tx' = [tx EXCEPT ![t].pc = "merged"]
  /\ UNCHANGED <<store, events, touched, lapses>> /\ Unsynced

CommitRecordsMerge(t) ==
  /\ tx[t].pc = "merged"
  /\ LET flags == (tx[t].mem \cup {"merged"}) \ {"rehydrated"}
     IN tx' = [tx EXCEPT ![t].pc = "drop", ![t].op = "commit",
                         ![t].mem = flags, ![t].dur = flags]
  /\ UNCHANGED <<main, store, events, touched, lapses>> /\ Unsynced

-----------------------------------------------------------------------------
(* Refreshing.                                                             *)

Refreshable(t) == tx[t].pc = "open" /\ Abandonable(t) /\ GitFree

\* Main.lbug when what a commit may have loaded into it is undone.
UnloadedStore(t) == IF Has(t, "rehydrated") \/ Has(t, "hydrated") THEN Tree(main) ELSE store

\* Main.lbug is restored and the milestones are void; the elements of the
\* branch as they were are what the refresh compares main with.  A clean-up that
\* failed may have dropped the database: with no milestone to clear, the
\* transaction is refreshed nevertheless, and works again.
RefreshBegins(t) ==
  /\ Refreshable(t)
  /\ Has(t, "started") => tx[t].db # None
  /\ LET flags == Void(tx[t].mem)
     IN tx' = [tx EXCEPT ![t].pc = "reset", ![t].before = Tree(tx[t].branch),
          ![t].mem = flags, ![t].dur = IF Has(t, "started") THEN flags ELSE @]
  /\ store' = UnloadedStore(t)
  /\ UNCHANGED <<main, events, touched, lapses>> /\ Unsynced

\* The cleared milestones are not saved, as is always so without a database.
RefreshIsNotSaved(t) ==
  /\ Refreshable(t) /\ Has(t, "started")
  /\ store' = UnloadedStore(t)
  /\ UNCHANGED <<main, tx, events, touched, lapses>> /\ Unsynced

\* A dropped database is built in place, without a marker.
RefreshResets(t) ==
  /\ tx[t].pc = "reset"
  /\ tx' = [tx EXCEPT ![t].pc = IF tx[t].db = None THEN "swap" ELSE "mark", ![t].branch = main]
  /\ UNCHANGED <<main, store, events, touched, lapses>> /\ Unsynced

RefreshMarks(t) ==
  /\ Reaches(t, "mark", tx[t].mem \cup {"refreshing"}, "swap")
  /\ UNCHANGED <<main, store, events, touched, lapses>> /\ Unsynced

\* The log is applied in the order additions, modifications, deletions.
CannotReapply(t) ==
  \E k \in Keys :
    \/ <<"add", k>> \in tx[t].log /\ Tree(main)[k] # Absent
    \/ {<<"mod", k>>, <<"add", k>>} \cap tx[t].log = {<<"mod", k>>} /\ Tree(main)[k] = Absent

\* Mutant of Reapplied: the log is applied to the database after the swap.
ReappliedLater(t) == Tree(main)
Reapplied(t) ==
  [k \in Keys |-> IF <<"del", k>> \in tx[t].log THEN Absent
                  ELSE IF {<<"add", k>>, <<"mod", k>>} \cap tx[t].log # {} THEN t
                  ELSE Tree(main)[k]]

\* Mutant of Overlaps: deletions are not compared.
OverlapsWritten(t) ==
  \E k \in Keys : <<"mod", k>> \in tx[t].log /\ tx[t].before[k] # Tree(main)[k]
Overlaps(t) ==
  \E k \in Keys :
    \/ <<"add", k>> \in tx[t].log /\ Tree(main)[k] # Absent
    \/ {<<"mod", k>>, <<"del", k>>} \cap tx[t].log # {} /\ tx[t].before[k] # Tree(main)[k]

Recreates(t) ==
  \E k \in Keys : /\ {<<"add", k>>, <<"del", k>>} \subseteq tx[t].log
                  /\ touched[t][k] # None /\ touched[t][k].want # Absent

\* The durable record once the database is replaced.
RecordKept(t) == IF tx[t].db = None THEN {Missing} ELSE tx[t].dur

RefreshSwaps(t) ==
  /\ tx[t].pc = "swap" /\ ~CannotReapply(t)
  /\ tx' = [tx EXCEPT ![t].pc = "validate", ![t].db = Reapplied(t), ![t].dur = RecordKept(t)]
  /\ lapses' = IF Recreates(t) THEN lapses \cup {<<t, "changes">>} ELSE lapses
  /\ UNCHANGED <<main, store, events, touched>> /\ Unsynced

\* ABORTED: the database is a copy of main, the log is kept in memory.
RefreshAborts(t) ==
  /\ \/ tx[t].pc = "swap" /\ CannotReapply(t)
     \/ tx[t].pc = "validate" /\ Overlaps(t)
  /\ tx' = [tx EXCEPT ![t].pc = "open", ![t].db = Tree(main), ![t].dur = RecordKept(t),
                      ![t].before = None]
  /\ lapses' = lapses \cup {<<t, "changes">>}
  /\ UNCHANGED <<main, store, events, touched>> /\ Unsynced

RefreshEnds(t) ==
  /\ tx[t].pc = "validate" /\ ~Overlaps(t)
  /\ LET flags == tx[t].mem \ {"refreshing"}
     IN tx' = [tx EXCEPT ![t].pc = "open", ![t].base = main, ![t].before = None,
                         ![t].mem = flags, ![t].dur = flags]
  /\ UNCHANGED <<main, store, events, touched, lapses>> /\ Unsynced

-----------------------------------------------------------------------------
(* The sync worker: a cycle fetches, loads what is new, and pushes what    *)
(* was asked for; it answers the callers that waited when it began, some   *)
(* of those that wait when its fetch is done.                              *)

Waiting == {t \in Txs : tx[t].pc = "wait"}

\* Mutant of Served: those who wait when the cycle ends.
ServedNow == Waiting
Served == sync.serving

\* What a cycle that ends tells the callers of `served`.
Answers(served, ok) ==
  tx' = [t \in Txs |-> IF t \in served
                       THEN [tx[t] EXCEPT !.pc = IF ok THEN "acked" ELSE "committed"]
                       ELSE tx[t]]

\* The worker's state once a cycle is over.
Idle == [sync EXCEPT !.at = "idle", !.serving = {}, !.gen = 0]

Diverged == ~IsPrefix(main, remote) /\ ~IsPrefix(remote, main)
NewData == IsStrictPrefix(main, remote)

Fetches ==
  /\ sync.at = "idle" /\ ~Diverged
  /\ GitFree
  /\ main' = IF NewData THEN remote ELSE main
  /\ store' = IF NewData \/ sync.unhydrated THEN Tree(main') ELSE store
  /\ \E served \in SUBSET Waiting :
       sync' = [sync EXCEPT !.at = "push", !.serving = served, !.unhydrated = FALSE]
  /\ UNCHANGED <<remote, tx, events, touched, lapses>>

FetchDiverges ==
  /\ sync.at = "idle" /\ Diverged
  /\ GitFree
  /\ \E served \in SUBSET Waiting : Answers(served, FALSE)
  /\ UNCHANGED <<main, remote, store, sync, events, touched, lapses>>

NothingToPush ==
  /\ sync.at = "push" /\ sync.pending = 0
  /\ Answers(Served, TRUE)
  /\ sync' = Idle
  /\ UNCHANGED <<main, remote, store, events, touched, lapses>>

PushBegins ==
  /\ sync.at = "push" /\ sync.pending # 0
  /\ sync' = [sync EXCEPT !.at = "pushing", !.gen = sync.pending]
  /\ UNCHANGED <<main, remote, store, tx, events, touched, lapses>>

Pushes ==
  /\ sync.at = "pushing" /\ IsPrefix(remote, main)
  /\ GitFree
  /\ remote' = main
  /\ sync' = [sync EXCEPT !.at = "pushed"]
  /\ UNCHANGED <<main, store, tx, events, touched, lapses>>

Watermark == sync.gen

Delivers ==
  /\ sync.at = "pushed"
  /\ Answers(Served, TRUE)
  /\ sync' = [Idle EXCEPT !.pending = @ - Watermark]
  /\ UNCHANGED <<main, remote, store, events, touched, lapses>>

PushIsRejected ==
  /\ sync.at = "pushing" /\ ~IsPrefix(remote, main)
  /\ GitFree
  /\ Answers(Served, FALSE)
  /\ sync' = Idle
  /\ UNCHANGED <<main, remote, store, events, touched, lapses>>

PeerPushes ==
  /\ Disturbed
  /\ \E k \in Keys : remote' = Append(remote, [by |-> Peer,
                                             tree |-> [Tree(remote) EXCEPT ![k] = Peer]])
  /\ UNCHANGED <<main, store, tx, sync, touched, lapses>>

-----------------------------------------------------------------------------
(* Failures: of one operation, and of the process.                         *)

\* The flags in memory when the step of a commit fails.
Residue(t) ==
  LET reached == [start |-> {"started"}, created |-> {"created"}, merged |-> {"merged"}]
      pc == tx[t].pc
  IN (tx[t].mem \cup IF pc \in DOMAIN reached THEN reached[pc] ELSE {})
       \ IF pc = "merged" THEN {"rehydrated"} ELSE {}

\* Flags that the store accepts.
Valid(flags) ==
  /\ "created" \in flags => "started" \in flags
  /\ {"hydrated", "rehydrated", "merged"} \cap flags # {} => "created" \in flags
  /\ ~({"merged", "rehydrated"} \subseteq flags)

\* The failure is reconciled; saving the outcome may fail too.  A load that had
\* begun has saved its flag, with all the others, before.
FailCommit(t) ==
  /\ Disturbed
  /\ tx[t].pc \in CommitSteps
  /\ \E begun \in IF tx[t].pc = "load" THEN BOOLEAN ELSE {FALSE} :
       LET left == IF begun THEN tx[t].mem \cup {"rehydrated"} ELSE Residue(t)
           after == Reconciled(t, left)
       IN /\ \E saved \in {Valid(after), FALSE} :
               tx' = [tx EXCEPT ![t].pc = "open",
                        ![t].mem = IF saved \/ Exists(t) THEN after ELSE left,
                        ![t].dur = IF saved THEN after ELSE IF begun THEN left ELSE @]
          /\ store' \in {store} \cup IF begun THEN {Tree(tx[t].branch)} ELSE {}
  /\ UNCHANGED <<main, touched, lapses>> /\ Unsynced

FailCleanup(t) ==
  /\ Disturbed
  /\ tx[t].pc \in CleanupSteps
  /\ tx' = [tx EXCEPT ![t].pc = "open", ![t].op = "none"]
  /\ UNCHANGED <<main, store, touched, lapses>> /\ Unsynced

\* The branch may have been moved, the marker set in memory only, or the
\* database replaced by a copy of main or by none.
FailRefresh(t) ==
  /\ Disturbed
  /\ tx[t].pc \in RefreshSteps
  /\ \E marked \in IF tx[t].pc = "mark" THEN {{}, {"refreshing"}} ELSE {{}},
        left \in {tx[t].db} \cup IF tx[t].pc \in {"swap", "validate"} THEN {Tree(main), None} ELSE {} :
       tx' = [tx EXCEPT ![t].pc = "open", ![t].before = None, ![t].mem = @ \cup marked,
                        ![t].db = left, ![t].dur = IF tx[t].pc = "swap" THEN RecordKept(t) ELSE @]
  /\ lapses' = IF tx[t].pc = "reset" /\ ~Exists(t) THEN lapses ELSE lapses \cup {<<t, "changes">>}
  /\ UNCHANGED <<main, store, touched>> /\ Unsynced

HydrationFails ==
  /\ sync.at = "idle" /\ ~Diverged /\ (NewData \/ sync.unhydrated)
  /\ GitFree
  /\ main' = IF NewData THEN remote ELSE main
  /\ \E served \in SUBSET Waiting : Answers(served, FALSE)
  /\ sync' = [sync EXCEPT !.unhydrated = TRUE]
  /\ UNCHANGED <<remote, store, events, touched, lapses>>

\* Main was moved, and the tree could not be checked out: the next attempt, in this
\* cycle or a later one, finds nothing new to load.
CheckoutFails ==
  /\ sync.at = "idle" /\ NewData
  /\ GitFree
  /\ main' = remote
  /\ \E served \in SUBSET Waiting : Answers(served, FALSE)
  /\ sync' = [sync EXCEPT !.skipped = Len(remote)]
  /\ UNCHANGED <<remote, store, events, touched, lapses>>

\* The remote is not reached, or its answer to a push is lost.
CycleFails ==
  /\ Disturbed
  /\ GitFree
  /\ \/ /\ sync.at = "idle"
        /\ \E served \in SUBSET Waiting : Answers(served, FALSE)
        /\ UNCHANGED remote
     \/ /\ sync.at = "pushing"
        /\ Answers(Served, FALSE)
        /\ remote' \in {remote} \cup IF IsPrefix(remote, main) THEN {main} ELSE {}
  /\ sync' = Idle
  /\ UNCHANGED <<main, store, touched, lapses>>

\* What recovery compares the database with.
Baseline(t) == IF "refreshing" \in tx[t].dur THEN Tree(main) ELSE Tree(tx[t].base)

Difference(t) ==
  LET db == tx[t].db  tree == Baseline(t)
      Kind(k) == IF tree[k] = Absent THEN "add" ELSE IF db[k] = Absent THEN "del" ELSE "mod"
  IN {<<Kind(k), k>> : k \in {j \in Keys : db[j] # tree[j]}}

\* What a transaction changed and changed back is not recovered as a change.
Forgets(t, k) == tx[t].db[k] = Baseline(t)[k]

Survives(t) ==
  /\ tx[t].pc \in {"open"} \cup Locked \cup CleanupSteps
  /\ tx[t].db # None /\ Missing \notin tx[t].dur
  /\ Difference(t) # {}

Recovered(t) ==
  IF Survives(t)
    THEN [tx[t] EXCEPT !.pc = "open", !.op = "none", !.before = None,
                       !.log = Difference(t), !.stale = {}, !.mem = tx[t].dur \ {"hydrated"}]
  ELSE IF tx[t].pc \in {"new"} \cup Outcomes THEN tx[t]
  ELSE [NoTx EXCEPT !.pc = IF tx[t].pc = "wait" THEN "committed" ELSE "lost"]

\* The process restarts: main.lbug is built again, the open transactions are
\* found by their branches and databases, and a push is asked for.
Crash ==
  /\ Disturbed
  /\ store' = Tree(main)
  /\ tx' = [t \in Txs |-> Recovered(t)]
  /\ sync' = [sync EXCEPT !.at = "idle", !.pending = 1, !.gen = 0,
                          !.serving = {}, !.unhydrated = FALSE, !.skipped = 0]
  /\ lapses' = lapses
       \cup {<<t, "reopen">> : t \in {u \in Txs : Survives(u) /\ CommittedBy(u, main)}}
       \cup {<<t, "changes">> : t \in {u \in Txs : Survives(u) /\
              \/ tx[u].pc \in RefreshSteps \ {"reset"}
              \/ tx[u].pc = "reset" /\ Exists(u)
              \/ "refreshing" \in tx[u].dur}}
  /\ touched' = [t \in Txs |-> [k \in Keys |->
                  IF Survives(t) /\ Forgets(t, k) THEN None ELSE touched[t][k]]]
  /\ UNCHANGED <<main, remote>>

-----------------------------------------------------------------------------

InCommit(t) ==
  \/ CommitStarts(t) \/ CommitCreates(t) \/ CommitRecords(t) \/ CommitLoads(t)
  \/ CommitMerges(t) \/ CommitRecordsMerge(t)

InRefresh(t) ==
  \/ RefreshResets(t) \/ RefreshMarks(t) \/ RefreshSwaps(t) \/ RefreshAborts(t) \/ RefreshEnds(t)

Called(t) ==
  \/ BeginTransaction(t) \/ Mutate(t) \/ RollbackTransaction(t)
  \/ RefreshBegins(t) \/ RefreshIsNotSaved(t)
  \/ CommitResumesCleanup(t) \/ CommitOfNothing(t) \/ CommitFindsMerge(t)
  \/ CommitIsNotUpToDate(t) \/ CommitBegins(t)

CycleRuns == NothingToPush \/ PushBegins \/ Delivers
CycleLocks == Fetches \/ FetchDiverges \/ Pushes \/ PushIsRejected

Fails(t) == FailCommit(t) \/ FailCleanup(t) \/ FailRefresh(t)

Next ==
  \/ \E t \in Txs : \/ Called(t) \/ InCommit(t) \/ InRefresh(t)
                    \/ DropBranchDB(t) \/ DeleteBranch(t)
                    \/ Collect(t) \/ Fails(t)
  \/ CycleRuns \/ CycleLocks \/ PeerPushes
  \/ HydrationFails \/ CheckoutFails \/ CycleFails \/ Crash

Spec == Init /\ [][Next]_vars

-----------------------------------------------------------------------------
(* The abstract history.                                                   *)

\* A database that a refresh builds again, after a clean-up dropped it.
Rebuilt(r) == r.pc = "validate" /\ Missing \in r.dur

\* How far the transaction with record r is: until its database is dropped, and
\* again when a refresh has built it, it is open.
StageOf(r) ==
  IF r.pc \in {"wait", "committed"} THEN "committed"
  ELSE IF r.pc \in {"acked", "rolledback"} THEN r.pc
  ELSE IF r.pc \in {"collected", "lost"} THEN "gone"
  ELSE IF r.pc = "new" \/ (r.db # None /\ ~Rebuilt(r)) THEN "open" ELSE "closing"

H == INSTANCE SerialHistory
       WITH stage <- [t \in Txs |-> StageOf(tx[t])],
            lapsed <- {t \in Txs : Lapsed(t, "changes") \/ Lapsed(t, "reopen")}

\* Branches, databases, logs and flags, with every failed attempt, retry, refresh
\* and recovery among them, are to the users of the graph one history of commits:
\* each transaction's changes all at once or not at all, and over what it saw.
ImplementsSerialHistory == H!Spec

-----------------------------------------------------------------------------
(* Properties.                                                             *)

\* Every durable record is one the store's validation accepts, and the
\* variables have their types.
TypeOK ==
  /\ main \in Seq(Commits) /\ remote \in Seq(Commits)
  /\ store \in Trees
  /\ tx \in [Txs -> [pc : Steps, op : {"none"} \cup DOMAIN AfterCleanup,
                     branch : Seq(Commits), db : Trees \cup {None}, base : Seq(Commits),
                     log : SUBSET (Kinds \X Keys), stale : SUBSET Keys, mem : SUBSET Flags,
                     dur : {flags \in SUBSET Flags : Valid(flags)} \cup {{Missing}},
                     before : Trees \cup {None}]]
  /\ events \in 0 .. MaxEvents
  /\ sync \in [at : {"idle", "push", "pushing", "pushed"}, pending : Nat,
               gen : Nat, serving : SUBSET Txs, unhydrated : BOOLEAN, skipped : Nat]
  /\ touched \in [Txs -> [Keys -> {None} \cup Touches]]
  /\ lapses \subseteq Lapses

\* What the transaction made of the elements is what `tree` has ...
Wanted(tree, t) == \A k \in Keys : touched[t][k] # None => touched[t][k].want = tree[k]
\* ... and what some commit of `history` has.
Holds(history, t) == \E i \in DOMAIN history : Wanted(history[i].tree, t)

\* What a commit that was answered made is on main (CommitTransaction, through every
\* failed attempt, retry, refresh and resumed clean-up): unless a refresh was
\* interrupted or a restart opened the transaction again after its merge.
CommittedIsOnMain ==
  \A t \in Txs :
    tx[t].pc \in {"wait", "committed", "acked"} =>
      Holds(main, t) \/ Lapsed(t, "changes") \/ Lapsed(t, "reopen")

\* WithAck: a caller that waited and was told success finds its commit in the
\* remote, whatever the worker was doing when it asked.
AckedIsPushed ==
  \A t \in Txs : tx[t].pc = "acked" /\ CommittedBy(t, main) => CommittedBy(t, remote)

\* No update is lost: what a commit changes of main is what its transaction
\* did, over a value that the transaction had seen or over none, although main
\* moved while it worked and its log was applied again.
NoOverwrite ==
  \A i \in 2 .. Len(main) :
    LET t == main[i].by  was == main[i - 1].tree  is == main[i].tree
    IN \/ t = Peer \/ Lapsed(t, "changes") \/ Lapsed(t, "reopen")
       \/ \A k \in Keys : is[k] # was[k] =>
            \E saw \in Contents :
              touched[t][k] = [saw |-> saw, want |-> is[k]] /\ was[k] \in {saw, Absent}

\* Readers of main.lbug see git main once no partial commit, which has a flag
\* to say so, and no failed load of the worker is left: it is flagged, or main
\* has not moved since the worker's checkout failed.
StoreIsMain ==
  \/ store = Tree(main)
  \/ sync.unhydrated \/ sync.skipped = Len(main)
  \/ \E t \in Txs : {"rehydrated", "hydrated"} \cap tx[t].mem # {} \/ Lapsed(t, "hydrate")

\* A restart drops an open transaction only when nothing of it can be lost: it
\* is on main, or main has held what it wants, at every step of a commit,
\* a refresh or a clean-up, until that drops its database, and after a refresh
\* that built it again.
RecoveryKeepsChanges ==
  [][\A t \in Txs :
       StageOf(tx[t]) = "open" /\ tx'[t].pc = "lost" =>
         Holds(main, t) \/ Lapsed(t, "changes")]_vars

=============================================================================
