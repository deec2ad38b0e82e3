# A verification of the gideas platform

This directory models the control of the gideas platform in TLA+, checks the
models with TLC on small instances and proves what holds for every instance with
TLAPS. Paths are relative to the repository's root; `PROJECT.json` maps every
definition to the lines it stands for.

- [The system](#the-system)
- [The models](#the-models)
- [What is checked](#what-is-checked)
- [What is proved](#what-is-proved)
- [Where the code differs from what it says](#where-the-code-differs-from-what-it-says)
- [Plan](#plan)
- [Not modelled](#not-modelled)

## The system

A *flow* is a set of nodes that work on *Workitems*. Every node runs as a pod: a
handler written against the SDK beside a sidecar, which is its only contact with
the platform.

| component | state | operations | talks to |
|---|---|---|---|
| Operator (`platform/operator`) | Workitem objects in the Kubernetes API server, read through an informer cache | reconcile a Workitem's phase; `SubmitResult`, `CreateWorkitem`, `CreateChildWorkitem`, `RouteChild`, `ResumeWorkitem` | calls a node's sidecar (`AssignWork`, blocking); asks Archivist and Librarian for contracts |
| Law reconciler (in the operator) | Law resources with a finalizer and a status; a work queue | validate, create, update and retire a law at the Librarian | API server, Librarian |
| Sidecar (`platform/sidecar`) | a session per assignment with its inactivity timer and the children it saw created; an in-memory mirror of the node's queue | `AssignWork`, `PauseTimer`, `ResumeTimer`, `Heartbeat`, proxies with the children's authorisation; store operations of the mirror | Operator, the node's handler, Queue service, Event Bus, Archivist |
| SDK (`sdk/go`) | none that lasts | `FanOut`, `AwaitAll`, `WaitForDecision`, graph transactions | its sidecar, Event Bus |
| Governance nodes (`nodes`: forge, refine, quench, appraisal, sort, HITL) | nothing of their own: everything is in the Archivist's records | one handler each, per assignment: make a version, review it, treat feedback, stamp, route | Archivist, Librarian, Operator, through the sidecar |
| law-applicator (`nodes/law-applicator`) | none | petitions: create, retire, demote a law | Librarian |
| Queue service (`platform/queue`) | the Queue objects with the leases of their shards; the freshest mirror, in memory | `Enqueue`, `Claim`, `Release`, `Decide`, sweep, register, heartbeat, evict | the stores of all living shards |
| Event Bus (`platform/eventbus`) | the rows of each channel, a counter per channel, the subscribers' buffers | `Publish`, `Subscribe`, retention | everyone publishes; Ledger, Monitor, SDK subscribe |
| Friction Ledger (`platform/frictionledger`), Monitor (`platform/monitor`) | checkpoint; friction events; which thresholds were crossed, in memory; metrics | the subscription loop; the evaluation of thresholds | Event Bus |
| Cartographer (`platform/cartographer`) | a git repository, a graph database per branch, transactions | begin, mutate, commit, refresh, roll back, collect, recover, sync | a git remote |
| Archivist (`platform/archivist`) | versions of artefacts, stamps on them, feedback items with their history | `StoreArtefact`, `StampArtefact`, `AddFeedback`, the feedback transitions, `LinkRuling` | SQLite |
| Librarian (`platform/librarian`) | the tables `laws`, `law_applies_to`, `law_versions`; groups, disputes | `ReplicateLaws`, `WriteLaw`, `RetireLaw`, `GetLaw` | SQLite |
| Federation (`platform/federation`) | members and subscribers | publication of laws between flows | SQLite |

What is hard in it, and what makes each part correct:

- **Operator.** Up to ten reconciles run at once and handlers call in while their
  item's own reconcile blocks on them. Every read may be stale, several decisions
  are taken on one read and applied to another, a failed write is often ignored and
  the operator may die between any two writes. An item must not be taken from the
  handler that works on it, nor lost, nor exceed its budget, and must not wait for
  ever.
- **Queue.** A write is a series of independent calls, each of which may be lost,
  never rolled back; a background sweeper repairs the shards from one of them
  without the items' locks, and shards restart empty. An acknowledged item must stay
  readable, be granted once, and not go back to an older parking.
- **Event Bus and consumers.** Insert and fan-out are two steps, replay and live
  delivery two sources, publishers repeat unacknowledged requests, consumers save
  after they handled, and what the Ledger has announced it only remembers in memory.
  Numbers must not collide, replay must skip nothing, buffers may lose only what they
  drop, checkpoints must name what was handled, a crossed threshold must be announced.
- **Sidecar and SDK.** A call is ended by its handler, by a timer, by its caller or by
  a dead process, and a handler that does not look at its context goes on beside its
  successor, whose timer and whose children its calls then reach: they name the
  Workitem, not the assignment. A list of children lags, a stream of events begins
  late and may close. To the operator this must look like one assignment at a time.
- **Governance cycle.** Six handlers read and write one artefact's records in separate
  calls, and the operator repeats a handler from its start when it fails. What leaves
  the cycle must carry earned stamps and judged feedback; rulings must bind, and
  rejections must end.
- **Laws.** The reconciler works on a lagging copy, its calls fail or lose their
  answers, it may die between any two, and petitions write the same tables in between.
  No law may stay in the Library without the resource it came from.
- **Cartographer.** A commit moves files, git, the main database and durable flags
  one after another, with recovery, collection and retries able to find any prefix
  of that. An acknowledged commit must be on main, and pushed.

`PROJECT.json` lists the single hazards with the line at which each bites.

## The models

### Workitem: the operator

`Workitem.tla` models `workitem_controller.go`, `scheduler.go` and the RPCs of
`operator_server.go` that write a Workitem's status.

| model | code |
|---|---|
| `store`, `cache` | the API server's objects and the manager's informer copies; `Informer` is a watch event |
| `Update` | `Status().Update`: refused (no step) unless the copy it is based on is the latest |
| `pc`, `plan`, `Workers` | where the worker of a key is and what it decided on an earlier read; `MaxConcurrentReconciles` |
| `Claim`, `ClaimOverBudget`, `Assign`, `AssignFails`, `Revert` | `reconcilePending` and `dispatcher.Assign` |
| `RunningTimeout`, `Fail` | `reconcileRunning`, `failWorkitem` |
| `Decide`, `NextSteps`, `Apply` | `reconcileRouting`: `CalculateNextStep` on the first read, the write on the refetched one |
| `SuspendTimeout`, `SuspendMet`, `Resume` | `reconcileSuspended`, `resumeWorkitem` |
| `SubmitResult`, `CreateWorkitem`, `CreateChild`, `InitStatus`, `CreateFails`, `RouteChild`, `ResumeWorkitem` | the RPCs; creating an object and writing its status are two writes |
| `HandlerReturns`, `HandlerErrs`, `InactivityTimeout`, `BeginAwait`, `EndAwait` | the handler behind its sidecar and SDK |
| `zombies` | handlers that go on after their call was cancelled: the SDK's calls use a context of their own |
| `Crash` | the operator restarts with a fresh cache and cancels what it had under way |

A handler that reads and writes one object is one action: the lagging cache already
gives it any staleness its read could have. The decisions that cross a second read
are two actions. The thrash counters are represented by their sum, the only thing
ever read of them, and whether a root meets its exit contract is any answer.

### EventBus and EventConsumer

`EventBus.tla` models one channel (`eventbus_server.go`, `subscriber.go`,
`store.go`) and the publishers' drain goroutines (`pkg/eventbus/publisher.go`);
`EventConsumer.tla` adds the loop that the Ledger's `runSubscription` and the
Monitor's `channelSubscriber.run` have in common, and the Ledger's thresholds, for
events about one law with magnitude 1.

| model | code |
|---|---|
| `log`, `counter` | the events table of the channel and `Store.seq` |
| `request`, `Insert`, `FanOut` | one attempt of `publishWithRetry`: stored, then fanned out and acknowledged |
| `GiveUp`, `late`, `FanOutLate` | an attempt without an answer in 10 seconds is repeated while its handler runs on: its row may be fanned out after the repetition's |
| `abandoned` | history: the numbers of the attempts given up since the bus started |
| `sub[c]` | the server's side of a stream: replay cursor, `registry.add`, the Go channel, what was sent |
| `Replay`, `Join`, `Forward` | `Subscribe`: the replay loop, the switch, the live loop |
| `Evict`, `Restart` | retention (age and size; timestamps are the publishers'), `loadSequences` |
| `Connect`, `Handle`, `Save`, `Reconnect`, `Disconnect` | the consumer loop and its failures: the store may refuse an event, a save may fail, the process may die |
| `Friction`, `Due`, `Marks`, `Evaluate` | `QueryFrictionByLaw` and `evaluateThreshold`, which marks a tier in `crossedLaws` before it publishes and takes the mark back when that fails |
| `crossed` | `crossedLaws`, lost with the process |
| `announced`, `refused`, `rejected` | history: tiers published, tiers the last evaluation left unpublished, events the store refused |

### QueueMirror

`QueueMirror.tla` models one item of a queue: `proxy.go`, `sweep.go` and
`registry.go` of the queue service and the mirror store of the sidecar.

| model | code |
|---|---|
| `copy[h]` | the row in the memory of the sidecar at address h: generation and status |
| `boot`, `lease` | the identity a sidecar takes per boot, and the shard entries of the Queue object |
| `write` | the fan-out in progress under `lockItem`: the calls left and the answers counted |
| `EnqueueCalls` ... `DecideCalls`, `WriteEnds` | `enqueueBroadcast`, `claimBroadcast`, `releaseBroadcast`, `decideBroadcast`; one call a step, answered or lost |
| `SweepBegins`, `SweepReads`, `SweepConverges`, `SweepEnds` | `Sweep`, `planConvergence`, `planPushToReference` |
| `Joins`, `Renews`, `Lapses`, `Evicts`, `SyncReads`, `SyncApplies` | `RegisterQueue`, `HeartbeatQueue`, the lease sweep, `syncOnRegistration` |
| `ShardRestarts`, `ServiceRestarts` | what is only in memory is gone |
| `OtherEnqueue` | another item of the queue moves the freshest mirror |
| `raced` | history: a sweep or playback overlapped a write |

### GraphTransaction and SerialHistory

`GraphTransaction.tla` models the Cartographer's transactions: `transaction.go`,
`recovery.go`, `gc.go` and `sync_worker.go` over the git store. A branch is the
sequence of its commits, and a commit is its author and the tree it makes; the
content of an element is the writer that gave it.

| model | code |
|---|---|
| `main`, `remote`, `store` | `refs/heads/main` here and in the remote; the rows of `main.lbug` |
| `tx[t].branch`, `db`, `base`, `log` | the git branch, the branch database, `MainHeadAtLastSync`, the change log: a set, since the code's maps lose the order |
| `tx[t].mem`, `dur` | the milestone flags of `TransactionState` in memory and in the durable record |
| `tx[t].pc` | the step of the operation under way; the steps in `Locked` hold the git lock |
| `Mutate`, `Written` | the entity RPCs of `crud.go`; `groupChanges` and `resolveSameIDSequences` |
| `CommitBegins` ... `CommitRecordsMerge`, `CommitFindsMerge`, `CommitResumesCleanup` | `CommitTransaction` between two durable effects each, its detection of an earlier attempt, and its short cuts |
| `CleansUp`, `DropBranchDB`, `DeleteBranch` | `cleanupTransaction`, `finishTransactionCleanup`, for commit, rollback and collection |
| `RefreshBegins` ... `RefreshEnds`, `RefreshAborts` | `RefreshTransaction`, `resetBranchStoreFromWorkingTree`, `validateRefresh`, `restoreCleanBranchStore` |
| `Collect` | `gcTick`, for a transaction whose lifetime is over |
| `sync`, `Fetches` ... `Delivers` | `doSyncCycle`; `pending` is the generation asked for less the one delivered |
| `FailCommit`, `FailCleanup`, `FailRefresh`, `HydrationFails`, `CycleFails` | an error at any step, with what the error path reconciles, saved or not |
| `Crash`, `Recovered`, `Difference` | restart: `main.lbug` rebuilt, `RecoverOpenTransactions`, the catch-up push |
| `touched`, `lapses` | history: what a transaction saw and made of an element, and where claims about it end |

`SerialHistory.tla` is what the users of the graph may rely on: main is a history of
commits that only grows; a transaction adds one commit at most, all it changed at
once and nothing else, over what it had seen; who is answered finds it on main and,
if it waited, in the remote; who rolled back left nothing; and a restart drops no
transaction and forgets no change that main does not have. It has no branches,
databases, logs, flags, steps or locks. `GraphTransaction` implements it
(`ImplementsSerialHistory`): `H == INSTANCE SerialHistory` shares `main`, `remote` and `touched`;
a transaction is open there until its database is dropped, and closing until its branch is gone (`StageOf`);
those of which a refresh did not end, or that a restart opened again, have *lapsed*,
and the history promises the others only that they do not suffer from it. A commit is
there one step, the fast-forward; a refresh, a failure or a retry is none.

### Assignment, Session, HumanDecision, AwaitChildren, Handlers

`Assignment.tla` is what the operator may rely on when it pushes a Workitem: a call is
answered once, one is open at a time, a refused call reaches no handler, and an answer
in the handler's name is given only after that handler returned. The other four model
the code that has to provide it, for one Workitem in one sidecar.

| module | models |
|---|---|
| `Session.tla` | the sidecar's `session.go` and `AssignWork`: sessions, timers, cancellation, the three answers of the select, `PauseTimer`, `ResumeTimer`, `Heartbeat` |
| `HumanDecision.tla` | a HITL handler: `Enqueue`, `PauseTimer`, `WaitForDecision`, `ResumeTimer`, dispatch; the queue, the publisher and the bus around it |
| `AwaitChildren.tla` | a parent's handler: `FanOut`, `AwaitAll` by stream or by poll, the collection of the children's artefacts; the operator's list, the bus, the children |
| `Handlers.tla` | the composition, the fairness and the refinement `A == INSTANCE Assignment` |

| model | code |
|---|---|
| `call`, `holder`, `gone` | the `AssignWork` calls and their answers; the session in the map; callers that left |
| `timer`, `paused`, `timedOut`, `cancelled` | the `time.AfterFunc` of a session, which may have fired with its function still to run; the flags under its mutex; its context |
| `pc` | where the handler of each call is; it goes on after its call was answered |
| `item`, `minted`, `news` | the Workitem's parking in the queue (what `QueueMirror` promises of it), decisions submitted and not yet published |
| `live`, `inbox`, `missed` | registered subscriptions, what is in their streams, and (history) who missed the decision of their wait |
| `phase`, `shown`, `creator` | the children, what the operator's cache shows of them, whose handler made them |
| `childIDs`, `Forget` | `TrackChild` and `AuthorizeChildAccess`: the children a session has recorded, gone with it |
| `stream`, `events`, `seen`, `listed` | `awaitStreaming`: the subscription, its events, what it knows to have ended, its snapshot |

`Wired` says whether the QueueManager was given a client of the bus. The SDK's tests
give it one; the main functions of the HITL nodes do not (see below), so the
`handlers` run sets it and the `await` run, which is about parents, does not need it.

### Archivist and FoundryCycle

`Archivist.tla` is one artefact's records and the transactions that write them.
`FoundryCycle.tla` is the handlers of a cycle, each call an action; what a model, a
reviewer or a human answers is any answer.

| model | code |
|---|---|
| `head`, `stamps`, `items` | the latest version (a version is its content, as the Archivist identifies it by its hash), the stamps table, the feedback items |
| `Store`, `ResolvedStale` | `StoreArtefact` with the resolution of the feedback the new version supersedes |
| `Stamped`, `Raised`, `Transition`, `LinkRuling` | `StampArtefact`, `AddFeedback`, the feedback transitions with the states each starts from, `LinkRuling` |
| `flow` | the deployed cycle: Sort's `nodeOrder`, the laws in force |
| `node`, `work` | where the Workitem is; the live handler with what it has read, and the one that outlived its assignment |
| `Begin`, `Fails`, `Outlives`, `LateEnds` | the operator assigns, a handler fails and is repeated, goes on late, ends |
| `ForgeStores`, `Triages`, `RefineStores` | forge; refine's triage of each item and its new version |
| `Reviews`, `Appraises`, `Checks`, `Raises`, `Attests`, `Signs` | quench and appraisal: verdicts on treated items, the review, its findings, stamps |
| `Approves`, `Cancels`, `Decides`, `Rules` | the HITL nodes |
| `ChecksDeadlock`, `DecidesRoute`, `Routes`, `Exits` | sort, and the operator's check of the exit contract |
| `reviewed`, `outlived` | history: what a review found nothing against; a handler outlived its assignment |

Sort's route is the code's own cascade over the records it read. The cycles checked
are the two of `nodes/haiku-manifests` and the smaller one again with an appraisal
that outlives its assignment.

### LawLibrary

`LawLibrary.tla` is one law: the resource in the cluster, the reconciler, the
Librarian's three tables and the law-applicator.

| model | code |
|---|---|
| `cr`, `cache`, `stale`, `known` | the resource, the informer's copy, whether it or the copy worked on is behind, the GovernedArtefacts |
| `queued`, `worker` | the work queue and the call of `Reconcile` that is due |
| `row`, `scope`, `versions` | the law's rows in `laws`, `law_applies_to` and `law_versions` |
| `MayCreate`, `CreateLaw`, `UpdateLaw`, `RetireLaw` | the statements of `store/sqlite/laws.go` with the keys they can break |
| `Held` | `GetLaw`: the row's goal and tier with the newest version's representations |
| `FirstCall`, `AddFinalizer`, `ValidateAppliesTo`, `Look`, `Create`, `Update`, `Retire`, `RemoveFinalizer`, `PersistStatus` | `Reconcile`, call by call; each may fail, lose its answer or conflict |
| `Retried`, `Restart` | requeue after an error; the operator dies |
| `Hear`, `ApplyRetire`, `ReadRow`, `ReadHead`, `WriteBack` | a petition; the demotion reads in two queries and writes the result back |

## What is checked

Definitions named `MC...` and the cfg files give the constants their values. A
bound (`MaxFaults`, `MaxEvents`, `MaxInserts`, `MaxBoots`, `MaxGen`, `MaxWrites`,
`MaxItems`, `MaxEdits`, `MaxPetitions`) limits how often the environment acts, never
what the code does when it acts.
Systems that may really stop (nothing submitted, all items terminal, bound
reached) are checked without deadlock detection.

| run | instance | shows |
|---|---|---|
| `obedient` | 2 items, 2 nodes, budget 2, 2 workers, fair | what rests on handlers that stop when cancelled: terminal phases are final, a root completes at an exit node and leaves Routing as its last instruction says; `AwaitEnds` |
| `live` | 1 item, 2 nodes, every instruction, zombies, one crash, fair | the budget, `HandlerOwnsItem`, `NoLostUpdate`; no item stays Running for ever |
| `bus` | 2 publishers, 3 events, batch and buffer of one, a filter, retention, 2 faults | replay and live delivery are complete |
| `delivery` | 3 events, one that cannot be handled, 2 tiers, 2 faults, fair | order per publisher, checkpoints, announced crossings; the consumer gets back, what is buffered is handled |
| `mirror` | 3 shards, 2 parkings, 3 writes, one fault, symmetric | `AckedIsVisible`, `ClaimIsExclusiveApart`, `GenerationNeverFalls` |
| `converge` | 2 hosts with 2 boots, one parking, one fault, fair | `Converges` |
| `loss` | 2 shards, no fault | `AckedSurvives` fails |
| `transaction` | 2 transactions, one element, one long log, one event (failure, restart or foreign push), symmetric | the Cartographer implements `SerialHistory`; answered commits are or will be pushed, `NoOverwrite`, `StoreIsMain`, `RecoveryKeepsChanges` |
| `handlers` | 2 calls, one child, one fault, an HITL handler or a parent, fair | the sidecar implements `Assignment`; a session knows its own children; a call whose timer runs ends, and so does a wait whose decision was heard |
| `await` | 1 call, 2 children, 2 faults, fair | `AwaitAll` answers when all children ended and not before |
| `cycle` | 3 cycles, 2 contents, a law of each kind, 2 items, threshold 3, one fault, fair | what leaves is stamped and judged, stamps are earned, verdicts and rulings stand, rejections are bounded, fixes are judged |
| `law` | 2 contents, 3 edits, one petition, one fault, fair | the Library holds no law without its resource; a deleted law leaves it, an edit reaches it |

Why the bounds are enough. Two items make a parent and a child, and two workers are
the least that lets both run; a budget of two has its last visit within
reach. A batch and a buffer of one make every event a batch boundary and every
second event an overflow; three events are one before, one in and one after the
switch. Three shards are the least with a majority that is not everyone, two
parkings the least that can be confused, and three writes are an enqueue, a claim
and a third that meets what they left. The converge run needs restarts, hence two
boots, and pays for them with two hosts. Two transactions on the same element
conflict in every way the code distinguishes (both add, one modifies what the other
deletes, both delete); a log of two entries has every pair of operations on it, and
it grows while the other transaction has no log or, with one entry, is committing,
refreshing or closed (`ShortLogs`): every order of two commits is still there, two
half-written logs side by side are not. One event
(`MaxEvents`) at any step of any operation is every single failure; that a second
failure hits the repair of the first is not explored.

Two friction events beside one that cannot be handled cross one tier each, before and
after a restart forgot the marks, in either order of their numbers. A Workitem's second assignment is
the one a late handler can meet; a third meets nothing new, since sessions know only
whether they are the registered one. Two children tell "one ended" from "all ended"
and let a list or an event stream lack one. Two contents are the least that a refine
can alternate between, and with threshold 3 an item is rejected, rejected again and
deadlocked; two items let a review find one while another is under treatment. Three
edits are a creation, a rewrite or deletion, and what follows either; the petition may
fall between any two calls of the reconciler.

Fairness. The controller's queue is first in first out and requeues failures, so a
key that keeps needing a reconcile gets one (`SF` on `Reconcile`, since a worker may
be taken and freed in between); writes, watch events, dispatches and polls end; a
handler returns or is timed out by its sidecar. Publishers repeat their requests, and a
stream's goroutines and the consumer's loop run. In the queue a
write in progress goes on, both sweeps and the heartbeats tick, and the lease of a
past boot runs out. In a sidecar the timers and goroutines and a handler's own steps go
on, a handler whose context is cancelled may be waited for or die, and the publisher
and the operator's informer deliver. In the cycle the operator assigns, checks the
exit contract and a live handler works. For laws the informer delivers and the work
queue is served. Faults are bounded, and nothing is assumed of the environment: no one
need submit, resume, claim, decide or petition, and no child need end.

What the properties leave out. `TerminalIsFinal`, `FollowsInstruction` and
`RootCompletesAtExit` are about handlers that stop when cancelled; `SubmitResult`
checks neither phase nor caller, so the claims are not made of zombies.
`AwaitEnds` needs more workers than waiting parents. `AckedIsVisible` and
`ClaimIsExclusiveApart` are about histories in which no sweep or playback
overlapped a write of the item. `Resumes` is about a channel without retention.
`Converges` is about times at which the freshest mirror is living.
`CrossingIsAnnounced` excuses a tier whose last evaluation failed or died on an event
that a later number had overtaken (`refused`), and `BufferedIsHandled` what the
consumer's own store refused. `DecidedWaitEnds` is about waits in which a decision was
published while their stream was registered, `AwaitSeesAll` about an open stream and a
complete list. `AttestedWasReviewed` assumes that a review that did not fail is there
when appraisal collects it (`ReviewsArrive`); it, `CompletedIsReviewed`, `RuledIsObeyed`,
`RejectionsAreBounded` and `FixIsJudged` are about histories in which no handler outlived its assignment. `Settles` excuses
an edit whose content the law had before, one a petition changed since, and one
rejected for an artefact that did not exist then. In
`GraphTransaction` the claims about a transaction end when a refresh of it moves its
branch and does not end, or drops an element it recreated (`"refresh"`), when a
restart opens it again after its merge (`"reopen"`), or when its commit skips a load
of the main database that something had undone (`"hydrate"`): what happens then is
listed [below](#where-the-code-differs-from-what-it-says). A refresh that failed or
died before it moved the branch counts too when the branch has a commit of an earlier
attempt. `CrossingIsAnnounced` asks for nothing while a law has no friction at all.

## What is proved

The theorems hold for every value of the constants that satisfies the `ASSUME` of
the module (which says only of what kind each is). Where one assumes more, that is said with it.

**Workitem_proofs.** `TypeCorrect`, then `Invariance`: `IInv` is inductive. The
budget alone is not: a claim counts on a cached copy, which may hold fewer visits
than the store, and a completion was decided on an earlier version. `IInv` adds, for
each item, that the cache misses at most one count and then still shows Pending
(`CacheCounts`), that a decision to complete was made within a budget no visit has
been counted against since (`PlanIsSound`), and that an item whose status was never
written is untouched (`FreshIsUntouched`). The proof has one lemma per action, and
one for the items an action is not about. From it `BudgetHolds`, `RoutingPaired`,
`HandlerKeepsItem`, and the action properties `NoUpdateIsLost` and, for obedient
handlers, `TerminalStays`. For obedient handlers two more action properties need that a
decision and the write it leads to agree on the item although they read it twice:
`RoutesAreCurrent` (a cache that shows a root in Routing while it is there shows its present
instruction, and a pending decision is one that instruction asks for) gives
`InstructionIsFollowed` and `RootsCompleteAtExit`.

**EventBus_proofs.** `NumbersInvariant`: the counter is not below any row's number
and no two rows share one. `CounterStaysAhead` and `InsertNeverCollides` follow. A
restart keeps the invariant because `MaxSequence` bounds the rows that are left; the
maximum of a bounded set of numbers exists by well-foundedness of the naturals.

**EventConsumer_proofs.** `TypesHold`, then `BusInv`, which says for each stream what
the bus still owes its subscriber: everything retained up to the cursor was sent;
everything numbered since it was registered is in its buffer, sent, dropped, or in the
hands of a handler that has yet to fan out; and what is sent, buffered and in those hands is,
for each publisher, in the order of the numbers, but for the rows of attempts it gave up, whose
numbers are below the one it waits for. A batch is the least numbers above the
cursor, so that none below its last is left out.
`ReplayMissesNothing`, `LiveMissesNothing` and `StreamsAreInOrder` follow, with or
without retention. `HandledInv` adds where the consumer's loop stands: a tier that is
marked was announced, the event in hand and the checkpoint are of rows that were counted, and
whoever is not in the middle of an evaluation has answered for every tier that is
due or will be handed an event again (`MarksOk`). `CheckpointsStandForRows` and
`CrossingsAreAnnounced` assume a channel without retention, as the `delivery` run does:
with it the row a checkpoint names may be gone, and the event that would bring a
crossing back with it.

**QueueMirror_proofs.** `StoreInvariant`: the types of all parts, that an enqueue in
progress has minted its generation, and that the sweeper acts only on shards that
answered. `TypesHold` follows, and so does `GenerationsNeverFall`: each operation of
a store either keeps a generation, raises it, or removes the row
(`StoreOperations`), and every writer changes a store by one of them.
`AckedStaysVisible` is about faults. A host *serves* when its present boot is registered,
its store has the acknowledged generation and, if an enqueue was there, its own (`Reached`),
and the pass of the sweeper has heard of it or will (`Heard`). Each step leaves every
serving host serving, or is a fault and takes one (`NextCosts`): the hosts that do not
serve are no more than the faults so far. The sweeper drops only what no second shard
reports, and two serving hosts corroborate each other (`NothingDropped`). So the theorem
assumes `Enough`, two hosts more than faults; with one less it is false, as a
store that restarts empty and then leads a sweep shows on two hosts. The majority plays no part in
it: an enqueue is refused only by calls that are lost, and those are faults.
`ClaimStaysExclusiveApart` assumes `Enough` and one fault at most (`MaxFaults <= 1`). Its
invariant (`GrantInv`) tells three situations apart. Without a fault every store has the same
generation, status and worker, or is about to get them from the write in progress
(`Even`). After a lost call or a store that restarted, one host differs in anything and the
others go together (`Level`, `Odd`): they are a majority, and so refuse the second
claim. After a service that restarted in the midst of a write, the hosts differ in that write only
(`Torn`): a claim that was granted left less than half of them unclaimed, and no
later generation has been minted (`Minted`). For two faults on three shards it is false: one misses
a claim, another restarts empty and gets the first one's waiting copy from the
sweeper, and the two are a majority for the next claim (TLC finds it in 22 steps).

**Handlers_proofs.** `OneSession`: a session is registered exactly for the open call,
and a refused call has no handler (`Sessions`). Under it
`SidecarImplementsAssignment` maps every step of timers, callers, handlers and their
late calls to a step of `Assignment` or to none. `OwnChildrenAreKnown` adds that a
handler that has not begun created no child (`Recorded`), and `AwaitAllSeesAll` that
what a wait counts as ended, or has in its stream, has ended, and that the operator's
list never runs ahead of the children (`Truthful`). `TypesHold` is more than
shapes: a decision is of a generation that was minted, and no handler mints two (`MintedOnce`:
no step leads a HITL handler back to its first one). It assumes that the calls for a Workitem are
finitely many, and that `Places` holds the places of both handlers.

**FoundryCycle_proofs.** `TypeCorrect`, then two action properties that hold
whatever a late handler does: `ResolvedIsFinal` and `VerdictResolves`. The others hold while none
outlived its assignment, and need that what the one handler read is still so. `Single`
says that there is one handler, where the Workitem is (`OneHandler`), that a review is
of the head and the items still to treat are as they were read (`AsRead`), that no
item is deadlocked where sort has passed that check (`GateChecked`), and that what leaves was
decided and met its contract (`ExitDecided`). `CompletedWasReviewed`, `RulingIsObeyed` and
`RejectionsEnd` follow. `StampsAreEarned` needs one part more (`Earnt`): what an
appraisal is about to attest was reviewed, on the present head; it assumes
`ReviewsArrive`. Of the run's properties only the liveness `FixIsJudged` is left to TLC.

**LawLibrary_proofs.** `TypeCorrect`, then `NoLawOutlivesItsResource`. That the Library follows
the cluster is not inductive: a stale reconcile may write the law. `Inv` adds that a
copy not marked stale is the stored resource (`Fresh`), that a stale one is never so
far behind that it shows a law in force whose finalizer is gone, or a deleted one that
is in force again (`Behind`), what the reconciler's position says of the resource and the row
(`Position`), and that a law with a row has a version (`Recorded`).

**GraphTransaction_proofs.** Invariants built on one another, for any number
of transactions, elements, failures, restarts and foreign pushes. The one assumption is
that `None` is no tree and no record of a change (`NoneAssumption`).

- `TypesHold` includes what the store's validation says of a durable record: which
  flags may be set together and which of them a step has (`FlagsFit`, `StepFits`).
- `GitInv`: one transaction at a time is inside a commit or refresh (`OneHoldsTheLock`), and
  so nobody moves main under a step that holds the lock (`AtStep`); the base of a branch
  is a prefix of main, and the branch is on main or has one commit of its own
  transaction above its base (`Placed`).
- `StoreInv`: before a merge the branch is loaded; a load whose branch is not on main has
  a flag that says so. From it `MainDatabaseIsMain`.
- `PushInv`: as long as a transaction that will wait has something unpushed, a generation is
  asked for beyond the one a cycle under way will clear, and the callers served by a
  cycle that has pushed have nothing left to push. From it `AcksArePushed`.
- `LogInv`, `HeldInv`: the database and the log say the same of what the transaction
  did, so that recovery's difference of trees is the log again (`RestartsLoseNothing`);
  whatever says that a commit was made or merged - a flag in memory, a durable one,
  a step - implies that the branch, or main, holds what was wanted (`CommitsAreOnMain`).
- `OverInv`: a value a transaction wrote is in a history only with a commit of that
  transaction, hence unmerged work is never taken for someone else's (`Sourced`); at its base
  a touched element has the value that was seen, or none, which a refresh re-establishes by its
  comparison of main before and after (`StillSeen`); what the remote has beyond
  main is the peers'. From it `NoUpdateIsLost`.
- `SerialInv` joins these and says where the database of a transaction is (`StageFits`:
  a refresh has it, the deletion of the branch comes after its own, and who rolls back was not merged).
  Under it every step is one of `SerialHistory` or none (`TransactionsAreSerial`).
  The merge is the heart of it: the branch *ends* with all that was wanted
  (`EndsWith`), and nothing else changed above the base, which under the lock is main. A
  change is over a value that main had, as the base is a prefix of main; a transaction with a commit on
  main knows it and takes no change and no rollback; a crash drops only those of whom main has
  held all (`LostIsHeld`) and forgets only what came to nothing (`ForgottenIsNothing`).

Only model-checked: every liveness property (the prover has neither fairness nor
`ENABLED`). Every other property of the passing runs is a theorem. `CommittedIsOnMain`, which the
theorem `CommitsAreOnMain` states, is in no cfg, since the refinement says it too.
The types are proved of every component; `TypeOK` of `EventConsumer`, `Handlers` and
`GraphTransaction` is in no cfg, and TLC finds it to hold when it is added to one.

## Where the code differs from what it says

Kept as a run, with the quoted line in `PROJECT.json`:

- `loss`: a sweep that overlaps an enqueue drops the copy it missed, and the next
  one the other (`sweep.go:104`).

### Met while modelling

Each of these was reproduced with TLC on the models here, by stating what it
contradicts or by taking out the exception that excuses it:

- a child that was created and never routed keeps its parent Running for ever
  (`workitem_controller.go:446`), and a parent completes beside an active child
  (`operator_server.go:178`, `:1056`);
- an event stored during the switch from replay to live delivery reaches no one
  (`eventbus_server.go:179`);
- one publisher's events are fanned out against their numbers when it stops waiting
  after 10 seconds and repeats the request (`publisher.go:165`) while the first attempt
  is between its insert and its fan-out; `StreamInOrder` excuses those attempts by name;
- two publishers' events are fanned out against their numbers (`eventbus_server.go:117`):
  a consumer that saved the later number and died never gets the earlier event,
  or saves the earlier number last and counts the later event twice; a crossing
  due at an overtaken event waits for the next friction event;
- a stamp is applied when the review of its law never arrived: only Failed children
  count as failed, where `appraise_stamps.go:13` names what a stamp attests;
- quench's NEW feedback is neither routed nor holds up Complete, where
  `haiku-manifests/flow.yaml:21` sends unresolved feedback to refine;
- an item ruled REJECTED deadlocks again at once and its second ruling is refused, so
  the cycle does not end;
- with no client of the bus a HITL handler fails in `WaitForDecision`
  (`queuemgr/manager.go:293`), and the main functions set none (`hitl.go:48`), where
  `hitl/main.go:23` says that it "Blocks until the human decides";
- as many waiting parents as workers exhaust the operator's pool
  (`workitem_controller.go:366`, `:855`);
- a result accepted just before a timeout's second read is discarded (`:798`);
- `scheduler.go:363` refuses at the budget where `workitem_types.go:54` says
  "exceeds";
- numbers restart at 1 after all rows were evicted and the bus restarted
  (`store.go:290`), and an expired checkpoint is retried for ever
  (`frictionledger_server.go:229`);
- a sweep copies a stale waiting row over a claim of the same generation, and the
  item is granted twice (`sidecar/internal/queue/store.go:138`);
- a claim that one of three shards missed is granted again when a second shard restarts
  empty and the sweeper fills it from the first (`sweep.go:104`), with no overlap at all;
- a decision that misses the freshest shard is undone by the sweeper
  (`proxy.go:341`);
- with two shards, a claim or decision that reached one of them can never reach a
  majority again (`proxy.go:258`, `:395`);
- a transaction that creates, deletes and creates an element again loses it in a
  refresh that succeeds: `reapplyTransactionChanges` applies additions before
  deletions (`recovery.go:606`), while `resolveSameIDSequences` does guard the commit
  against that (`conversions.go:50`). For an element of main the same order makes
  every refresh of a delete and recreate ABORTED;
- a restart between the marker of a refresh and its swap compares the old database
  with current main, where `recovery.go:120` says that it "was re-hydrated from
  current main"; one between the fast-forward and its flag opens the transaction
  again though its commit is on main, where `recovery.go:221` says "the merge never
  landed".

- a refresh clears the milestones of a failed commit durably before it moves the branch
  (`transaction.go:755`); when it fails in between, the transaction takes changes again
  and the next commit finds the old commit on the branch and merges that without them, where
  `transaction.go:751` says that "clearing early is safe even if this refresh later
  fails". The proof of `CommitsAreOnMain` met it; the lapse `"refresh"` covers it.

The other lapses of `GraphTransaction`; TLC shows the first and the last when the
lapse is taken out, the other two were found by reading:

- the second refresh after an ABORTED or failed one compares main with itself
  (`transaction.go:767` moves the branch before `:780` validates), and a commit then
  overwrites the other's update; a failed commit's own content can also be taken for
  another's and abort the refresh;
- an ABORTED refresh, a move of main and a restart give the transaction deletions it
  never made, where `restoreCleanBranchStore` promises an empty difference and a
  "loud rollback" (`recovery.go:910`);
- a commit that was merged, failed in its clean-up and is finished by the collector
  is never flagged for a push (`gc.go:35`); it goes out with the next commit or
  restart;
- when another transaction's collection or a fetch reloads the main database
  (`gc.go:98`), a retried commit still skips its load (`transaction.go:543`), and the
  main database misses a commit that is on main.

Read in the code and followed by the models, without a property that states the
opposite:

- HITL and sessions: a decision published between `GetItem` and `Subscribe`, or while the stream
  reconnects, is missed (`manager.go:284`); a timer that fired and waits for the
  mutex times out a session paused meanwhile (`session.go:86`); pause and resume go by
  the Workitem, so a late handler pauses its successor; a decision of an earlier
  parking is published under the same Workitem; cancelling a queued item and deciding
  without a quorum publish nothing;
- awaiting: a closed stream answers with unfinished children (`workitem_child.go:186`);
  with no children `AwaitAll` polls for ever; a reassigned parent is refused the
  children of its first assignment; a handler without a session may not write to any;
- the cycle: a retried refine stores unchanged content; a missing markdown law stamp
  is routed to quench, which never gives it; refused items that are disputed never
  deadlock (`sort/main.go:427`); a refusal's justification is taken and stored
  nowhere; an appraiser may reject a refusal a human accepted; a cancellation
  is refused by the exit contract; the stamp `appraisal` is applied even when children
  failed; a retried appraisal raises its findings again; `StampArtefact` stamps
  whatever is head;
- laws: content that returns is skipped by `INSERT OR IGNORE` (`laws.go:217`), so that `GetLaw`
  answers one law's goal with another's representations, and a resource created again with content
  seen before fails on a primary key for ever; `RetireLaw` is not idempotent, so a
  deletion whose answer was lost, or that a petition preceded, is stuck for ever;
  `WriteLaw` of a retired law updates no row, reports success and may leave scope rows
  that block a later creation; a demotion writes back a mixture of two states, and
  over an update; a validation failure is never tried again when the missing
  GovernedArtefact appears; the LawGroup reconciler sets no finalizer, so a deleted
  group stays in the Librarian (`lawgroup_controller.go:73`);
- judiciary (not modelled): the arbiter takes the first completed child, which for a second
  dispute is an earlier one; `reconcileSuspended` ignores the condition's expression
  (`workitem_controller.go:696`) and resumes when all children are terminal, so
  sort's hold for a pending ruling (`sort/main.go:488`) spins until the budget is spent.

## Plan

Done: `Workitem`, `EventBus` with `EventConsumer`, `QueueMirror`, `Handlers`,
`FoundryCycle`, `LawLibrary` and `GraphTransaction`, each with its proofs.

To come:

1. `GraphTransaction`'s edges and `WipeGraph`.
2. The AsyncPublisher's bounded buffer and the drain at its stop.
3. Several artefacts in a cycle, and groups of laws reviewed as a bundle.
4. `Workitem` with `Assignment` as its environment: it has handlers of its own now,
   which return, err or time out as `Assignment` allows, but no step relates the two.

## Not modelled

The map covers about a ninth of the implementation's lines. Most of the rest has no control
to model: generated messages and deep copies, rendering of Kubernetes objects, single-statement
CRUD, prompts, user interfaces and command line tools. What has control and is left
out:

- the Cartographer's edges, the schema check at commit, the log's capacity,
  `ExtendTimeout`, `WipeGraph`, a restart inside `BeginTransaction` or inside recovery,
  a waiting caller's deadline; its queries and embeddings, which only read;
- the judiciary (arbiter, facilitator, codification) and the watchers and embassy: their suspensions and children are
  the environment of `Workitem` and `AwaitChildren`, and the protocols among them break
  down at the operator's resume (above), so that little can be stated that holds;
- the queue's scatter-gather reads with their page of 100 items, and the choice among several items;
- the Ledger's sums by flow and node, the Monitor's counters, the AsyncPublisher's buffer;
- the Librarian's groups, disputes and findings, each a single statement;
- Federation: bundles that are exported and imported; nothing in the repository calls its
  `SubmitPublication`;
- the flow, node, graph, group and treaty controllers: idempotent rendering from a
  spec, with no state of their own.

Contracts appear in `Workitem` as any answer of the Archivist and the Librarian; in
`FoundryCycle` the exit contract is the one of the manifests.
