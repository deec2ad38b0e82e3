--------------------------- MODULE SerialHistory ---------------------------
(***************************************************************************)
(* What the users of the graph may rely on when they work on it in         *)
(* transactions: main is a history of commits that only grows, here and    *)
(* in the remote.  A transaction adds one commit at most, all of what it   *)
(* changed at once, over what it had seen.  Who is answered finds it       *)
(* there, who rolled back left nothing, and a restart of the service       *)
(* forgets no change that main does not have.                              *)
(*                                                                         *)
(* Nothing is promised of a transaction that lapsed, but that the others   *)
(* do not suffer.                                                          *)
(***************************************************************************)
EXTENDS Integers, Sequences, SequencesExt

CONSTANTS
  Txs,          \* identifiers of transactions
  Keys,         \* identifiers of elements
  Seeded,       \* the elements of the first commit
  Absent, Seed, Peer, Draft, None

VARIABLES
  main,         \* the commits that are read
  remote,       \* the commits in the remote
  touched,      \* what a transaction first saw of an element, and what it last made of it
  stage,        \* how far each transaction is
  lapsed        \* the transactions that lapsed

vars == <<main, remote, touched, stage, lapsed>>

Writers == Txs \cup {Seed, Peer}
Contents == Writers \cup {Absent, Draft}
Trees == [Keys -> Contents]
Tree(history) == Last(history).tree
CommittedBy(t, history) == \E i \in DOMAIN history : history[i].by = t

Init ==
  LET first == [by |-> Seed, tree |-> [k \in Keys |-> IF k \in Seeded THEN Seed ELSE Absent]]
  IN /\ main = <<first>> /\ remote = main
     /\ touched = [t \in Txs |-> [k \in Keys |-> None]]
     /\ stage = [t \in Txs |-> "open"]
     /\ lapsed = {}

\* The tree with what t made of it.
Applied(tree, t) == [k \in Keys |-> IF touched[t][k] = None THEN tree[k] ELSE touched[t][k].want]
\* Some commit of main has all that t wanted.
Holds(t) == \E i \in DOMAIN main : Applied(main[i].tree, t) = main[i].tree

-----------------------------------------------------------------------------
(* A transaction.                                                          *)

WasOnMain(k, value) == \E i \in DOMAIN main : main[i].tree[k] = value

\* t writes or deletes an element, before it has a commit; what it sees of the
\* element was on main.
Change(t, k) ==
  /\ stage[t] = "open"
  /\ CommittedBy(t, main) => t \in lapsed
  /\ \E saw \in Contents, want \in {t, Absent} :
       /\ IF touched[t][k] = None THEN WasOnMain(k, saw) \/ t \in lapsed
                                  ELSE saw = touched[t][k].saw
       /\ touched' = [touched EXCEPT ![t][k] = [saw |-> saw, want |-> want]]
  /\ UNCHANGED <<main, remote, stage, lapsed>>

\* All that t wanted goes to main at once, and nothing else; what it replaces
\* is what t saw, or nothing.
Commit(t) ==
  /\ stage[t] = "open"
  /\ ~CommittedBy(t, main)
  /\ \A k \in Keys : touched[t][k] # None => Tree(main)[k] \in {touched[t][k].saw, Absent}
  /\ main' = Append(main, [by |-> t, tree |-> Applied(Tree(main), t)])
  /\ UNCHANGED <<remote, touched, stage, lapsed>>

Goes(t, to) == stage' = [stage EXCEPT ![t] = to] /\ UNCHANGED <<main, remote, touched, lapsed>>

\* No more changes: t is being cleaned up.
Close(t) == stage[t] = "open" /\ Goes(t, "closing")

Answer(t) == stage[t] = "closing" /\ (Holds(t) \/ t \in lapsed) /\ Goes(t, "committed")

Rollback(t) ==
  stage[t] = "closing" /\ (CommittedBy(t, main) => t \in lapsed) /\ Goes(t, "rolledback")

\* It was not closed after all, and changes may follow: a refresh builds it again.
Reopen(t) ==
  stage[t] = "closing" /\ (CommittedBy(t, main) => t \in lapsed) /\ Goes(t, "open")

\* The collector, when the lifetime of t is over: its commit may be on main.
Collect(t) == stage[t] = "closing" /\ Goes(t, "gone")

\* Callers that waited are told that their commits are in the remote.
Acknowledge(served) ==
  /\ \A t \in served : stage[t] = "committed" /\ (CommittedBy(t, main) => CommittedBy(t, remote))
  /\ stage' = [t \in Txs |-> IF t \in served THEN "acked" ELSE stage[t]]
  /\ UNCHANGED <<main, remote, touched, lapsed>>

Lapse(t) ==
  /\ stage[t] \in {"open", "closing"}
  /\ lapsed' = lapsed \cup {t}
  /\ \E to \in {"open", "closing"} : stage' = [stage EXCEPT ![t] = to]
  /\ UNCHANGED <<main, remote, touched>>

\* A lapsed transaction commits what it will, though in its own name.
Stray(t) ==
  /\ stage[t] = "open" /\ t \in lapsed
  /\ \E tree \in Trees : main' = Append(main, [by |-> t, tree |-> tree])
  /\ UNCHANGED <<remote, touched, stage, lapsed>>

-----------------------------------------------------------------------------
(* The service and the remote.                                             *)

\* A restart drops a transaction only when main has held all that it wanted, or
\* it was being cleaned up, and forgets a change only when it was none.  One whose commit
\* is on main may be taken for one that is at work, and lapses.
Restarts(dropped, lapsing, forgotten) ==
  /\ lapsed' = lapsed \cup lapsing
  /\ stage' = [t \in Txs |-> IF t \in dropped THEN "gone" ELSE stage[t]]
  /\ touched' = [t \in Txs |-> [k \in Keys |-> IF <<t, k>> \in forgotten THEN None ELSE touched[t][k]]]
  /\ \A t \in lapsing : stage[t] = "open"
  /\ \A t \in dropped : stage[t] = "closing" \/ (stage[t] = "open" /\ (Holds(t) \/ t \in lapsed'))
  /\ \A t \in Txs, k \in Keys : <<t, k>> \in forgotten =>
       /\ stage[t] = "open" /\ touched[t][k] # None
       /\ \/ t \in lapsed'
          \/ ~CommittedBy(t, main) /\ WasOnMain(k, touched[t][k].want)
  /\ UNCHANGED <<main, remote>>

Pull == IsStrictPrefix(main, remote) /\ main' = remote /\ UNCHANGED <<remote, touched, stage, lapsed>>
Push == IsStrictPrefix(remote, main) /\ remote' = main /\ UNCHANGED <<main, touched, stage, lapsed>>

PeerPushes ==
  /\ \E k \in Keys : remote' = Append(remote, [by |-> Peer, tree |-> [Tree(remote) EXCEPT ![k] = Peer]])
  /\ UNCHANGED <<main, touched, stage, lapsed>>

-----------------------------------------------------------------------------

Next ==
  \/ \E t \in Txs : \/ \E k \in Keys : Change(t, k)
                    \/ Commit(t) \/ Stray(t) \/ Lapse(t)
                    \/ Close(t) \/ Reopen(t) \/ Answer(t) \/ Rollback(t) \/ Collect(t)
  \/ \E served \in SUBSET Txs : Acknowledge(served)
  \/ \E dropped, lapsing \in SUBSET Txs, forgotten \in SUBSET (Txs \X Keys) :
       Restarts(dropped, lapsing, forgotten)
  \/ Pull \/ Push \/ PeerPushes

Spec == Init /\ [][Next]_vars
=============================================================================
