------------------------- MODULE MCGraphTransaction -------------------------
(* Instances of GraphTransaction for TLC.  Nothing tells transactions apart. *)
EXTENDS GraphTransaction, TLC

CONSTANTS t1, t2, a

TxSymmetry == Permutations(Txs)

\* Bound: a log grows beyond one entry only while every other transaction is new,
\* commits or refreshes at most one entry, is closed by its commit, or has
\* committed, and beyond two only before the others begin.
ShortLogs ==
  \A t \in Txs : \A u \in Txs \ {t} :
    /\ Cardinality(tx[t].log) > 1 =>
         /\ tx[u].pc \in {"new", "committed"} \cup Locked \cup CleanupSteps
         /\ tx[u].op \in {"none", "commit"}
         /\ Cardinality(tx[u].log) < 2
    /\ Cardinality(tx[t].log) > 2 => tx[u].pc = "new"
=============================================================================
