--------------------------- MODULE MCEventConsumer ---------------------------
(* Small instances of EventConsumer for TLC. *)
EXTENDS EventConsumer, TLC

Symmetry == Permutations(Publishers)
=============================================================================
