----------------------------- MODULE MCHandlers -----------------------------
(* Small instances of Handlers. *)
EXTENDS Handlers, TLC

MCPlaces == {"begin"} \cup HumanPlaces \cup AwaitPlaces
=============================================================================
