---------------------------- MODULE MCLawLibrary ----------------------------
(* A small instance of LawLibrary: a law, and two ways to rewrite it.       *)
EXTENDS LawLibrary, TLC

CONSTANTS g1, g2, r1, r2, k1

MCSpecs == {[goal |-> g1, tier |-> 2, reps |-> r1, kinds |-> {}],
            [goal |-> g2, tier |-> 1, reps |-> r2, kinds |-> {k1}]}
=============================================================================
