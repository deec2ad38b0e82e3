----------------------------- MODULE MCWorkitem -----------------------------
(* Small instances of Workitem. *)
EXTENDS Workitem, TLC

CONSTANTS w1, w2, n1, n2

I(type, target) == [NoInstruction EXCEPT !.type = type, !.target = target]

\* n1 declares n2 as an output, n2 declares none.
MCOutputs == [n \in Nodes |-> IF n = n1 THEN Nodes \ {n1} ELSE {}]

MCAll == {I("complete", None), I("route_to", n1), I("route_to_output", n2),
          [I("suspend", None) EXCEPT !.cond = TRUE], [I("suspend", None) EXCEPT !.timed = TRUE]}
\* Without outputs, whose refusal is retried for ever.
MCNamed == {I("complete", None), I("route_to", n2),
            [I("suspend", None) EXCEPT !.cond = TRUE]}

\* FanOut routes children to a node by name.
MCRoutes == {I("route_to", n1)}
=============================================================================
