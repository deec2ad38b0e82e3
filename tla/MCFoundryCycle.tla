--------------------------- MODULE MCFoundryCycle ---------------------------
(* The two cycles of src/nodes/haiku-manifests/configmaps.yaml, with the    *)
(* laws their nodes evaluate, and the smaller one again with a handler that *)
(* outlives its assignment.                                                 *)
EXTENDS FoundryCycle

Haiku == [order |-> <<"quench", "appraisal", "hitl-approval">>, plain |-> PlainLaws,
          maxItems |-> MaxItems, outliving |-> {}]
Clerk == [order |-> <<"appraisal">>, plain |-> {}, maxItems |-> MaxItems, outliving |-> {}]

MCFlows == {Haiku, Clerk, [Clerk EXCEPT !.maxItems = 1, !.outliving = {"appraisal"}]}
=============================================================================
