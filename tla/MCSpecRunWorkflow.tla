--------------------------- MODULE MCSpecRunWorkflow ---------------------------
(* Small instances of SpecRunWorkflow.                                     *)
EXTENDS SpecRunWorkflow, TLC

CONSTANTS a, b, c, d

\* Two roots, a node behind the first and one behind that and the second root;
\* listed in order, and turned around.
JoinNodes == {a, b, c, d}
JoinDeps == (a :> {}) @@ (b :> {a}) @@ (c :> {b, d}) @@ (d :> {})
InOrder == (a :> 1) @@ (b :> 2) @@ (d :> 3) @@ (c :> 4)
TurnedAround == (a :> 4) @@ (b :> 3) @@ (d :> 2) @@ (c :> 1)
BothOrders == {InOrder, TurnedAround}

OneOrder == {InOrder}
=============================================================================
