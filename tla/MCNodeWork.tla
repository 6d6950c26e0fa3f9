------------------------------ MODULE MCNodeWork ------------------------------
(* A small instance of NodeWork: a library file with a tester, and a second *)
(* file beside it that must export something.                               *)
EXTENDS NodeWork, TLC

CONSTANTS a, b, t, fa, fb, ta

MCNode == {a, b, t}
MCTested == t :> a
MCDependsOn == (a :> {}) @@ (b :> {}) @@ (t :> {a})
MCMaxRetries == (a :> 1) @@ (b :> 0) @@ (t :> 0)
MCOutput == (a :> fa) @@ (b :> fb) @@ (t :> ta)
MCTestFile == (a :> ta) @@ (b :> NoFile) @@ (t :> NoFile)
MCWrites == {<<fa, "broken">>, <<fa, "good">>, <<ta, "broken">>,
             <<fb, "types">>, <<fb, "partial">>, <<fb, "good">>}
=============================================================================
