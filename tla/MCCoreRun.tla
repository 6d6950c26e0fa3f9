------------------------------ MODULE MCCoreRun ------------------------------
(* Small instances of CoreRun.                                             *)
EXTENDS CoreRun, TLC

CONSTANTS a, b, c, d, t

\* Two roots, a gate behind the first, a node behind the gate and the second
\* root, and a tester the run adds for the first.
GateNodes == {a, b, c, d, t}
GateDeps == (a :> {}) @@ (b :> {}) @@ (c :> {a}) @@ (d :> {b, c}) @@ (t :> {a})
GateOrder == (a :> 1) @@ (b :> 2) @@ (c :> 3) @@ (d :> 4) @@ (t :> 5)
GateRetries == (a :> 1) @@ (b :> 0) @@ (c :> 0) @@ (d :> 0) @@ (t :> 0)
OneGate == {c}
OneTester == {t}

\* A node behind two others, which may fail one after the other, and a gate
\* at the end.
ForkNodes == {a, b, c, d}
ForkDeps == (a :> {}) @@ (b :> {}) @@ (c :> {a, b}) @@ (d :> {c})
ForkOrder == (a :> 1) @@ (b :> 2) @@ (c :> 3) @@ (d :> 4)
ForkRetries == (a :> 1) @@ (b :> 1) @@ (c :> 1) @@ (d :> 0)
ForkGate == {d}

None == {}

Resuming == {"resume"}
Everything == {"resume", "retry_session", "retry_node", "edit"}
=============================================================================
