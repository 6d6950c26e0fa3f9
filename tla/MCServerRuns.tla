----------------------------- MODULE MCServerRuns -----------------------------
(* A small instance of ServerRuns: a session of three nodes, two of which run  *)
(* side by side, a gate behind one of them.                                    *)
EXTENDS ServerRuns, TLC

CONSTANTS a, b, c

MCNode == {a, b, c}
MCDependsOn == (a :> {}) @@ (b :> {}) @@ (c :> {a})
MCOrder == (a :> 1) @@ (b :> 2) @@ (c :> 3)
MCMaxRetries == (a :> 0) @@ (b :> 0) @@ (c :> 0)
=============================================================================
