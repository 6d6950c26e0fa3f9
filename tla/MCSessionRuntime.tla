--------------------------- MODULE MCSessionRuntime ---------------------------
(* Small instances of SessionRuntime.                                        *)
EXTENDS SessionRuntime, TLC

CONSTANTS a, c, b

\* One implement node, a human gate behind it, the node the gate protects.
MCNode == {a, c, b}
MCCheckpoint == {c}
MCDependsOn == (a :> {}) @@ (c :> {a}) @@ (b :> {c})
MCMaxRetries == (a :> 1) @@ (c :> 0) @@ (b :> 1)

\* Everything the HTTP handlers may send.
AllCommands == Command
=============================================================================
