----------------------------- MODULE MCEventStream -----------------------------
(* A small instance of EventStream: one implement node and a gate behind it. *)
EXTENDS EventStream

CONSTANTS a, c

MCNode == {a, c}
MCCheckpoint == {c}
MCDependsOn == (a :> {}) @@ (c :> {a})
MCMaxRetries == (a :> 0) @@ (c :> 0)
MCCommands == {[kind |-> "approve", node |-> c], [kind |-> "resume", node |-> NoNode]}
=============================================================================
