------------------------------ MODULE MCPreviews ------------------------------
(* A small instance of Previews: two sessions and two ports.  Of the one *)
(* session two starts may be on their way, and its output is generated   *)
(* React code at times; that of the other has a package.json.            *)
EXTENDS Previews, TLC

CONSTANTS k1, k2

MCMaxCalls == (k1 :> 2) @@ (k2 :> 1)
MCWritten == (k1 :> {"react"}) @@ (k2 :> {"app"})
Symmetry == Permutations(Launch) \cup Permutations(Port)
===============================================================================
