------------------------------ MODULE MCPlanning ------------------------------
(* Small instances of Planning.                                              *)
EXTENDS Planning, TLC

CONSTANTS a, b, c, u, na, nb, nc, ra, tx, out

MCId == {a, b, c, u}
MCName == {na, nb, nc, ra, tx, out}

\* ra is na without the output directory; out leaves it; tx suits the fallback only.
MCNormalize == [f \in MCName |-> IF f = ra THEN na ELSE f]
MCInOutput == {na, nb, nc, tx}
MCInRepo == {na, nb}
MCTyped == ("detected" :> {na, nb, nc, ra, out}) @@ ("fallback" :> {na, nb, tx})
MCTypescript == {tx}

Planned(n, f, d) == [id |-> n, file |-> f, checkpoint |-> FALSE, dependsOn |-> d]

\* Three steps that depend on each other in every way.
Relations ==
  {<<Planned(a, na, da), Planned(b, nb, db), Planned(c, nc, dc)>> :
     da, db, dc \in SUBSET {a, b, c}}

\* Two steps with any ids and files, one of which may be a checkpoint or depend on
\* a step that is not there.
Forms ==
  {<<[id |-> a, file |-> f, checkpoint |-> k, dependsOn |-> {}],
     [id |-> n, file |-> g, checkpoint |-> FALSE, dependsOn |-> d]>> :
     f, g \in {na, ra, nb, tx, out}, k \in BOOLEAN, n \in {a, b}, d \in {{}, {a}, {u}}}

MCPlan == Relations \cup Forms \cup {<<>>}
=============================================================================
