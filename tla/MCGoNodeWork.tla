----------------------------- MODULE MCGoNodeWork -----------------------------
(***************************************************************************)
(* Two sessions in one repository: s1 has an agent that writes two files   *)
(* and a node after it that writes one of them and the manifest; s2 needs  *)
(* no model and writes the other of the same files.  A manifest has a      *)
(* build and a test, or only a test, or cannot be read.                    *)
(***************************************************************************)
EXTENDS GoNodeWork

CONSTANTS s1, s2, a, b, x, fa, fb, pkg, full, lax, text

MCSessionOf == [n \in Node |-> IF n = x THEN s2 ELSE s1]
MCDependsOn == [n \in Node |-> IF n = b THEN {a} ELSE {}]
MCOutputs == [n \in Node |-> CASE n = a -> <<fa, fb>> [] n = b -> <<pkg>> [] OTHER -> <<fb>>]
MCMaxRetries == [n \in Node |-> IF n = a THEN 1 ELSE 0]
MCScripts == [k \in Kind |->
  CASE k = full -> {"build", "test"} [] k = lax -> {"test"} [] OTHER -> {}]
MCLooksAt == [k \in Kind |-> IF k = full THEN {fa} ELSE {}]
MCWrites == {<<fa, "none">>, <<fa, "broken">>, <<pkg, "none">>, <<pkg, full>>, <<pkg, lax>>}
=============================================================================
