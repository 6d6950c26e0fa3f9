-------------------------------- MODULE DagRun --------------------------------
(***************************************************************************)
(* What every orchestrator of the repository promises about a run of a     *)
(* planned graph, seen from its durable record: a node is started only     *)
(* after each of its dependencies was completed or closed by a person, it  *)
(* is completed only after it was started, and the run is declared         *)
(* finished only when every node was closed in one of the two ways.        *)
(***************************************************************************)
CONSTANTS Node, DependsOn

VARIABLES
  started,    \* nodes whose start was recorded
  completed,  \* nodes whose work was recorded as completed
  approved,   \* nodes a person closed: approved checkpoints, skipped nodes
  finished    \* the run is recorded as done

vars == <<started, completed, approved, finished>>

Closed == completed \cup approved

Init == started = {} /\ completed = {} /\ approved = {} /\ finished = FALSE

Start(n) ==
  /\ DependsOn[n] \subseteq Closed
  /\ started' = started \cup {n}
  /\ UNCHANGED <<completed, approved, finished>>

Complete(n) ==
  /\ n \in started
  /\ completed' = completed \cup {n}
  /\ UNCHANGED <<started, approved, finished>>

Approve(n) ==
  /\ approved' = approved \cup {n}
  /\ UNCHANGED <<started, completed, finished>>

Finish ==
  /\ Node \subseteq Closed
  /\ finished' = TRUE
  /\ UNCHANGED <<started, completed, approved>>

\* A finished run is taken up again on request.
Reopen ==
  /\ finished /\ finished' = FALSE
  /\ UNCHANGED <<started, completed, approved>>

\* A person changed a node: it has to be done again, and with it everything
\* that was done on top of it.
Redo(S) ==
  /\ \A n \in Node : DependsOn[n] \cap S # {} => n \in S
  /\ started' = started \ S
  /\ completed' = completed \ S
  /\ approved' = approved \ S
  /\ UNCHANGED finished

Next ==
  \/ \E n \in Node : Start(n) \/ Complete(n) \/ Approve(n)
  \/ \E S \in SUBSET Node : Redo(S)
  \/ Finish \/ Reopen

Spec == Init /\ [][Next]_vars
=============================================================================
