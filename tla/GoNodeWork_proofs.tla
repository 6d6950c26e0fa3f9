--------------------------- MODULE GoNodeWork_proofs ---------------------------
(***************************************************************************)
(* Theorems of GoNodeWork, for any sessions, files, manifests and commands *)
(* that share one directory: type correctness, and what is known of the    *)
(* files of a completed node.                                              *)
(***************************************************************************)
EXTENDS GoNodeWork, TLAPS

\* What a node wrote last is there, and what the given checks read compiles.
ThereBy(n) == \A f \in Files(n) : disk[f].by = n => disk[f].quality # "none"

CompilesBy(n, files) ==
  \A f \in Files(n) : disk[f].by = n =>
    disk[f].quality # "none" /\ (f \in files => disk[f].quality # "broken")

CheckedBy(n) == CompilesBy(n, looked[n])

\* An actor works for a node of its own that is not done.
Owned(s) ==
  exec[s].stage \notin {"idle", "ended"} =>
    exec[s].node \in Of(s) /\ node[exec[s].node] \in {"running", "verifying"}

\* What the session has established when it gets to a stage of the verification.
Established(s) ==
  /\ exec[s].stage = "checks" /\ exec[s].caller = "session" => ThereBy(exec[s].node)
  /\ exec[s].stage = "review" => CheckedBy(exec[s].node)

DoneChecked == \A n \in Node : node[n] = "done" => CheckedBy(n)

IndInv ==
  /\ TypeOK
  /\ \A s \in Session : Owned(s) /\ Established(s)
  /\ DoneChecked

\* No file was changed in the name of n.
Keeps(n) == \A f \in File : disk'[f] = disk[f] \/ disk'[f].by # n

\* Only the check of its node by the session sets what was read.
LookedKept(s) ==
  /\ looked' \in [Node -> SUBSET File]
  /\ \A n \in Node : exec[s].stage # "checks" \/ n # exec[s].node => looked'[n] = looked[n]

-----------------------------------------------------------------------------
LEMMA FilesAreFiles == \A n \in Node : Files(n) \subseteq File
BY GoWorkAssumption DEF Files

LEMMA InitHolds == Init => IndInv
<1> USE GoWorkAssumption
<1> SUFFICES ASSUME Init PROVE IndInv
  OBVIOUS
<1>1. TypeOK
  <2>1. disk \in [File -> Content]
    BY DEF Init, Content, Written, Quality, ManifestQuality
  <2>2. exec \in [Session -> [stage : Stages, node : Node \cup {NoNode}, step : Nat, caller : Callers]]
    BY DEF Init, Idle, Stages, Callers
  <2> QED
    BY <2>1, <2>2 DEF Init, TypeOK
<1>2. \A s \in Session : Owned(s) /\ Established(s)
  BY DEF Init, Owned, Established, Idle
<1>3. DoneChecked
  BY DEF Init, DoneChecked
<1> QED
  BY <1>1, <1>2, <1>3 DEF IndInv

\* A command only changes files in the name it runs under.
LEMMA EffectType ==
  ASSUME TypeOK, NEW by \in Node \cup {NoNode}, Effect(by)
  PROVE  /\ disk' \in [File -> Content] /\ writes' \in 0..MaxWrites
         /\ \A n \in Node : n # by => Keeps(n)
<1>1. CASE UNCHANGED <<disk, writes>>
  BY <1>1 DEF TypeOK, Keeps
<1>2. ASSUME NEW w \in Writes, writes < MaxWrites, writes' = writes + 1,
             disk' = [disk EXCEPT ![w[1]] = Written(w[2], by)]
      PROVE  /\ disk' \in [File -> Content] /\ writes' \in 0..MaxWrites
             /\ \A n \in Node : n # by => Keeps(n)
  <2>1. w[1] \in File /\ w[2] \in Quality \cup ManifestQuality
    BY GoWorkAssumption
  <2>2. Written(w[2], by) \in Content /\ Written(w[2], by).by = by
    BY <2>1 DEF Written, Content
  <2>3. disk' \in [File -> Content]
    BY <1>2, <2>1, <2>2 DEF TypeOK
  <2>4. writes' \in 0..MaxWrites
    BY <1>2, GoWorkAssumption DEF TypeOK
  <2>5. \A n \in Node : n # by => Keeps(n)
    BY <1>2, <2>1, <2>2 DEF TypeOK, Keeps
  <2> QED
    BY <2>3, <2>4, <2>5
<1>3. \/ UNCHANGED <<disk, writes>>
      \/ \E w \in Writes : /\ writes < MaxWrites /\ writes' = writes + 1
                           /\ disk' = [disk EXCEPT ![w[1]] = Written(w[2], by)]
  BY GoWorkAssumption DEF Effect
<1> QED
  BY <1>1, <1>2, <1>3

\* A verification that passes has found in order what it read.
LEMMA PassedIsChecked ==
  ASSUME TypeOK, NEW n \in Node, ThereBy(n),
         NEW outcome \in CheckResults(n), outcome.result = "passed"
  PROVE  CompilesBy(n, outcome.looked)
<1> SUFFICES ASSUME NEW f \in Files(n), f \in outcome.looked, disk[f].quality = "broken"
             PROVE  FALSE
  BY DEF CompilesBy, ThereBy
<1>1. CASE Project \in Kind /\ outcome \in ProjectChecks(Project)
  <2> DEFINE k == Project
  <2>1. PICK failed \in SUBSET Scripts[k] :
          /\ {c \in Scripts[k] : Rejects(k, c)} \subseteq failed
          /\ outcome = Outcome(IF failed \cap Required # {} THEN "failed" ELSE "passed", Reads(k))
    BY <1>1 DEF ProjectChecks, Outcome
  <2>2. failed \cap Required = {} /\ f \in Reads(k)
    BY <2>1 DEF Outcome
  <2>3. PICK c \in Scripts[k] : c \in Required /\ f \in LooksAt[k]
    BY <2>2 DEF Reads, Required
  <2>4. Rejects(k, c)
    BY <2>3 DEF Rejects
  <2> QED
    BY <2>1, <2>2, <2>3, <2>4
<1>2. CASE outcome \in ExtensionChecks(n)
  BY <1>2 DEF ExtensionChecks, Outcome
<1>3. CASE outcome = Outcome("error", {})
  BY <1>3 DEF Outcome
<1> QED
  BY <1>1, <1>2, <1>3 DEF CheckResults

LEMMA OutcomeType ==
  ASSUME NEW n \in Node, NEW outcome \in CheckResults(n)
  PROVE  outcome.result \in {"passed", "failed", "error"} /\ outcome.looked \subseteq File
<1>1. CASE Project \in Kind /\ outcome \in ProjectChecks(Project)
  <2>1. outcome = Outcome("error", {}) \/ outcome.looked = Reads(Project)
    BY <1>1 DEF ProjectChecks, Outcome
  <2>2. Reads(Project) \subseteq File
    BY <1>1, GoWorkAssumption DEF Reads
  <2>3. outcome.result \in {"passed", "failed", "error"}
    BY <1>1 DEF ProjectChecks, Outcome
  <2> QED
    BY <2>1, <2>2, <2>3 DEF Outcome
<1>2. CASE outcome \in ExtensionChecks(n)
  BY <1>2, FilesAreFiles DEF ExtensionChecks, Outcome
<1>3. CASE outcome = Outcome("error", {})
  BY <1>3 DEF Outcome
<1> QED
  BY <1>1, <1>2, <1>3 DEF CheckResults

LEMMA KeptStays ==
  ASSUME NEW n \in Node, Keeps(n)
  PROVE  /\ ThereBy(n) => ThereBy(n)'
         /\ looked'[n] = looked[n] => (CheckedBy(n) => CheckedBy(n)')
         /\ \A files : CompilesBy(n, files) /\ looked'[n] = files => CheckedBy(n)'
BY FilesAreFiles DEF Keeps, ThereBy, CheckedBy, CompilesBy, Files

-----------------------------------------------------------------------------
(* What one step of the actor of s does, whatever it is                     *)

\* It writes in the name of its own node, while it executes it, or of nobody.
Own(s) == \A n \in Node :
  exec[s].stage \notin {"asking", "writing"} \/ n # exec[s].node => Keeps(n)

\* It leaves the others alone.
Apart(s) ==
  /\ \A t \in Session \ {s} : exec'[t] = exec[t]
  /\ \A n \in Node : node'[n] # node[n] => n \in Of(s)

\* A node it completes is checked.
Completes(s) == \A n \in Node : node'[n] = "done" /\ node[n] # "done" => CheckedBy(n)'

Step1(s) == /\ TypeOK' /\ Own(s) /\ LookedKept(s) /\ Apart(s) /\ Completes(s)
            /\ Owned(s)' /\ Established(s)'

LEMMA ExecType ==
  ASSUME TypeOK, NEW s \in Session
  PROVE  /\ exec[s].stage \in Stages /\ exec[s].node \in Node \cup {NoNode}
         /\ exec[s].step \in Nat /\ exec[s].caller \in Callers
BY DEF TypeOK

\* The results of a node, when the files stay as checked.
LEMMA ResultStep ==
  ASSUME IndInv, NEW s \in Session, exec[s].stage \notin {"idle", "ended"},
         NEW n \in Node, n = exec[s].node,
         \/ Fail(s) \/ Reject(s) \/ End(s)
         \/ Complete(s) /\ CheckedBy(n)',
         Own(s), LookedKept(s), disk' \in [File -> Content], writes' \in 0..MaxWrites
  PROVE  Step1(s)
<1> USE GoWorkAssumption
<1>1. n \in Of(s) /\ node[n] \in {"running", "verifying"}
  BY DEF IndInv, Owned, Of
<1>2. /\ \/ exec' = [exec EXCEPT ![s] = Idle]
         \/ exec' = [exec EXCEPT ![s].stage = "ended"]
      /\ \/ node' = node
         \/ node' = [node EXCEPT ![n] = "failed"]
         \/ node' = [node EXCEPT ![n] = "ready"]
         \/ node' = [node EXCEPT ![n] = "done"] /\ CheckedBy(n)'
      /\ \/ retry' = retry
         \/ retry[n] < MaxRetries[n] /\ retry' = [retry EXCEPT ![n] = @ + 1]
  <2>1. CASE Fail(s)
    BY <2>1 DEF Fail
  <2>2. CASE Reject(s)
    BY <2>2 DEF Reject, Fail
  <2>3. CASE End(s)
    BY <2>3 DEF End
  <2>4. CASE Complete(s) /\ CheckedBy(n)'
    BY <2>4 DEF Complete
  <2> QED
    BY <2>1, <2>2, <2>3, <2>4
<1>3. /\ exec' \in [Session -> [stage : Stages, node : Node \cup {NoNode}, step : Nat, caller : Callers]]
      /\ \A t \in Session \ {s} : exec'[t] = exec[t]
      /\ exec'[s].stage \in {"idle", "ended"}
  <2>1. CASE exec' = [exec EXCEPT ![s] = Idle]
    <3>1. Idle \in [stage : Stages, node : Node \cup {NoNode}, step : Nat, caller : Callers]
      BY DEF Idle, Stages, Callers
    <3>2. Idle.stage = "idle"
      BY DEF Idle
    <3> QED
      BY <2>1, <3>1, <3>2 DEF IndInv, TypeOK
  <2>2. CASE exec' = [exec EXCEPT ![s].stage = "ended"]
    <3> DEFINE e == [exec[s] EXCEPT !.stage = "ended"]
    <3>0. exec[s] \in [stage : Stages, node : Node \cup {NoNode}, step : Nat, caller : Callers]
      BY DEF IndInv, TypeOK
    <3>1. e \in [stage : Stages, node : Node \cup {NoNode}, step : Nat, caller : Callers]
      BY <3>0 DEF Stages
    <3>2. e.stage = "ended" /\ exec' = [exec EXCEPT ![s] = e]
      BY <2>2, <3>0 DEF IndInv, TypeOK
    <3> HIDE DEF e
    <3> QED
      BY <3>1, <3>2 DEF IndInv, TypeOK
  <2> QED
    BY <1>2, <2>1, <2>2
<1>4. /\ node' \in [Node -> {"ready", "running", "verifying", "done", "failed"}]
      /\ \A m \in Node : node'[m] # node[m] => m = n
      /\ node'[n] = "done" => node[n] = "done" \/ CheckedBy(n)'
  <2>1. CASE node' = node
    BY <2>1 DEF IndInv, TypeOK
  <2>2. CASE node' = [node EXCEPT ![n] = "failed"]
    BY <2>2 DEF IndInv, TypeOK
  <2>3. CASE node' = [node EXCEPT ![n] = "ready"]
    BY <2>3 DEF IndInv, TypeOK
  <2>4. CASE node' = [node EXCEPT ![n] = "done"] /\ CheckedBy(n)'
    BY <2>4 DEF IndInv, TypeOK
  <2> QED
    BY <1>2, <2>1, <2>2, <2>3, <2>4
<1>5. retry' \in [Node -> Nat] /\ \A m \in Node : retry'[m] <= MaxRetries[m]
  <2>1. CASE retry' = retry
    BY <2>1 DEF IndInv, TypeOK
  <2>2. CASE retry[n] < MaxRetries[n] /\ retry' = [retry EXCEPT ![n] = @ + 1]
    <3>1. retry[n] \in Nat /\ MaxRetries[n] \in Nat
      BY DEF IndInv, TypeOK
    <3>2. retry[n] + 1 \in Nat /\ retry[n] + 1 <= MaxRetries[n]
      BY <2>2, <3>1
    <3> QED
      BY <2>2, <3>2 DEF IndInv, TypeOK
  <2> QED
    BY <1>2, <2>1, <2>2
<1>6. \A m \in Node : node'[m] = "done" /\ node[m] # "done" => CheckedBy(m)'
  BY <1>4
<1>7. TypeOK'
  BY <1>3, <1>4, <1>5 DEF TypeOK, LookedKept
<1>8. Apart(s) /\ Completes(s)
  BY <1>1, <1>3, <1>4, <1>6 DEF Apart, Completes
<1> QED
  BY <1>3, <1>7, <1>8 DEF Step1, Owned, Established

\* It goes on with its node, having established what the next stage assumes.
LEMMA GoOnStep ==
  ASSUME IndInv, NEW s \in Session, exec[s].stage \notin {"idle", "ended"},
         NEW n \in Node, n = exec[s].node,
         NEW e \in [stage : Stages \ {"idle", "ended"}, node : Node, step : Nat, caller : Callers],
         e.node = n, exec' = [exec EXCEPT ![s] = e],
         node' = node \/ node' = [node EXCEPT ![n] = "verifying"], UNCHANGED retry,
         Own(s), LookedKept(s), disk' \in [File -> Content], writes' \in 0..MaxWrites,
         e.stage = "checks" /\ e.caller = "session" => ThereBy(n)',
         e.stage = "review" => CheckedBy(n)'
  PROVE  Step1(s)
<1>1. n \in Of(s) /\ node[n] \in {"running", "verifying"}
  BY DEF IndInv, Owned, Of
<1>2. /\ exec' \in [Session -> [stage : Stages, node : Node \cup {NoNode}, step : Nat, caller : Callers]]
      /\ \A t \in Session \ {s} : exec'[t] = exec[t]
      /\ exec'[s] = e
  BY DEF IndInv, TypeOK
<1>3. /\ node' \in [Node -> {"ready", "running", "verifying", "done", "failed"}]
      /\ \A m \in Node : node'[m] # node[m] => m = n /\ node'[m] = "verifying"
      /\ node'[n] \in {"running", "verifying"}
  BY <1>1 DEF IndInv, TypeOK
<1>4. TypeOK'
  BY <1>2, <1>3 DEF IndInv, TypeOK, LookedKept
<1>5. Apart(s) /\ Completes(s)
  BY <1>1, <1>2, <1>3 DEF Apart, Completes
<1>6. Owned(s)'
  BY <1>1, <1>2, <1>3 DEF Owned, Of
<1>7. Established(s)'
  BY <1>2 DEF Established
<1> QED
  BY <1>4, <1>5, <1>6, <1>7 DEF Step1

\* An untouched directory is kept by everybody.
LEMMA SameDisk ==
  ASSUME TypeOK, NEW s \in Session, UNCHANGED <<disk, writes>>
  PROVE  Own(s) /\ disk' \in [File -> Content] /\ writes' \in 0..MaxWrites
BY DEF TypeOK, Own, Keeps

LEMMA SameLooked ==
  ASSUME TypeOK, NEW s \in Session, UNCHANGED looked
  PROVE  LookedKept(s)
BY DEF TypeOK, LookedKept

-----------------------------------------------------------------------------
(* The actions                                                              *)

LEMMA BeginStep ==
  ASSUME IndInv, NEW s \in Session, NEW n \in Node, Begin(s, n)
  PROVE  Step1(s)
<1>1. /\ exec' \in [Session -> [stage : Stages, node : Node \cup {NoNode}, step : Nat, caller : Callers]]
      /\ \A t \in Session \ {s} : exec'[t] = exec[t]
      /\ exec'[s].stage \in {"asking", "writing"} /\ exec'[s].node = n
  BY DEF Begin, IndInv, TypeOK, Idle, Stages, Callers
<1>2. /\ node' \in [Node -> {"ready", "running", "verifying", "done", "failed"}]
      /\ \A m \in Node : node'[m] # node[m] => m = n /\ node'[m] = "running"
      /\ node'[n] = "running" /\ n \in Of(s)
  BY DEF Begin, IndInv, TypeOK
<1>3. UNCHANGED <<disk, retry, writes, looked>>
  BY DEF Begin
<1>4. TypeOK'
  BY <1>1, <1>2, <1>3 DEF IndInv, TypeOK
<1> QED
  BY <1>1, <1>2, <1>3, <1>4, SameDisk, SameLooked DEF Step1, IndInv, Apart, Completes, Owned, Of, Established

\* The stage changes and nothing else of what the actor is doing.
LEMMA EnterIs ==
  ASSUME TypeOK, NEW s \in Session, exec[s].node \in Node,
         NEW stage \in Stages \ {"idle", "ended"}, NEW caller \in Callers
  PROVE  \E e \in [stage : Stages \ {"idle", "ended"}, node : Node, step : Nat, caller : Callers] :
           /\ e.stage = stage /\ e.caller = caller /\ e.node = exec[s].node
           /\ Enter(s, stage, caller) = [exec EXCEPT ![s] = e]
<1> DEFINE e == [exec[s] EXCEPT !.stage = stage, !.caller = caller]
<1>0. exec[s] \in [stage : Stages, node : Node \cup {NoNode}, step : Nat, caller : Callers]
  BY DEF TypeOK
<1>1. e \in [stage : Stages \ {"idle", "ended"}, node : Node, step : Nat, caller : Callers]
  BY <1>0
<1>2. e.stage = stage /\ e.caller = caller /\ e.node = exec[s].node
  BY <1>0
<1>3. Enter(s, stage, caller) = [exec EXCEPT ![s] = e]
  BY DEF Enter, TypeOK
<1> QED
  BY <1>1, <1>2, <1>3

LEMMA ContinueIs ==
  ASSUME TypeOK, NEW s \in Session, exec[s].node \in Node
  PROVE  \E e \in [stage : Stages \ {"idle", "ended"}, node : Node, step : Nat, caller : Callers] :
           /\ e.stage = "asking" /\ e.node = exec[s].node
           /\ Continue(s) = [exec EXCEPT ![s] = e]
<1> DEFINE e == [exec[s] EXCEPT !.stage = "asking", !.step = @ + 1]
<1>1. e \in [stage : Stages \ {"idle", "ended"}, node : Node, step : Nat, caller : Callers]
  <2>1. exec[s].step + 1 \in Nat
    BY DEF TypeOK
  <2>2. "asking" \in Stages \ {"idle", "ended"}
    BY DEF Stages
  <2> QED
    BY <2>1, <2>2 DEF TypeOK
<1>2. e.stage = "asking" /\ e.node = exec[s].node
  BY DEF TypeOK
<1>3. Continue(s) = [exec EXCEPT ![s] = e]
  BY DEF Continue, TypeOK
<1> QED
  BY <1>1, <1>2, <1>3

LEMMA EnterStep ==
  ASSUME IndInv, NEW s \in Session, exec[s].stage \notin {"idle", "ended"},
         NEW n \in Node, n = exec[s].node,
         NEW stage \in Stages \ {"idle", "ended"}, NEW caller \in Callers,
         exec' = Enter(s, stage, caller),
         node' = node \/ node' = [node EXCEPT ![n] = "verifying"], UNCHANGED retry,
         Own(s), LookedKept(s), disk' \in [File -> Content], writes' \in 0..MaxWrites,
         stage = "checks" /\ caller = "session" => ThereBy(n)',
         stage = "review" => CheckedBy(n)'
  PROVE  Step1(s)
<1>1. PICK e \in [stage : Stages \ {"idle", "ended"}, node : Node, step : Nat, caller : Callers] :
         /\ e.stage = stage /\ e.caller = caller /\ e.node = n
         /\ Enter(s, stage, caller) = [exec EXCEPT ![s] = e]
  <2>1. TypeOK /\ exec[s].node \in Node
    BY DEF IndInv
  <2>2. \E e \in [stage : Stages \ {"idle", "ended"}, node : Node, step : Nat, caller : Callers] :
           /\ e.stage = stage /\ e.caller = caller /\ e.node = exec[s].node
           /\ Enter(s, stage, caller) = [exec EXCEPT ![s] = e]
    BY <2>1, EnterIs
  <2> QED
    BY <2>2
<1> QED
  BY <1>1, GoOnStep

LEMMA ContinueStep ==
  ASSUME IndInv, NEW s \in Session, exec[s].stage \notin {"idle", "ended"},
         exec' = Continue(s), UNCHANGED <<node, retry>>,
         Own(s), LookedKept(s), disk' \in [File -> Content], writes' \in 0..MaxWrites
  PROVE  Step1(s)
<1>1. PICK n \in Node : n = exec[s].node
  BY DEF IndInv, Owned, Of
<1>2. PICK e \in [stage : Stages \ {"idle", "ended"}, node : Node, step : Nat, caller : Callers] :
         e.stage = "asking" /\ e.node = n /\ Continue(s) = [exec EXCEPT ![s] = e]
  BY <1>1, ContinueIs DEF IndInv
<1> QED
  BY <1>1, <1>2, GoOnStep

\* A file written in the name of the node of an actor that executes it.
LEMMA WriteType ==
  ASSUME IndInv, NEW s \in Session, exec[s].stage \in {"asking", "writing"},
         NEW n \in Node, n = exec[s].node, NEW f \in Files(n), NEW q \in Quality \cup ManifestQuality,
         disk' = [disk EXCEPT ![f] = Written(q, n)]
  PROVE  disk' \in [File -> Content] /\ Own(s)
<1>1. f \in File
  BY FilesAreFiles
<1>2. Written(q, n) \in Content /\ Written(q, n).by = n
  BY DEF Written, Content
<1> QED
  BY <1>1, <1>2 DEF IndInv, TypeOK, Own, Keeps

LEMMA WriteScriptedStep ==
  ASSUME IndInv, NEW s \in Session, WriteScripted(s)
  PROVE  Step1(s)
<1>1. PICK n \in Node : n = exec[s].node
  BY DEF WriteScripted, IndInv, Owned, Of
<1>2. /\ exec[s].stage = "writing" /\ UNCHANGED <<retry, writes>> /\ writes' \in 0..MaxWrites
      /\ LookedKept(s)
  BY SameLooked DEF WriteScripted, IndInv, TypeOK
<1>3. CASE exec[s].step \in DOMAIN Outputs[n]
  <2>1. PICK q \in Quality \cup ManifestQuality : disk' = [disk EXCEPT ![Outputs[n][exec[s].step]] = Written(q, n)]
    BY <1>1, <1>3, GoWorkAssumption DEF WriteScripted, Quality, ManifestQuality
  <2>2. Outputs[n][exec[s].step] \in Files(n)
    BY <1>3 DEF Files
  <2>3. disk' \in [File -> Content] /\ Own(s)
    BY <1>1, <1>2, <2>1, <2>2, WriteType
  <2> DEFINE e == [exec[s] EXCEPT !.step = @ + 1]
  <2>4. e \in [stage : Stages \ {"idle", "ended"}, node : Node, step : Nat, caller : Callers]
    BY <1>1, <1>2 DEF IndInv, TypeOK
  <2>5. e.stage = "writing" /\ e.node = n
    BY <1>1, <1>2 DEF IndInv, TypeOK
  <2>6. exec' = [exec EXCEPT ![s] = e] /\ node' = node
    BY <1>1, <1>3 DEF WriteScripted, IndInv, TypeOK
  <2>7. PICK e1 \in [stage : Stages \ {"idle", "ended"}, node : Node, step : Nat, caller : Callers] :
          e1.stage = "writing" /\ e1.node = n /\ exec' = [exec EXCEPT ![s] = e1]
    BY <2>4, <2>5, <2>6
  <2> QED
    BY <1>1, <1>2, <2>3, <2>6, <2>7, GoOnStep
<1>4. CASE exec[s].step \notin DOMAIN Outputs[n]
  <2>1. /\ exec' = Enter(s, "presence", "session") /\ UNCHANGED disk
        /\ node' = [node EXCEPT ![n] = "verifying"]
    BY <1>1, <1>4 DEF WriteScripted
  <2>2. Own(s) /\ disk' \in [File -> Content]
    BY <1>2, <2>1, SameDisk DEF IndInv
  <2> QED
    BY <1>1, <1>2, <2>1, <2>2, EnterStep DEF Stages, Callers
<1> QED
  BY <1>3, <1>4

\* A command that an actor runs for its node, or that runs for nobody.
LEMMA EffectOwn ==
  ASSUME IndInv, NEW s \in Session, NEW by \in Node \cup {NoNode}, Effect(by),
         by = NoNode \/ (exec[s].stage \in {"asking", "writing"} /\ by = exec[s].node)
  PROVE  Own(s) /\ disk' \in [File -> Content] /\ writes' \in 0..MaxWrites
BY EffectType, GoWorkAssumption DEF IndInv, Own

LEMMA FailStep ==
  ASSUME IndInv, NEW s \in Session, exec[s].stage \notin {"idle", "ended"},
         Fail(s), UNCHANGED <<disk, writes, looked>>
  PROVE  Step1(s)
<1>1. PICK n \in Node : n = exec[s].node
  BY DEF IndInv, Owned, Of
<1> QED
  BY <1>1, SameDisk, SameLooked, ResultStep DEF IndInv

LEMMA StepStep ==
  ASSUME IndInv, NEW s \in Session, Step(s)
  PROVE  Step1(s)
<1>1. exec[s].stage = "asking"
  BY DEF Step
<1>2. PICK n \in Node : n = exec[s].node
  BY <1>1 DEF IndInv, Owned, Of
<1>0. LookedKept(s)
  <2>1. UNCHANGED looked
    BY DEF Step, WriteFile, RunCommand, Finish, OtherAnswer, GiveUp
  <2> QED
    BY <2>1, SameLooked DEF IndInv
<1>3. CASE WriteFile(s)
  <2>1. PICK f \in Files(n), q \in Quality \cup ManifestQuality :
          disk' = [disk EXCEPT ![f] = Written(q, n)]
    BY <1>2, <1>3 DEF WriteFile, ManifestQuality
  <2>2. exec' = Enter(s, "presence", "write") /\ UNCHANGED <<node, retry, writes>>
    BY <1>3 DEF WriteFile
  <2>3. disk' \in [File -> Content] /\ Own(s) /\ writes' \in 0..MaxWrites
    BY <1>1, <1>2, <2>1, <2>2, WriteType DEF IndInv, TypeOK
  <2> QED
    BY <1>0, <1>1, <1>2, <2>2, <2>3, EnterStep DEF Stages, Callers
<1>4. CASE RunCommand(s)
  <2>1. Effect(n) /\ exec' = Continue(s) /\ UNCHANGED <<node, retry>>
    BY <1>2, <1>4 DEF RunCommand
  <2>2. Own(s) /\ disk' \in [File -> Content] /\ writes' \in 0..MaxWrites
    BY <1>1, <1>2, <2>1, EffectOwn
  <2> QED
    BY <1>0, <1>1, <2>1, <2>2, ContinueStep
<1>5. CASE Finish(s) /\ exec' = Enter(s, "presence", "finish")
  BY <1>0, <1>1, <1>2, <1>5, SameDisk, EnterStep DEF Finish, Stages, Callers, IndInv
<1>6. CASE UNCHANGED <<disk, node, retry, writes>> /\ exec' = Continue(s)
  BY <1>0, <1>1, <1>6, SameDisk, ContinueStep DEF IndInv
<1>7. CASE GiveUp(s)
  BY <1>1, <1>7, FailStep DEF GiveUp
<1> QED
  BY <1>3, <1>4, <1>5, <1>6, <1>7 DEF Step, Finish, OtherAnswer

\* What the caller of the verifier makes of its result.
LEMMA ConcludeStep1 ==
  ASSUME IndInv, NEW s \in Session, exec[s].stage \in {"presence", "checks"},
         NEW n \in Node, n = exec[s].node,
         NEW result \in {"passed", "failed", "error"}, Conclude(s, result),
         Own(s), LookedKept(s), disk' \in [File -> Content], writes' \in 0..MaxWrites,
         exec[s].caller = "session" /\ result = "passed" => CheckedBy(n)'
  PROVE  Step1(s)
<1>1. CASE ConcludeNode(s, result)
  <2>1. CASE result = "passed" /\ Reviewed
    BY <1>1, <2>1, EnterStep DEF ConcludeNode, Stages, Callers
  <2>2. CASE ~(result = "passed" /\ Reviewed)
    BY <1>1, <2>2, ResultStep DEF ConcludeNode
  <2> QED
    BY <2>1, <2>2
<1>2. CASE ConcludeStep(s, result)
  <2>1. CASE result = "error"
    BY <1>2, <2>1, ResultStep DEF ConcludeStep
  <2>2. CASE exec' = Enter(s, "collect", "finish") /\ UNCHANGED <<node, retry>>
    BY <2>2, EnterStep DEF Stages, Callers
  <2>3. CASE exec' = Continue(s) /\ UNCHANGED <<node, retry>>
    BY <2>3, ContinueStep
  <2> QED
    BY <1>2, <2>1, <2>2, <2>3 DEF ConcludeStep
<1> QED
  BY <1>1, <1>2 DEF Conclude

LEMMA VerifyPresenceStep ==
  ASSUME IndInv, NEW s \in Session, VerifyPresence(s)
  PROVE  Step1(s)
<1>1. exec[s].stage = "presence" /\ UNCHANGED <<disk, writes, looked>>
  BY DEF VerifyPresence
<1>2. PICK n \in Node : n = exec[s].node
  BY <1>1 DEF IndInv, Owned, Of
<1>3. Own(s) /\ LookedKept(s) /\ disk' \in [File -> Content] /\ writes' \in 0..MaxWrites
  BY <1>1, SameDisk, SameLooked DEF IndInv
<1>4. CASE Present(n)
  <2>1. exec' = Enter(s, "checks", exec[s].caller) /\ UNCHANGED <<node, retry>>
    BY <1>2, <1>4 DEF VerifyPresence
  <2>2. ThereBy(n)'
    BY <1>1, <1>4 DEF Present, ThereBy, Files
  <2>3. PICK caller \in Callers : caller = exec[s].caller
    BY ExecType DEF IndInv
  <2> QED
    BY <1>1, <1>2, <1>3, <2>1, <2>2, <2>3, EnterStep DEF Stages
<1>5. CASE ~Present(n)
  <2>1. Conclude(s, "failed")
    BY <1>2, <1>5 DEF VerifyPresence
  <2> QED
    BY <1>1, <1>2, <1>3, <2>1, ConcludeStep1
<1> QED
  BY <1>4, <1>5

LEMMA RunChecksStep ==
  ASSUME IndInv, NEW s \in Session, RunChecks(s)
  PROVE  Step1(s)
<1>1. exec[s].stage = "checks"
  BY DEF RunChecks
<1>2. PICK n \in Node : n = exec[s].node
  BY <1>1 DEF IndInv, Owned, Of
<1>3. PICK outcome \in CheckResults(n) :
         /\ Conclude(s, outcome.result)
         /\ looked' = IF exec[s].caller = "session" /\ outcome.result = "passed"
                      THEN [looked EXCEPT ![n] = outcome.looked] ELSE looked
  BY <1>2 DEF RunChecks
<1>4. outcome.result \in {"passed", "failed", "error"} /\ outcome.looked \subseteq File
  BY OutcomeType
<1>5. UNCHANGED <<disk, writes>> \/ Effect(NoNode)
  BY DEF RunChecks
<1>6. Own(s) /\ disk' \in [File -> Content] /\ writes' \in 0..MaxWrites
  <2>1. CASE UNCHANGED <<disk, writes>>
    BY <2>1, SameDisk DEF IndInv
  <2>2. CASE Effect(NoNode)
    <3>1. PICK by \in Node \cup {NoNode} : by = NoNode /\ Effect(by)
      BY <2>2
    <3> QED
      BY <3>1, EffectOwn
  <2> QED
    BY <1>5, <2>1, <2>2
<1>7. LookedKept(s)
  <2>1. looked \in [Node -> SUBSET File]
    BY DEF IndInv, TypeOK
  <2>2. CASE looked' = looked
    BY <2>1, <2>2 DEF LookedKept
  <2>3. CASE looked' = [looked EXCEPT ![n] = outcome.looked]
    <3>1. PICK files \in SUBSET File : files = outcome.looked
      BY <1>4
    <3> QED
      BY <1>1, <1>2, <2>1, <2>3, <3>1 DEF LookedKept
  <2> QED
    BY <1>3, <2>2, <2>3
<1>8. ASSUME exec[s].caller = "session", outcome.result = "passed" PROVE CheckedBy(n)'
  <2>1. ThereBy(n)
    BY <1>1, <1>2, <1>8 DEF IndInv, Established
  <2>2. CompilesBy(n, outcome.looked)
    BY <1>8, <2>1, PassedIsChecked DEF IndInv
  <2>3. Keeps(n)
    BY <1>1, <1>6 DEF Own
  <2>4. looked'[n] = outcome.looked
    BY <1>3, <1>8 DEF IndInv, TypeOK
  <2> QED
    BY <2>2, <2>3, <2>4, KeptStays
<1> QED
  BY <1>1, <1>2, <1>3, <1>4, <1>6, <1>7, <1>8, ConcludeStep1

LEMMA CollectStep ==
  ASSUME IndInv, NEW s \in Session, Collect(s)
  PROVE  Step1(s)
<1>1. exec[s].stage = "collect" /\ UNCHANGED <<disk, writes, looked>>
  BY DEF Collect
<1>2. PICK n \in Node : n = exec[s].node
  BY <1>1 DEF IndInv, Owned, Of
<1>3. CASE Present(n)
  BY <1>1, <1>2, <1>3, SameDisk, SameLooked, EnterStep DEF Collect, Stages, Callers, IndInv
<1>4. CASE ~Present(n)
  BY <1>1, <1>2, <1>4, FailStep DEF Collect
<1> QED
  BY <1>3, <1>4

LEMMA ReviewStep ==
  ASSUME IndInv, NEW s \in Session, Review(s)
  PROVE  Step1(s)
<1>1. exec[s].stage = "review" /\ UNCHANGED <<disk, writes, looked>>
  BY DEF Review
<1>2. PICK n \in Node : n = exec[s].node
  BY <1>1 DEF IndInv, Owned, Of
<1>3. CheckedBy(n)'
  BY <1>1, <1>2, SameDisk, KeptStays DEF IndInv, Established, Own
<1> QED
  BY <1>1, <1>2, <1>3, SameDisk, SameLooked, ResultStep DEF Review, IndInv

LEMMA WorkStep ==
  ASSUME IndInv, NEW s \in Session, Work(s)
  PROVE  Step1(s)
BY BeginStep, WriteScriptedStep, StepStep, VerifyPresenceStep, RunChecksStep, CollectStep, ReviewStep
   DEF Work

\* The files of the other sessions' nodes stay as checked, since whoever writes
\* them now leaves another name on them; and so do those of its own done nodes.
LEMMA NextStep ==
  ASSUME IndInv, NEW s \in Session, Work(s)
  PROVE  IndInv'
<1>1. Step1(s)
  BY WorkStep
<1>2. ASSUME NEW t \in Session \ {s} PROVE Owned(t)' /\ Established(t)'
  <2>1. exec'[t] = exec[t]
    BY <1>1 DEF Step1, Apart
  <2>2. CASE exec[t].stage \in {"idle", "ended"}
    BY <2>1, <2>2 DEF Owned, Established
  <2>3. CASE exec[t].stage \notin {"idle", "ended"}
    <3>1. PICK n \in Node : n = exec[t].node /\ n \in Of(t) /\ node[n] \in {"running", "verifying"}
      BY <2>3 DEF IndInv, Owned, Of
    <3>2. node'[n] = node[n]
      BY <1>1, <3>1 DEF Step1, Apart, Of
    <3>3. Owned(t)'
      BY <2>1, <3>1, <3>2 DEF Owned, Of
    <3>4. exec[s].stage \notin {"asking", "writing"} \/ n # exec[s].node
      BY <3>1 DEF IndInv, Owned, Of
    <3>5. Keeps(n) /\ looked'[n] = looked[n]
      <4>1. exec[s].stage # "checks" \/ n # exec[s].node
        BY <3>1 DEF IndInv, Owned, Of
      <4> QED
        BY <1>1, <3>4, <4>1 DEF Step1, Own, LookedKept
    <3>6. (ThereBy(n) => ThereBy(n)') /\ (CheckedBy(n) => CheckedBy(n)')
      BY <3>5, KeptStays
    <3>7. Established(t)'
      BY <2>1, <3>1, <3>6 DEF IndInv, Established
    <3> QED
      BY <3>3, <3>7
  <2> QED
    BY <2>2, <2>3
<1>3. ASSUME NEW n \in Node, node'[n] = "done" PROVE CheckedBy(n)'
  <2>1. CASE node[n] # "done"
    BY <1>1, <1>3, <2>1 DEF Step1, Completes
  <2>2. CASE node[n] = "done"
    <3>1. exec[s].stage \notin {"asking", "writing", "checks"} \/ n # exec[s].node
      BY <2>2 DEF IndInv, Owned
    <3>2. Keeps(n) /\ looked'[n] = looked[n]
      BY <1>1, <3>1 DEF Step1, Own, LookedKept
    <3> QED
      BY <2>2, <3>2, KeptStays DEF IndInv, DoneChecked
  <2> QED
    BY <2>1, <2>2
<1> QED
  BY <1>1, <1>2, <1>3 DEF IndInv, Step1, DoneChecked

LEMMA StutterStep ==
  ASSUME IndInv, UNCHANGED vars
  PROVE  IndInv'
<1>1. UNCHANGED <<disk, node, retry, exec, writes, looked>>
  BY DEF vars
<1>2. TypeOK'
  BY <1>1 DEF IndInv, TypeOK
<1>3. \A s \in Session : Owned(s)'
  BY <1>1 DEF IndInv, Owned, Of
<1>4. \A n \in Node : (ThereBy(n) => ThereBy(n)') /\ (CheckedBy(n) => CheckedBy(n)')
  BY <1>1, KeptStays DEF Keeps
<1>5. \A s \in Session : Established(s)'
  <2> SUFFICES ASSUME NEW s \in Session PROVE Established(s)'
    OBVIOUS
  <2>1. CASE exec[s].stage \notin {"checks", "review"}
    BY <1>1, <2>1 DEF Established
  <2>2. CASE exec[s].stage \in {"checks", "review"}
    <3>1. PICK n \in Node : n = exec[s].node
      BY <2>2 DEF IndInv, Owned, Of
    <3> QED
      BY <1>1, <1>4, <3>1 DEF IndInv, Established
  <2> QED
    BY <2>1, <2>2
<1>6. DoneChecked'
  BY <1>1, <1>4 DEF IndInv, DoneChecked
<1> QED
  BY <1>2, <1>3, <1>5, <1>6 DEF IndInv

-----------------------------------------------------------------------------
THEOREM Inductive == Spec => []IndInv
<1>1. Init => IndInv
  BY InitHolds
<1>2. IndInv /\ [Next]_vars => IndInv'
  BY NextStep, StutterStep DEF Next
<1> QED
  BY <1>1, <1>2, PTL DEF Spec

\* Files, nodes and actors only take the values they are meant to.
THEOREM TypeCorrect == Spec => []TypeOK
<1>1. IndInv => TypeOK
  BY DEF IndInv
<1> QED
  BY <1>1, Inductive, PTL

\* For any number of sessions that share a directory, any outputs, and manifests
\* that commands and agents rewrite at any time: what a completed node wrote
\* last is there, and compiles if the last check of its session had the build or
\* a compiler read it (verifier.go, session_runtime.go).
THEOREM Completed == Spec => []CompletedIsChecked
<1>1. IndInv => CompletedIsChecked
  BY DEF IndInv, DoneChecked, CompletedIsChecked, CheckedBy, CompilesBy
<1> QED
  BY <1>1, Inductive, PTL
=============================================================================
