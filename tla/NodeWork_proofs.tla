---------------------------- MODULE NodeWork_proofs ----------------------------
(***************************************************************************)
(* Theorems of NodeWork, for any nodes, testers, outputs and writes, and   *)
(* any number of turns, runs and faults: type correctness, and what is     *)
(* known of the files of completed nodes and of completed runs.            *)
(***************************************************************************)
EXTENDS NodeWork, TLAPS

\* Who works in the present run works for a node shown as running, under its
\* retry count; of earlier runs only executions are left.
Working ==
  \A a \in Agents : agent[a].stage # "none" =>
    /\ a[2] <= run
    /\ a[2] = run => node[a[1]] = "running" /\ agent[a].no = retry[a[1]]
    /\ a[2] < run => agent[a].stage = "asking"

\* No attempt that wrote something is still to come.
Past ==
  \A f \in File : disk[f].by # NoAttempt =>
    /\ disk[f].by[2] <= run
    /\ disk[f].by[2] = run =>
         /\ disk[f].by[3] <= retry[disk[f].by[1]]
         /\ node[disk[f].by[1]] \in {"waiting", "absent"} => disk[f].by[3] < retry[disk[f].by[1]]

\* A node is done exactly when it was completed by an attempt, which is over.
CreditOf(n) ==
  /\ node[n] # "done" => evidence[n].by = NoAttempt
  /\ node[n] = "done" => \E r \in 1..run, k \in Nat :
       evidence[n].by = <<n, r, k>> /\ agent[<<n, r>>].stage = "none"

Credited == \A n \in Node : CreditOf(n)

\* What an attempt wrote elsewhere is in its report, or makes it fatal.
Caught ==
  \A f \in File : disk[f].reported /\ f \notin Allowed(disk[f].by[1]) =>
    /\ \A n \in Node : evidence[n].by # disk[f].by
    /\ \A a \in Agents : disk[f].by = <<a[1], a[2], agent[a].no>> =>
         /\ agent[a].stage = "asking" => f \in agent[a].files
         /\ agent[a].stage = "settled" => agent[a].fatal
         /\ agent[a].stage # "review"

\* What ReportedIsVerified says of a node, for the files an attempt reports.
Sound(n, by, files) ==
  LET own == {f \in files : disk[f].by = by}
  IN  /\ \A f \in own \cap Compiled : disk[f].quality # "broken"
      /\ (own = files /\ HasImplementation(own)) => Accepted(n, own)

ReviewOf(n) ==
  /\ node[n] = "done" => Sound(n, evidence[n].by, evidence[n].files)
  /\ agent[<<n, run>>].stage = "review" => Sound(n, By(n, run), agent[<<n, run>>].files)

Reviewed == \A n \in Node \ Tester : ReviewOf(n)

Ended == graph = "done" => \A n \in Node : agent[<<n, run>>].stage = "none"

IndInv == TypeOK /\ Working /\ Past /\ Credited /\ Caught /\ Reviewed /\ Ended /\ DoneRunCompiles

-----------------------------------------------------------------------------
LEMMA InitHolds == Init => IndInv
<1> USE WorkAssumption
<1> SUFFICES ASSUME Init PROVE IndInv
  OBVIOUS
<1>1. TypeOK
  <2>1. disk \in [File -> Content]
    BY DEF Init, Content
  <2>2. evidence \in [Node -> [by : Attempt \cup {NoAttempt}, files : SUBSET File]]
    BY DEF Init
  <2>3. agent \in [Agents -> [stage : {"none", "asking", "settled", "review"}, no : Nat,
                              turn : 0..MaxTurns, files : SUBSET File, fatal : BOOLEAN]]
    BY DEF Init, Idle
  <2> QED
    BY <2>1, <2>2, <2>3 DEF Init, TypeOK
<1>2. Working /\ Past /\ Caught
  BY DEF Init, Working, Past, Caught, Idle, Missing
<1>3. Credited /\ Reviewed /\ Ended /\ DoneRunCompiles
  BY DEF Init, Credited, CreditOf, Reviewed, ReviewOf, Ended, DoneRunCompiles, Idle, Agents
<1> QED
  BY <1>1, <1>2, <1>3 DEF IndInv

\* Parts of the invariant that the proofs of the steps use again and again.
LEMMA AgentType ==
  ASSUME TypeOK, NEW n \in Node, NEW r \in 1..MaxRuns
  PROVE  /\ <<n, r>> \in Agents
         /\ agent[<<n, r>>] \in [stage : {"none", "asking", "settled", "review"}, no : Nat,
                                 turn : 0..MaxTurns, files : SUBSET File, fatal : BOOLEAN]
         /\ By(n, r) = <<n, r, agent[<<n, r>>].no>> /\ By(n, r) \in Attempt
         /\ run \in 1..MaxRuns
BY DEF TypeOK, Agents, By, Attempt

LEMMA ByType ==
  ASSUME TypeOK, NEW f \in File
  PROVE  /\ disk[f].by \in Attempt \cup {NoAttempt}
         /\ disk[f].reported => disk[f].by \in Attempt
         /\ disk[f].by \in Attempt =>
              /\ disk[f].by = <<disk[f].by[1], disk[f].by[2], disk[f].by[3]>>
              /\ disk[f].by[1] \in Node /\ disk[f].by[2] \in 1..MaxRuns /\ disk[f].by[3] \in Nat
<1>1. disk[f] \in Content
  BY DEF TypeOK
<1>2. disk[f] = Missing \/ (disk[f].by \in Attempt /\ disk[f] # Missing)
  BY <1>1, WorkAssumption DEF Content, Missing
<1>3. CASE disk[f] = Missing
  <2>1. disk[f].by = NoAttempt /\ ~disk[f].reported
    BY <1>3 DEF Missing
  <2>2. NoAttempt \notin Attempt
    BY WorkAssumption DEF NoAttempt, Attempt
  <2> QED
    BY <2>1, <2>2
<1>4. CASE disk[f].by \in Attempt
  BY <1>4 DEF Attempt
<1> QED
  BY <1>2, <1>3, <1>4

LEMMA NobodysIsNoAttempt == \A n \in Node : \A r, k : <<n, r, k>> # NoAttempt
BY WorkAssumption DEF NoAttempt

LEMMA Started ==
  ASSUME NEW k \in Nat
  PROVE  [Idle EXCEPT !.stage = "asking", !.no = k] =
           [stage |-> "asking", no |-> k, turn |-> 0, files |-> {}, fatal |-> FALSE]
<1> PICK i \in [stage : {"none", "asking"}, no : Nat, turn : Nat, files : SUBSET File,
                fatal : BOOLEAN] : i = Idle
  BY DEF Idle
<1>1. /\ i.stage = "none" /\ i.no = 0 /\ i.turn = 0 /\ i.files = {} /\ i.fatal = FALSE
  BY DEF Idle
<1> DEFINE e == [i EXCEPT !.stage = "asking", !.no = k]
<1>2. /\ e \in [stage : {"none", "asking"}, no : Nat, turn : Nat, files : SUBSET File,
                fatal : BOOLEAN]
      /\ e.stage = "asking" /\ e.no = k /\ e.turn = i.turn /\ e.files = i.files
      /\ e.fatal = i.fatal
  OBVIOUS
<1> HIDE DEF e
<1>3. e = [stage |-> "asking", no |-> k, turn |-> 0, files |-> {}, fatal |-> FALSE]
  BY <1>1, <1>2
<1> QED
  BY <1>3 DEF e

\* What a step leaves of the files of an attempt is as sound as it was.
LEMMA SoundKeeps ==
  ASSUME NEW n, NEW by, NEW files,
         \A f \in files : disk'[f] = disk[f] \/ disk'[f].by # by,
         Sound(n, by, files)
  PROVE  Sound(n, by, files)'
<1> DEFINE own == {f \in files : disk[f].by = by}
<1>1. \A f \in own' : f \in own /\ disk'[f] = disk[f]
  OBVIOUS
<1>2. \A f \in own' \cap Compiled : disk'[f].quality # "broken"
  BY <1>1 DEF Sound
<1>3. ASSUME own' = files, HasImplementation(own)' PROVE Accepted(n, own)'
  <2>1. own = files /\ own' = own /\ \A f \in files : disk'[f] = disk[f]
    BY <1>1, <1>3
  <2>2. HasImplementation(own)
    BY <1>3, <2>1 DEF HasImplementation
  <2>3. Accepted(n, own)
    BY <2>1, <2>2 DEF Sound
  <2> QED
    BY <2>1, <2>3 DEF Accepted
<1> QED
  BY <1>2, <1>3 DEF Sound

\* A file somebody takes over is not one of a completed attempt.
LEMMA NotCredited ==
  ASSUME TypeOK, Credited, NEW m \in Node, NEW n \in Node, NEW r \in 1..MaxRuns,
         agent[<<n, r>>].stage # "none"
  PROVE  evidence[m].by # By(n, r)
<1>1. CASE node[m] # "done"
  BY <1>1, AgentType, NobodysIsNoAttempt DEF Credited, CreditOf
<1>2. CASE node[m] = "done"
  <2>1. PICK q \in 1..run, k \in Nat :
          evidence[m].by = <<m, q, k>> /\ agent[<<m, q>>].stage = "none"
    BY <1>2 DEF Credited, CreditOf
  <2> QED
    BY <2>1 DEF By
<1> QED
  BY <1>1, <1>2

\* A completed node was completed by some attempt.
LEMMA DoneIsCredited ==
  ASSUME Credited, NEW n \in Node, node[n] = "done"
  PROVE  evidence[n].by # NoAttempt
<1>1. PICK r \in 1..run, k \in Nat : evidence[n].by = <<n, r, k>>
  BY DEF Credited, CreditOf
<1> QED
  BY <1>1, NobodysIsNoAttempt

AgentRec == [stage : {"none", "asking", "settled", "review"}, no : Nat,
             turn : 0..MaxTurns, files : SUBSET File, fatal : BOOLEAN]

-----------------------------------------------------------------------------
LEMMA StartAttemptHolds ==
  ASSUME IndInv, NEW n \in Node, StartAttempt(n)
  PROVE  IndInv'
<1> USE WorkAssumption
<1> DEFINE new == [stage |-> "asking", no |-> retry[n], turn |-> 0, files |-> {}, fatal |-> FALSE]
<1>1. TypeOK /\ run \in 1..MaxRuns /\ <<n, run>> \in Agents /\ retry[n] \in Nat
  BY DEF IndInv, TypeOK, Agents
<1>2. [Idle EXCEPT !.stage = "asking", !.no = retry[n]] = new
  BY <1>1, Started
<1>3. agent' = [agent EXCEPT ![<<n, run>>] = new] /\ node' = [node EXCEPT ![n] = "running"]
  BY <1>2 DEF StartAttempt
<1>4. graph = "running" /\ node[n] = "waiting" /\ node'[n] = "running"
  BY <1>1, <1>3 DEF StartAttempt, Ready, WithStatus, TypeOK
<1>5. UNCHANGED <<retry, error, evidence, graph, run, writes, faults>>
  BY DEF StartAttempt
<1>6. /\ disk' \in [File -> Content]
      /\ \A f \in File : disk'[f] = disk[f] \/ disk'[f] = Missing
  <2>1. disk' = disk \/ disk' = [disk EXCEPT ![Output[n]] = Missing]
    BY DEF StartAttempt, Cleaned
  <2> QED
    BY <1>1, <2>1 DEF TypeOK, Content
<1>7. new \in [stage : {"none", "asking", "settled", "review"}, no : Nat,
               turn : 0..MaxTurns, files : SUBSET File, fatal : BOOLEAN]
  BY <1>1
<1>8. /\ agent'[<<n, run>>] = new
      /\ \A a \in Agents : a # <<n, run>> => agent'[a] = agent[a]
  BY <1>1, <1>3 DEF TypeOK
<1>9. new.stage = "asking" /\ new.no = retry[n] /\ new.files = {}
  OBVIOUS
<1>10. Missing.by = NoAttempt /\ ~Missing.reported /\ Missing.quality = "none"
  BY DEF Missing
<1> HIDE DEF new
<1>11. TypeOK'
  <2>1. agent' \in [Agents -> [stage : {"none", "asking", "settled", "review"}, no : Nat,
                     turn : 0..MaxTurns, files : SUBSET File, fatal : BOOLEAN]]
    BY <1>1, <1>3, <1>7 DEF TypeOK
  <2>2. node' \in [Node -> {"absent", "waiting", "running", "done", "failed"}]
    BY <1>1, <1>3 DEF TypeOK
  <2> QED
    BY <1>1, <1>5, <1>6, <2>1, <2>2 DEF TypeOK
<1>12. Working'
  <2> SUFFICES ASSUME NEW a \in Agents, agent'[a].stage # "none"
               PROVE  /\ a[2] <= run
                      /\ a[2] = run => node'[a[1]] = "running" /\ agent'[a].no = retry[a[1]]
                      /\ a[2] < run => agent'[a].stage = "asking"
    BY <1>5 DEF Working
  <2>1. CASE a = <<n, run>>
    BY <2>1, <1>1, <1>4, <1>8, <1>9
  <2>2. CASE a # <<n, run>>
    BY <2>2, <1>1, <1>3, <1>8 DEF IndInv, Working, TypeOK, Agents
  <2> QED
    BY <2>1, <2>2
<1>13. Past'
  <2> SUFFICES ASSUME NEW f \in File, disk'[f].by # NoAttempt
               PROVE  /\ disk'[f].by[2] <= run
                      /\ disk'[f].by[2] = run =>
                           /\ disk'[f].by[3] <= retry[disk'[f].by[1]]
                           /\ node'[disk'[f].by[1]] \in {"waiting", "absent"} =>
                                disk'[f].by[3] < retry[disk'[f].by[1]]
    BY <1>5 DEF Past
  <2>1. disk'[f] = disk[f]
    BY <1>6, <1>10
  <2>2. \A m : node'[m] \in {"waiting", "absent"} => node[m] \in {"waiting", "absent"} \/ m \notin Node
    BY <1>1, <1>3, <1>4 DEF TypeOK
  <2>3. disk[f].by[1] \in Node
    BY <1>1, <2>1, ByType
  <2> QED
    BY <2>1, <2>2, <2>3 DEF IndInv, Past
<1>14. Credited'
  <2> SUFFICES ASSUME NEW m \in Node
               PROVE  /\ node'[m] # "done" => evidence[m].by = NoAttempt
                      /\ node'[m] = "done" => \E r \in 1..run, k \in Nat :
                           evidence[m].by = <<m, r, k>> /\ agent'[<<m, r>>].stage = "none"
    BY <1>5 DEF Credited, CreditOf
  <2>1. CASE m = n
    BY <2>1, <1>4 DEF IndInv, Credited, CreditOf
  <2>2. CASE m # n
    <3>1. node'[m] = node[m] /\ \A r \in 1..run : agent'[<<m, r>>] = agent[<<m, r>>]
      BY <2>2, <1>1, <1>3, <1>8 DEF TypeOK, Agents
    <3>2. node[m] # "done" => evidence[m].by = NoAttempt
      BY DEF IndInv, Credited, CreditOf
    <3>3. node[m] = "done" => \E r \in 1..run, k \in Nat :
            evidence[m].by = <<m, r, k>> /\ agent[<<m, r>>].stage = "none"
      BY DEF IndInv, Credited, CreditOf
    <3> QED
      BY <3>1, <3>2, <3>3
  <2> QED
    BY <2>1, <2>2
<1>15. Caught'
  <2> SUFFICES ASSUME NEW f \in File, disk'[f].reported, f \notin Allowed(disk'[f].by[1])
               PROVE  /\ \A m \in Node : evidence[m].by # disk'[f].by
                      /\ \A a \in Agents : disk'[f].by = <<a[1], a[2], agent'[a].no>> =>
                           /\ agent'[a].stage = "asking" => f \in agent'[a].files
                           /\ agent'[a].stage = "settled" => agent'[a].fatal
                           /\ agent'[a].stage # "review"
    BY <1>5 DEF Caught, Allowed
  <2>1. disk'[f] = disk[f] /\ disk[f].reported
    BY <1>6, <1>10
  <2>2. disk[f].by # <<n, run, retry[n]>>
    <3> SUFFICES ASSUME disk[f].by = <<n, run, retry[n]>> PROVE FALSE
      OBVIOUS
    <3>1. disk[f].by # NoAttempt
      BY NobodysIsNoAttempt
    <3>2. disk[f].by[1] = n /\ disk[f].by[2] = run /\ disk[f].by[3] = retry[n]
      OBVIOUS
    <3>3. disk[f].by[3] < retry[disk[f].by[1]]
      BY <3>1, <3>2, <1>4 DEF IndInv, Past
    <3> QED
      BY <3>2, <3>3, <1>1
  <2>3. f \notin Allowed(disk[f].by[1])
    BY <2>1 DEF Allowed
  <2>4. \A m \in Node : evidence[m].by # disk[f].by
    BY <2>1, <2>3 DEF IndInv, Caught
  <2>5. ASSUME NEW a \in Agents, disk[f].by = <<a[1], a[2], agent'[a].no>>
        PROVE  /\ agent'[a].stage = "asking" => f \in agent'[a].files
               /\ agent'[a].stage = "settled" => agent'[a].fatal
               /\ agent'[a].stage # "review"
    <3>1. a # <<n, run>>
      BY <2>2, <2>5, <1>8, <1>9
    <3>2. agent'[a] = agent[a]
      BY <3>1, <1>8
    <3> QED
      BY <2>1, <2>3, <2>5, <3>2 DEF IndInv, Caught
  <2> QED
    BY <2>1, <2>4, <2>5
<1>16. Reviewed'
  <2> SUFFICES ASSUME NEW m \in Node \ Tester
               PROVE  /\ node'[m] = "done" => Sound(m, evidence[m].by, evidence[m].files)'
                      /\ agent'[<<m, run>>].stage = "review" =>
                           Sound(m, By(m, run), agent[<<m, run>>].files)'
    BY <1>5 DEF Reviewed, ReviewOf
  <2>1. ASSUME node'[m] = "done" PROVE Sound(m, evidence[m].by, evidence[m].files)'
    <3>1. node[m] = "done"
      BY <2>1, <1>1, <1>3 DEF TypeOK
    <3>2. PICK e : e = evidence[m]
      OBVIOUS
    <3>3. e.by # NoAttempt /\ Sound(m, e.by, e.files) /\ e.files \subseteq File
      BY <3>1, <3>2, <1>1, DoneIsCredited DEF IndInv, Reviewed, ReviewOf, TypeOK
    <3>4. Sound(m, e.by, e.files)'
      BY <3>3, <1>6, <1>10, SoundKeeps
    <3> QED
      BY <3>2, <3>4, <1>5
  <2>2. ASSUME agent'[<<m, run>>].stage = "review"
        PROVE  Sound(m, By(m, run), agent[<<m, run>>].files)'
    <3>1. agent'[<<m, run>>] = agent[<<m, run>>]
      BY <2>2, <1>1, <1>8, <1>9 DEF Agents
    <3>2. PICK e, b : e = agent[<<m, run>>] /\ b = By(m, run)
      OBVIOUS
    <3>3. Sound(m, b, e.files) /\ e.files \subseteq File /\ b # NoAttempt
      <4>1. Sound(m, b, e.files)
        BY <3>1, <3>2, <2>2 DEF IndInv, Reviewed, ReviewOf
      <4>2. e.files \subseteq File
        BY <3>2, <1>1, AgentType
      <4>3. b # NoAttempt
        BY <3>2, <1>1, AgentType, NobodysIsNoAttempt
      <4> QED
        BY <4>1, <4>2, <4>3
    <3>4. Sound(m, b, e.files)'
      BY <3>3, <1>6, <1>10, SoundKeeps
    <3>5. By(m, run)' = b /\ agent'[<<m, run>>] = e
      BY <3>1, <3>2, <1>5 DEF By
    <3> QED
      BY <3>4, <3>5, <1>5
  <2> QED
    BY <2>1, <2>2
<1>17. Ended' /\ DoneRunCompiles'
  BY <1>4, <1>5 DEF Ended, DoneRunCompiles
<1> QED
  BY <1>11, <1>12, <1>13, <1>14, <1>15, <1>16, <1>17 DEF IndInv

\* An execution makes a call or ends; what it writes bears its name.
LEMMA ExecutionHolds ==
  ASSUME IndInv, NEW n \in Node, NEW r \in 1..MaxRuns, agent[<<n, r>>].stage = "asking",
         NEW new \in AgentRec, agent' = [agent EXCEPT ![<<n, r>>] = new],
         UNCHANGED <<loop, graph, run, faults>>,
         disk' \in [File -> Content], writes' \in 0..MaxWrites,
         \A f \in File : \/ disk'[f] = disk[f]
                         \/ /\ new.stage = "asking" /\ disk'[f].by = By(n, r)
                            /\ disk'[f].reported => f \in new.files,
         \/ new.stage = "none"
         \/ /\ new.stage = "asking" /\ new.no = agent[<<n, r>>].no
            /\ agent[<<n, r>>].files \subseteq new.files
         \/ /\ r = run /\ new.stage = "settled" /\ new.no = agent[<<n, r>>].no
            /\ ~new.fatal => StaysWithin(n, agent[<<n, r>>].files)
  PROVE  IndInv'
<1>1. TypeOK /\ run \in 1..MaxRuns /\ <<n, r>> \in Agents /\ By(n, r) \in Attempt
      /\ By(n, r) = <<n, r, agent[<<n, r>>].no>>
  BY AgentType DEF IndInv
<1>2. UNCHANGED <<node, retry, error, evidence>>
  BY DEF loop
<1>3. /\ agent'[<<n, r>>] = new
      /\ \A a \in Agents : a # <<n, r>> => agent'[a] = agent[a]
  BY <1>1 DEF TypeOK
<1>4. /\ r <= run
      /\ r = run => node[n] = "running" /\ agent[<<n, r>>].no = retry[n]
  BY <1>1 DEF IndInv, Working
<1>5. \A m \in Node : evidence[m].by # By(n, r)
  BY <1>1, NotCredited DEF IndInv
<1>6. \A a \in Agents : agent[a].stage # "asking" => <<a[1], a[2], agent[a].no>> # By(n, r)
  BY <1>1 DEF Agents
<1>7. TypeOK'
  <2>1. agent' \in [Agents -> AgentRec]
    BY <1>1 DEF TypeOK, AgentRec
  <2> QED
    BY <1>1, <1>2, <2>1 DEF TypeOK, AgentRec
<1>8. Working'
  <2> SUFFICES ASSUME NEW a \in Agents, agent'[a].stage # "none"
               PROVE  /\ a[2] <= run
                      /\ a[2] = run => node[a[1]] = "running" /\ agent'[a].no = retry[a[1]]
                      /\ a[2] < run => agent'[a].stage = "asking"
    BY <1>2 DEF Working
  <2>1. CASE a = <<n, r>>
    BY <2>1, <1>1, <1>3, <1>4
  <2>2. CASE a # <<n, r>>
    BY <2>2, <1>3 DEF IndInv, Working
  <2> QED
    BY <2>1, <2>2
<1>9. Past'
  <2> SUFFICES ASSUME NEW f \in File, disk'[f].by # NoAttempt
               PROVE  /\ disk'[f].by[2] <= run
                      /\ disk'[f].by[2] = run =>
                           /\ disk'[f].by[3] <= retry[disk'[f].by[1]]
                           /\ node[disk'[f].by[1]] \in {"waiting", "absent"} =>
                                disk'[f].by[3] < retry[disk'[f].by[1]]
    BY <1>2 DEF Past
  <2>1. CASE disk'[f] = disk[f]
    BY <2>1 DEF IndInv, Past
  <2>2. CASE disk'[f].by = By(n, r)
    <3>1. retry[n] \in Nat /\ disk'[f].by[1] = n /\ disk'[f].by[2] = r
          /\ disk'[f].by[3] = agent[<<n, r>>].no
      BY <2>2, <1>1 DEF TypeOK
    <3> QED
      BY <3>1, <1>4
  <2> QED
    BY <2>1, <2>2
<1>10. Credited'
  <2> SUFFICES ASSUME NEW m \in Node, node[m] = "done"
               PROVE  \E q \in 1..run, k \in Nat :
                        evidence[m].by = <<m, q, k>> /\ agent'[<<m, q>>].stage = "none"
    BY <1>2 DEF Credited, CreditOf, IndInv
  <2>1. PICK q \in 1..run, k \in Nat :
          evidence[m].by = <<m, q, k>> /\ agent[<<m, q>>].stage = "none"
    BY DEF IndInv, Credited, CreditOf
  <2>2. <<m, q>> \in Agents /\ <<m, q>> # <<n, r>>
    <3>1. q \in 1..MaxRuns
      BY <1>1, WorkAssumption
    <3>2. <<m, q>> # <<n, r>>
      BY <2>1
    <3> QED
      BY <3>1, <3>2 DEF Agents
  <2> QED
    BY <2>1, <2>2, <1>3
<1>11. Caught'
  <2> SUFFICES ASSUME NEW f \in File, disk'[f].reported, f \notin Allowed(disk'[f].by[1])
               PROVE  /\ \A m \in Node : evidence[m].by # disk'[f].by
                      /\ \A a \in Agents : disk'[f].by = <<a[1], a[2], agent'[a].no>> =>
                           /\ agent'[a].stage = "asking" => f \in agent'[a].files
                           /\ agent'[a].stage = "settled" => agent'[a].fatal
                           /\ agent'[a].stage # "review"
    BY <1>2 DEF Caught, Allowed
  <2>1. CASE disk'[f] = disk[f]
    <3>1. f \notin Allowed(disk[f].by[1])
      BY <2>1 DEF Allowed
    <3>2. \A m \in Node : evidence[m].by # disk'[f].by
      BY <2>1, <3>1 DEF IndInv, Caught
    <3>3. ASSUME NEW a \in Agents, disk[f].by = <<a[1], a[2], agent'[a].no>>
          PROVE  /\ agent'[a].stage = "asking" => f \in agent'[a].files
                 /\ agent'[a].stage = "settled" => agent'[a].fatal
                 /\ agent'[a].stage # "review"
      <4>1. CASE a # <<n, r>>
        BY <4>1, <2>1, <3>1, <3>3, <1>3 DEF IndInv, Caught
      <4>2. CASE a = <<n, r>> /\ new.no = agent[<<n, r>>].no
        <5>1. disk[f].by[1] = n /\ f \in agent[<<n, r>>].files
          BY <4>2, <2>1, <3>1, <3>3, <1>1, <1>3 DEF IndInv, Caught
        <5>2. ~StaysWithin(n, agent[<<n, r>>].files)
          BY <5>1, <3>1 DEF StaysWithin
        <5> QED
          BY <4>2, <5>1, <5>2, <1>3
      <4>3. CASE a = <<n, r>> /\ new.stage = "none"
        BY <4>3, <1>3
      <4> QED
        BY <4>1, <4>2, <4>3
    <3> QED
      BY <2>1, <3>2, <3>3
  <2>2. CASE /\ new.stage = "asking" /\ disk'[f].by = By(n, r)
             /\ disk'[f].reported => f \in new.files
    <3>1. ASSUME NEW a \in Agents, By(n, r) = <<a[1], a[2], agent'[a].no>>
          PROVE  a = <<n, r>>
      BY <3>1, <1>1 DEF Agents
    <3> QED
      BY <2>2, <3>1, <1>3, <1>5
  <2> QED
    BY <2>1, <2>2
<1>12. Reviewed'
  <2> SUFFICES ASSUME NEW m \in Node \ Tester
               PROVE  /\ node[m] = "done" => Sound(m, evidence[m].by, evidence[m].files)'
                      /\ agent'[<<m, run>>].stage = "review" =>
                           Sound(m, By(m, run), agent[<<m, run>>].files)'
    BY <1>2 DEF Reviewed, ReviewOf
  <2>1. ASSUME node[m] = "done" PROVE Sound(m, evidence[m].by, evidence[m].files)'
    <3>1. PICK e : e = evidence[m]
      OBVIOUS
    <3>2. e.by # By(n, r) /\ Sound(m, e.by, e.files) /\ e.files \subseteq File
      BY <2>1, <3>1, <1>1, <1>5 DEF IndInv, Reviewed, ReviewOf, TypeOK
    <3>3. Sound(m, e.by, e.files)'
      BY <3>2, SoundKeeps
    <3> QED
      BY <3>1, <3>3, <1>2
  <2>2. ASSUME agent'[<<m, run>>].stage = "review"
        PROVE  Sound(m, By(m, run), agent[<<m, run>>].files)'
    <3>1. <<m, run>> \in Agents /\ agent'[<<m, run>>] = agent[<<m, run>>]
      BY <2>2, <1>1, <1>3 DEF Agents
    <3>2. PICK e, b : e = agent[<<m, run>>] /\ b = By(m, run)
      OBVIOUS
    <3>3. b # By(n, r)
      BY <3>1, <3>2, <2>2, <1>1 DEF By
    <3>4. Sound(m, b, e.files) /\ e.files \subseteq File
      <4>1. Sound(m, b, e.files)
        BY <3>1, <3>2, <2>2 DEF IndInv, Reviewed, ReviewOf
      <4> QED
        BY <4>1, <3>2, <1>1, AgentType
    <3>5. Sound(m, b, e.files)'
      BY <3>3, <3>4, SoundKeeps
    <3>6. By(m, run)' = b /\ agent'[<<m, run>>] = e
      BY <3>1, <3>2 DEF By
    <3> QED
      BY <3>5, <3>6
  <2> QED
    BY <2>1, <2>2
<1>13. Ended'
  BY <1>1, <1>3 DEF IndInv, Ended, Agents
<1>14. DoneRunCompiles'
  <2> SUFFICES ASSUME graph = "done", NEW f \in OutputFiles, disk'[f].quality = "broken"
               PROVE  disk'[f].by[2] # run
    BY <1>2 DEF DoneRunCompiles, OutputFiles
  <2>1. r # run
    BY <1>1 DEF IndInv, Ended
  <2>2. f \in File
    BY WorkAssumption DEF OutputFiles
  <2> QED
    BY <2>1, <2>2, <1>1 DEF IndInv, DoneRunCompiles
<1> QED
  BY <1>7, <1>8, <1>9, <1>10, <1>11, <1>12, <1>13, <1>14 DEF IndInv

LEMMA TurnHolds ==
  ASSUME IndInv, NEW n \in Node, NEW r \in 1..MaxRuns, Turn(n, r)
  PROVE  IndInv'
<1> PICK att : att = agent[<<n, r>>]
  OBVIOUS
<1>1. TypeOK /\ att \in AgentRec /\ By(n, r) \in Attempt /\ att.stage = "asking"
  BY AgentType DEF IndInv, AgentRec, Turn
<1>2. UNCHANGED <<loop, graph, run, faults>>
  BY DEF Turn
<1>3. Idle \in AgentRec /\ Idle.stage = "none"
  BY WorkAssumption DEF Idle, AgentRec
<1>4. ASSUME NEW fatal \in BOOLEAN, Settle(n, r, fatal), ~fatal => StaysWithin(n, att.files)
      PROVE  IndInv'
  <2>1. UNCHANGED <<disk, writes>>
    BY <1>4 DEF Settle
  <2>2. disk' \in [File -> Content] /\ writes' \in 0..MaxWrites
    BY <2>1, <1>1 DEF TypeOK
  <2>3. CASE r # run
    BY <2>1, <2>2, <2>3, <1>1, <1>2, <1>3, <1>4, ExecutionHolds DEF Settle
  <2>4. CASE r = run
    <3> DEFINE new == [Idle EXCEPT !.stage = "settled", !.no = att.no, !.fatal = fatal,
                                   !.files = IF fatal THEN {} ELSE att.files]
    <3>1. agent' = [agent EXCEPT ![<<n, r>>] = new]
      BY <2>4, <1>4 DEF Settle
    <3>2. new \in AgentRec /\ new.stage = "settled" /\ new.no = att.no /\ new.fatal = fatal
      <4> PICK i \in AgentRec : i = Idle
        BY <1>3
      <4> DEFINE e == [i EXCEPT !.stage = "settled", !.no = att.no, !.fatal = fatal,
                                !.files = IF fatal THEN {} ELSE att.files]
      <4>1. e \in AgentRec /\ e.stage = "settled" /\ e.no = att.no /\ e.fatal = fatal
        BY <1>1, <1>4 DEF AgentRec
      <4> QED
        BY <4>1
    <3> HIDE DEF new
    <3> QED
      BY <3>1, <3>2, <2>1, <2>2, <2>4, <1>1, <1>2, <1>4, ExecutionHolds
  <2> QED
    BY <2>3, <2>4
<1>5. ASSUME att.turn # MaxTurns, ToolCall(n, r)
      PROVE  IndInv'
  <2> DEFINE next == [att EXCEPT !.turn = @ + 1]
  <2>1. next \in AgentRec /\ next.stage = "asking" /\ next.no = att.no /\ next.files = att.files
    <3>1. att.turn + 1 \in 0..MaxTurns
      BY <1>1, <1>5, WorkAssumption DEF AgentRec
    <3> QED
      BY <3>1, <1>1 DEF AgentRec
  <2> HIDE DEF next
  <2>2. CASE agent' = [agent EXCEPT ![<<n, r>>] = next] /\ UNCHANGED <<disk, writes>>
    <3>1. disk' \in [File -> Content] /\ writes' \in 0..MaxWrites
      BY <2>2, <1>1 DEF TypeOK
    <3> QED
      BY <2>1, <2>2, <3>1, <1>1, <1>2, ExecutionHolds
  <2>3. ASSUME NEW w \in Writes, NEW reported \in BOOLEAN, writes < MaxWrites, writes' = writes + 1,
               disk' = [disk EXCEPT ![w[1]] = [quality |-> w[2], by |-> By(n, r), reported |-> reported]],
               agent' = [agent EXCEPT ![<<n, r>>] =
                 IF reported THEN [next EXCEPT !.files = @ \cup {w[1]}] ELSE next]
        PROVE  IndInv'
    <3> DEFINE content == [quality |-> w[2], by |-> By(n, r), reported |-> reported]
    <3> DEFINE new == IF reported THEN [next EXCEPT !.files = @ \cup {w[1]}] ELSE next
    <3>1. w[1] \in File /\ w[2] \in Quality
      BY WorkAssumption DEF Quality
    <3>2. content \in Content /\ content.by = By(n, r) /\ content.reported = reported
      BY <3>1, <1>1 DEF Content
    <3>3. /\ new \in AgentRec /\ new.stage = "asking" /\ new.no = att.no
          /\ att.files \subseteq new.files /\ (reported => w[1] \in new.files)
      <4>1. CASE reported
        BY <4>1, <3>1, <2>1 DEF AgentRec
      <4>2. CASE ~reported
        BY <4>2, <2>1
      <4> QED
        BY <4>1, <4>2
    <3>4. agent' = [agent EXCEPT ![<<n, r>>] = new] /\ disk' = [disk EXCEPT ![w[1]] = content]
      BY <2>3
    <3> HIDE DEF new, content
    <3>5. disk' \in [File -> Content] /\ writes' \in 0..MaxWrites
      BY <3>1, <3>2, <3>4, <2>3, <1>1, WorkAssumption DEF TypeOK
    <3>6. \A f \in File : \/ disk'[f] = disk[f]
                          \/ /\ new.stage = "asking" /\ disk'[f].by = By(n, r)
                             /\ disk'[f].reported => f \in new.files
      BY <3>1, <3>2, <3>3, <3>4, <1>1 DEF TypeOK
    <3> QED
      BY <3>3, <3>4, <3>5, <3>6, <1>1, <1>2, ExecutionHolds
  <2>4. \/ agent' = [agent EXCEPT ![<<n, r>>] = next] /\ UNCHANGED <<disk, writes>>
        \/ \E w \in Writes, reported \in BOOLEAN :
             /\ writes < MaxWrites /\ writes' = writes + 1
             /\ disk' = [disk EXCEPT ![w[1]] = [quality |-> w[2], by |-> By(n, r), reported |-> reported]]
             /\ agent' = [agent EXCEPT ![<<n, r>>] =
                  IF reported THEN [next EXCEPT !.files = @ \cup {w[1]}] ELSE next]
    BY <1>5 DEF ToolCall, next
  <2> QED
    BY <2>2, <2>3, <2>4
<1>6. \/ Settle(n, r, ~StaysWithin(n, att.files))
      \/ Settle(n, r, TRUE)
      \/ att.turn # MaxTurns /\ ToolCall(n, r)
  BY DEF Turn
<1> QED
  BY <1>4, <1>5, <1>6

-----------------------------------------------------------------------------
(* The result of an attempt                                                 *)

\* What is known of the attempt whose result is handled.
LEMMA AttemptInHand ==
  ASSUME IndInv, NEW n \in Node, agent[<<n, run>>].stage # "none"
  PROVE  /\ TypeOK /\ run \in 1..MaxRuns /\ <<n, run>> \in Agents /\ agent[<<n, run>>] \in AgentRec
         /\ node[n] = "running" /\ agent[<<n, run>>].no = retry[n] /\ evidence[n].by = NoAttempt
         /\ Idle \in AgentRec /\ Idle.stage = "none"
<1>1. TypeOK /\ run \in 1..MaxRuns /\ <<n, run>> \in Agents /\ agent[<<n, run>>] \in AgentRec
  BY AgentType DEF IndInv, TypeOK, AgentRec, Agents
<1>2. node[n] = "running" /\ agent[<<n, run>>].no = retry[n]
  BY <1>1 DEF IndInv, Working
<1>3. evidence[n].by = NoAttempt
  BY <1>2 DEF IndInv, Credited, CreditOf
<1> QED
  BY <1>1, <1>2, <1>3, WorkAssumption DEF Idle, AgentRec

\* A step that takes an attempt out of hand keeps what is known of the others.
LEMMA OthersStay ==
  ASSUME IndInv, NEW n \in Node, agent[<<n, run>>].stage # "none",
         NEW new \in AgentRec, agent' = [agent EXCEPT ![<<n, run>>] = new],
         UNCHANGED <<disk, graph, run>>, \A m \in Node \ {n} : UNCHANGED <<node[m], retry[m], evidence[m]>>
  PROVE  /\ agent' \in [Agents -> AgentRec] /\ agent'[<<n, run>>] = new
         /\ \A a \in Agents : a # <<n, run>> => agent'[a] = agent[a]
         /\ \A a \in Agents : a # <<n, run>> /\ agent'[a].stage # "none" =>
              /\ a[2] <= run
              /\ a[2] = run => node'[a[1]] = "running" /\ agent'[a].no = retry'[a[1]]
              /\ a[2] < run => agent'[a].stage = "asking"
         /\ \A m \in Node \ {n} : CreditOf(m)'
         /\ \A m \in Node \ (Tester \cup {n}) : ReviewOf(m)'
<1>1. TypeOK /\ run \in 1..MaxRuns /\ <<n, run>> \in Agents
  BY AttemptInHand
<1>2. /\ agent' \in [Agents -> AgentRec] /\ agent'[<<n, run>>] = new
      /\ \A a \in Agents : a # <<n, run>> => agent'[a] = agent[a]
  BY <1>1 DEF TypeOK, AgentRec
<1>3. ASSUME NEW a \in Agents, a # <<n, run>>, agent'[a].stage # "none"
      PROVE  /\ a[2] <= run
             /\ a[2] = run => node'[a[1]] = "running" /\ agent'[a].no = retry'[a[1]]
             /\ a[2] < run => agent'[a].stage = "asking"
  <2>1. a[1] \in Node /\ a = <<a[1], a[2]>>
    BY DEF Agents
  <2> QED
    BY <2>1, <1>2, <1>3 DEF IndInv, Working
<1>4. ASSUME NEW m \in Node \ {n}
      PROVE  CreditOf(m)'
  <2>1. \A r \in 1..run : agent'[<<m, r>>] = agent[<<m, r>>]
    <3>1. \A r \in 1..run : r \in 1..MaxRuns
      BY <1>1, WorkAssumption
    <3> QED
      BY <3>1, <1>2 DEF Agents
  <2>2. node[m] # "done" => evidence[m].by = NoAttempt
    BY DEF IndInv, Credited, CreditOf
  <2>3. node[m] = "done" => \E r \in 1..run, k \in Nat :
          evidence[m].by = <<m, r, k>> /\ agent[<<m, r>>].stage = "none"
    BY DEF IndInv, Credited, CreditOf
  <2> QED
    BY <2>1, <2>2, <2>3 DEF CreditOf
<1>5. ASSUME NEW m \in Node \ (Tester \cup {n})
      PROVE  ReviewOf(m)'
  <2>1. agent'[<<m, run>>] = agent[<<m, run>>] /\ node'[m] = node[m] /\ evidence'[m] = evidence[m]
    BY <1>1, <1>2 DEF Agents
  <2>2. PICK e, h, b : e = evidence[m] /\ h = agent[<<m, run>>] /\ b = By(m, run)
    OBVIOUS
  <2>3. By(m, run)' = b
    BY <2>1, <2>2 DEF By
  <2>4. Sound(m, e.by, e.files) => Sound(m, e.by, e.files)'
    BY SoundKeeps
  <2>5. Sound(m, b, h.files) => Sound(m, b, h.files)'
    BY SoundKeeps
  <2>6. /\ node[m] = "done" => Sound(m, e.by, e.files)
        /\ h.stage = "review" => Sound(m, b, h.files)
    BY <2>2 DEF IndInv, Reviewed, ReviewOf
  <2> QED
    BY <2>1, <2>2, <2>3, <2>4, <2>5, <2>6 DEF ReviewOf
<1> QED
  BY <1>2, <1>3, <1>4, <1>5

LEMMA RejectedHolds ==
  ASSUME IndInv, NEW n \in Node, agent[<<n, run>>].stage # "none",
         NEW kind \in {"fatal", "other"}, Rejected(n, kind), graph = "running",
         UNCHANGED <<disk, graph, run, writes, faults>>
  PROVE  IndInv'
<1>1. /\ TypeOK /\ run \in 1..MaxRuns /\ <<n, run>> \in Agents /\ node[n] = "running"
      /\ evidence[n].by = NoAttempt /\ Idle \in AgentRec /\ Idle.stage = "none"
  BY AttemptInHand
<1>2. agent' = [agent EXCEPT ![<<n, run>>] = Idle] /\ evidence' = evidence
  BY DEF Rejected
<1>3. /\ node' \in [Node -> {"absent", "waiting", "running", "done", "failed"}]
      /\ retry' \in [Node -> Nat] /\ error' \in [Node -> {"none", "fatal", "other"}]
      /\ \A m \in Node \ {n} : node'[m] = node[m] /\ retry'[m] = retry[m]
      /\ \/ node'[n] = "waiting" /\ retry'[n] = retry[n] + 1
         \/ node'[n] = "failed" /\ retry'[n] = retry[n]
  <2>1. CASE /\ node' = [node EXCEPT ![n] = "waiting"] /\ retry' = [retry EXCEPT ![n] = @ + 1]
             /\ error' = [error EXCEPT ![n] = kind]
    BY <2>1, <1>1 DEF TypeOK
  <2>2. CASE node' = [node EXCEPT ![n] = "failed"] /\ UNCHANGED <<retry, error>>
    BY <2>2, <1>1 DEF TypeOK
  <2> QED
    BY <2>1, <2>2 DEF Rejected
<1>4. \A m \in Node \ {n} : UNCHANGED <<node[m], retry[m], evidence[m]>>
  BY <1>2, <1>3
<1>5. TypeOK'
  <2>1. agent' \in [Agents -> AgentRec]
    BY <1>1, <1>2 DEF TypeOK, AgentRec
  <2> QED
    BY <1>1, <1>2, <1>3, <2>1 DEF TypeOK, AgentRec
<1>6. Working'
  BY <1>1, <1>2, <1>4, OthersStay DEF Working
<1>7. Past'
  <2> SUFFICES ASSUME NEW f \in File, disk[f].by # NoAttempt
               PROVE  /\ disk[f].by[2] <= run
                      /\ disk[f].by[2] = run =>
                           /\ disk[f].by[3] <= retry'[disk[f].by[1]]
                           /\ node'[disk[f].by[1]] \in {"waiting", "absent"} =>
                                disk[f].by[3] < retry'[disk[f].by[1]]
    BY DEF Past
  <2>1. PICK m \in Node, k \in Nat : m = disk[f].by[1] /\ k = disk[f].by[3]
    BY <1>1, ByType
  <2>2. /\ disk[f].by[2] <= run
        /\ disk[f].by[2] = run =>
             k <= retry[m] /\ (node[m] \in {"waiting", "absent"} => k < retry[m])
    BY <2>1 DEF IndInv, Past
  <2>3. retry[m] \in Nat
    BY <1>1 DEF TypeOK
  <2>4. CASE m = n
    BY <2>1, <2>2, <2>3, <2>4, <1>3
  <2>5. CASE m # n
    BY <2>1, <2>2, <2>5, <1>3
  <2> QED
    BY <2>4, <2>5
<1>8. Credited'
  <2>1. node'[n] # "done" /\ evidence'[n].by = NoAttempt
    BY <1>1, <1>2, <1>3
  <2>2. ASSUME NEW m \in Node, m # n
        PROVE  CreditOf(m)'
    BY <2>2, <1>1, <1>2, <1>4, OthersStay
  <2> QED
    BY <2>1, <2>2 DEF Credited, CreditOf
<1>9. Caught'
  <2> SUFFICES ASSUME NEW f \in File, disk[f].reported, f \notin Allowed(disk[f].by[1]),
                      NEW a \in Agents, disk[f].by = <<a[1], a[2], agent'[a].no>>
               PROVE  /\ agent'[a].stage = "asking" => f \in agent'[a].files
                      /\ agent'[a].stage = "settled" => agent'[a].fatal
                      /\ agent'[a].stage # "review"
    BY <1>2 DEF Caught, Allowed, IndInv
  <2>1. CASE a = <<n, run>>
    BY <2>1, <1>1, <1>2, <1>4, OthersStay
  <2>2. CASE a # <<n, run>>
    <3>1. agent'[a] = agent[a]
      BY <2>2, <1>1, <1>2, <1>4, OthersStay
    <3> QED
      BY <3>1 DEF IndInv, Caught
  <2> QED
    BY <2>1, <2>2
<1>10. Reviewed'
  <2>1. node'[n] # "done" /\ agent'[<<n, run>>].stage # "review"
    BY <1>1, <1>2, <1>3, <1>4, OthersStay
  <2>2. ASSUME NEW m \in Node \ Tester, m # n
        PROVE  ReviewOf(m)'
    BY <2>2, <1>1, <1>2, <1>4, OthersStay
  <2> QED
    BY <2>1, <2>2 DEF Reviewed, ReviewOf
<1>11. Ended' /\ DoneRunCompiles'
  BY DEF Ended, DoneRunCompiles
<1> QED
  BY <1>5, <1>6, <1>7, <1>8, <1>9, <1>10, <1>11 DEF IndInv

LEMMA CompletedHolds ==
  ASSUME IndInv, NEW n \in Node, agent[<<n, run>>].stage \in {"settled", "review"},
         agent[<<n, run>>].stage = "settled" =>
           ~agent[<<n, run>>].fatal /\ agent[<<n, run>>].files = {},
         Completed(n), graph = "running", UNCHANGED <<disk, graph, run, writes, faults>>
  PROVE  IndInv'
<1> PICK att, by : att = agent[<<n, run>>] /\ by = By(n, run)
  OBVIOUS
<1>1. /\ TypeOK /\ run \in 1..MaxRuns /\ <<n, run>> \in Agents /\ node[n] = "running"
      /\ Idle \in AgentRec /\ Idle.stage = "none" /\ att \in AgentRec
  BY AttemptInHand
<1>2. by \in Attempt /\ by = <<n, run, att.no>> /\ att.no \in Nat /\ att.files \subseteq File
  BY <1>1, AgentType
<1>3. agent' = [agent EXCEPT ![<<n, run>>] = Idle] /\ retry' = retry /\ error' = error
  BY DEF Completed
<1>4. /\ node' \in [Node -> {"absent", "waiting", "running", "done", "failed"}]
      /\ node'[n] = "done" /\ \A m \in Node \ {n} : node'[m] = node[m]
  BY <1>1 DEF TypeOK, Completed
<1>5. /\ evidence' \in [Node -> [by : Attempt \cup {NoAttempt}, files : SUBSET File]]
      /\ evidence'[n].by = by /\ evidence'[n].files = att.files
      /\ \A m \in Node \ {n} : evidence'[m] = evidence[m]
  <2> DEFINE e == [by |-> by, files |-> att.files]
  <2>1. evidence' = [evidence EXCEPT ![n] = e]
    BY DEF Completed, Evidence
  <2>2. e \in [by : Attempt \cup {NoAttempt}, files : SUBSET File] /\ e.by = by /\ e.files = att.files
    BY <1>2
  <2> HIDE DEF e
  <2> QED
    BY <2>1, <2>2, <1>1 DEF TypeOK
<1>6. \A m \in Node \ {n} : UNCHANGED <<node[m], retry[m], evidence[m]>>
  BY <1>3, <1>4, <1>5
<1>7. TypeOK'
  <2>1. agent' \in [Agents -> AgentRec]
    BY <1>1, <1>3 DEF TypeOK, AgentRec
  <2> QED
    BY <1>1, <1>3, <1>4, <1>5, <2>1 DEF TypeOK, AgentRec
<1>8. Working'
  BY <1>1, <1>3, <1>6, OthersStay DEF Working
<1>9. Past'
  <2> SUFFICES ASSUME NEW f \in File, disk[f].by # NoAttempt
               PROVE  /\ disk[f].by[2] <= run
                      /\ disk[f].by[2] = run =>
                           /\ disk[f].by[3] <= retry[disk[f].by[1]]
                           /\ node'[disk[f].by[1]] \in {"waiting", "absent"} =>
                                disk[f].by[3] < retry[disk[f].by[1]]
    BY <1>3 DEF Past
  <2>1. disk[f].by[1] \in Node
    BY <1>1, ByType
  <2>2. node'[disk[f].by[1]] \in {"waiting", "absent"} => node[disk[f].by[1]] \in {"waiting", "absent"}
    BY <2>1, <1>4
  <2> QED
    BY <2>2 DEF IndInv, Past
<1>10. Credited'
  <2>1. evidence'[n].by = <<n, run, att.no>> /\ agent'[<<n, run>>].stage = "none"
    BY <1>1, <1>2, <1>3, <1>5, <1>6, OthersStay
  <2>2. run \in 1..run
    BY <1>1, WorkAssumption
  <2>3. ASSUME NEW m \in Node, m # n
        PROVE  CreditOf(m)'
    BY <2>3, <1>1, <1>3, <1>6, OthersStay
  <2> QED
    BY <2>1, <2>2, <2>3, <1>2, <1>4 DEF Credited, CreditOf
<1>11. Caught'
  <2> SUFFICES ASSUME NEW f \in File, disk[f].reported, f \notin Allowed(disk[f].by[1])
               PROVE  /\ \A m \in Node : evidence'[m].by # disk[f].by
                      /\ \A a \in Agents : disk[f].by = <<a[1], a[2], agent'[a].no>> =>
                           /\ agent'[a].stage = "asking" => f \in agent'[a].files
                           /\ agent'[a].stage = "settled" => agent'[a].fatal
                           /\ agent'[a].stage # "review"
    BY DEF Caught, Allowed
  <2>1. disk[f].by # by
    <3> SUFFICES ASSUME disk[f].by = by PROVE FALSE
      OBVIOUS
    <3>1. disk[f].by = <<<<n, run>>[1], <<n, run>>[2], agent[<<n, run>>].no>>
      BY <1>2
    <3> QED
      BY <3>1, <1>1 DEF IndInv, Caught
  <2>2. \A m \in Node : evidence'[m].by # disk[f].by
    BY <2>1, <1>5 DEF IndInv, Caught
  <2>3. ASSUME NEW a \in Agents, disk[f].by = <<a[1], a[2], agent'[a].no>>
        PROVE  /\ agent'[a].stage = "asking" => f \in agent'[a].files
               /\ agent'[a].stage = "settled" => agent'[a].fatal
               /\ agent'[a].stage # "review"
    <3>1. CASE a = <<n, run>>
      BY <3>1, <1>1, <1>3, <1>6, OthersStay
    <3>2. CASE a # <<n, run>>
      <4>1. agent'[a] = agent[a]
        BY <3>2, <1>1, <1>3, <1>6, OthersStay
      <4> QED
        BY <4>1, <2>3 DEF IndInv, Caught
    <3> QED
      BY <3>1, <3>2
  <2> QED
    BY <2>2, <2>3
<1>12. Reviewed'
  <2>1. n \notin Tester => Sound(n, by, att.files)
    <3>1. CASE att.stage = "review"
      BY <3>1 DEF IndInv, Reviewed, ReviewOf
    <3>2. CASE att.files = {}
      BY <3>2 DEF Sound, HasImplementation
    <3> QED
      BY <3>1, <3>2
  <2>2. Sound(n, by, att.files) => Sound(n, by, att.files)'
    BY SoundKeeps
  <2>3. n \notin Tester => Sound(n, evidence[n].by, evidence[n].files)'
    BY <2>1, <2>2, <1>5
  <2>4. agent'[<<n, run>>].stage # "review"
    BY <1>1, <1>3, <1>6, OthersStay
  <2>5. ASSUME NEW m \in Node \ Tester, m # n
        PROVE  ReviewOf(m)'
    BY <2>5, <1>1, <1>3, <1>6, OthersStay
  <2> QED
    BY <2>3, <2>4, <2>5 DEF Reviewed, ReviewOf
<1>13. Ended' /\ DoneRunCompiles'
  BY DEF Ended, DoneRunCompiles
<1> QED
  BY <1>7, <1>8, <1>9, <1>10, <1>11, <1>12, <1>13 DEF IndInv

\* A node that passed its verification is handed to the review.
LEMMA ToReviewHolds ==
  ASSUME IndInv, NEW n \in Node, agent[<<n, run>>].stage = "settled", ~agent[<<n, run>>].fatal,
         TRUE \in Verified(n, agent[<<n, run>>].files),
         agent' = [agent EXCEPT ![<<n, run>>].stage = "review"], graph = "running",
         UNCHANGED <<loop, disk, graph, run, writes, faults>>
  PROVE  IndInv'
<1> PICK att, by : att = agent[<<n, run>>] /\ by = By(n, run)
  OBVIOUS
<1> DEFINE new == [att EXCEPT !.stage = "review"]
<1>1. /\ TypeOK /\ run \in 1..MaxRuns /\ <<n, run>> \in Agents /\ att \in AgentRec
      /\ node[n] = "running" /\ att.no = retry[n] /\ evidence[n].by = NoAttempt
  BY AttemptInHand
<1>2. new \in AgentRec /\ new.stage = "review" /\ new.no = att.no /\ new.files = att.files
  BY <1>1 DEF AgentRec
<1>3. agent' = [agent EXCEPT ![<<n, run>>] = new]
  BY <1>1 DEF TypeOK
<1> HIDE DEF new
<1>4. UNCHANGED <<node, retry, error, evidence>>
  BY DEF loop
<1>5. by = <<n, run, att.no>> /\ att.files \subseteq File
  BY <1>1, AgentType
<1>6. /\ agent' \in [Agents -> AgentRec] /\ agent'[<<n, run>>] = new
      /\ \A a \in Agents : a # <<n, run>> => agent'[a] = agent[a]
  BY <1>1, <1>2, <1>3 DEF TypeOK, AgentRec
<1>7. TypeOK'
  BY <1>1, <1>4, <1>6 DEF TypeOK, AgentRec
<1>8. Working'
  BY <1>1, <1>2, <1>4, <1>6 DEF IndInv, Working
<1>9. Past'
  BY <1>4 DEF IndInv, Past
<1>10. Credited'
  <2>1. ASSUME NEW m \in Node, m # n
        PROVE  CreditOf(m)'
    BY <2>1, <1>2, <1>3, <1>4, OthersStay
  <2> QED
    BY <2>1, <1>1, <1>4 DEF Credited, CreditOf
<1>11. Caught'
  <2> SUFFICES ASSUME NEW f \in File, disk[f].reported, f \notin Allowed(disk[f].by[1]),
                      NEW a \in Agents, disk[f].by = <<a[1], a[2], agent'[a].no>>
               PROVE  /\ agent'[a].stage = "asking" => f \in agent'[a].files
                      /\ agent'[a].stage = "settled" => agent'[a].fatal
                      /\ agent'[a].stage # "review"
    BY <1>4 DEF Caught, Allowed, IndInv
  <2>1. CASE a = <<n, run>>
    BY <2>1, <1>1, <1>2, <1>6 DEF IndInv, Caught
  <2>2. CASE a # <<n, run>>
    BY <2>2, <1>6 DEF IndInv, Caught
  <2> QED
    BY <2>1, <2>2
<1>12. Reviewed'
  <2>1. ASSUME n \notin Tester PROVE Sound(n, by, att.files)
    <3>1. Compiles(n, att.files) /\ (HasImplementation(att.files) => Accepted(n, att.files))
      BY <2>1 DEF Verified
    <3> QED
      BY <3>1 DEF Sound, Compiles
  <2>2. Sound(n, by, att.files) => Sound(n, by, att.files)'
    BY SoundKeeps
  <2>3. By(n, run)' = by /\ agent'[<<n, run>>].files = att.files
    BY <1>2, <1>5, <1>6 DEF By
  <2>4. n \notin Tester => Sound(n, By(n, run), agent[<<n, run>>].files)'
    BY <2>1, <2>2, <2>3
  <2>5. node'[n] # "done"
    BY <1>1, <1>4
  <2>6. ASSUME NEW m \in Node \ Tester, m # n
        PROVE  ReviewOf(m)'
    BY <2>6, <1>2, <1>3, <1>4, OthersStay
  <2> QED
    BY <2>4, <2>5, <2>6 DEF Reviewed, ReviewOf
<1>13. Ended' /\ DoneRunCompiles'
  BY DEF Ended, DoneRunCompiles
<1> QED
  BY <1>7, <1>8, <1>9, <1>10, <1>11, <1>12, <1>13 DEF IndInv

LEMMA HandleResultHolds ==
  ASSUME IndInv, NEW n \in Node, HandleResult(n)
  PROVE  IndInv'
<1>1. /\ graph = "running" /\ agent[<<n, run>>].stage = "settled"
      /\ UNCHANGED <<disk, graph, run, writes, faults>>
  BY DEF HandleResult, Stage
<1>2. \/ Rejected(n, "fatal") \/ Rejected(n, "other")
      \/ ~agent[<<n, run>>].fatal /\ agent[<<n, run>>].files = {} /\ Completed(n)
      \/ /\ ~agent[<<n, run>>].fatal /\ TRUE \in Verified(n, agent[<<n, run>>].files)
         /\ agent' = [agent EXCEPT ![<<n, run>>].stage = "review"] /\ UNCHANGED loop
  BY DEF HandleResult
<1>3. CASE Rejected(n, "fatal") \/ Rejected(n, "other")
  BY <1>1, <1>3, RejectedHolds
<1>4. CASE ~agent[<<n, run>>].fatal /\ agent[<<n, run>>].files = {} /\ Completed(n)
  BY <1>1, <1>4, CompletedHolds
<1>5. CASE /\ ~agent[<<n, run>>].fatal /\ TRUE \in Verified(n, agent[<<n, run>>].files)
           /\ agent' = [agent EXCEPT ![<<n, run>>].stage = "review"] /\ UNCHANGED loop
  BY <1>1, <1>5, ToReviewHolds
<1> QED
  BY <1>2, <1>3, <1>4, <1>5

LEMMA FinishReviewHolds ==
  ASSUME IndInv, NEW n \in Node, FinishReview(n)
  PROVE  IndInv'
<1>1. /\ graph = "running" /\ agent[<<n, run>>].stage = "review"
      /\ UNCHANGED <<disk, graph, run, writes, faults>>
      /\ Completed(n) \/ Rejected(n, "other")
  BY DEF FinishReview, Stage
<1> QED
  BY <1>1, CompletedHolds, RejectedHolds

-----------------------------------------------------------------------------
(* The end of a run, and what may follow it                                 *)

LEMMA ReturnHolds ==
  ASSUME IndInv, Return
  PROVE  IndInv'
<1>1. /\ TypeOK /\ run \in 1..MaxRuns /\ Stage("none") = Node
      /\ UNCHANGED <<disk, retry, error, evidence, agent, run, writes, faults>>
  BY DEF IndInv, TypeOK, Return
<1>2. \/ /\ node' = [m \in Node |-> IF m \in NewTesters THEN "waiting" ELSE node[m]]
         /\ graph' = graph /\ graph = "running"
      \/ /\ node' = node /\ graph' \in {"done", "failed"}
         /\ graph' = "done" => IntegrationCompiles
  BY DEF Return
<1>3. /\ node' \in [Node -> {"absent", "waiting", "running", "done", "failed"}]
      /\ \A m \in Node : \/ node'[m] = node[m]
                         \/ node[m] = "absent" /\ node'[m] = "waiting"
  <2>1. CASE node' = [m \in Node |-> IF m \in NewTesters THEN "waiting" ELSE node[m]]
    <3>1. \A m \in NewTesters : node[m] = "absent"
      BY DEF NewTesters
    <3> QED
      BY <2>1, <3>1, <1>1 DEF TypeOK
  <2>2. CASE node' = node
    BY <2>2, <1>1 DEF TypeOK
  <2> QED
    BY <2>1, <2>2, <1>2
<1>4. \A m \in Node : agent[<<m, run>>].stage = "none"
  BY <1>1 DEF Stage
<1>5. TypeOK'
  <2>1. graph' \in {"running", "done", "failed"}
    BY <1>2
  <2> QED
    BY <2>1, <1>1, <1>3 DEF TypeOK
<1>6. Working'
  <2> SUFFICES ASSUME NEW a \in Agents, agent[a].stage # "none"
               PROVE  a[2] <= run /\ a[2] # run /\ (a[2] < run => agent[a].stage = "asking")
    BY <1>1 DEF Working
  <2>1. a[1] \in Node /\ a = <<a[1], a[2]>>
    BY DEF Agents
  <2>2. a[2] # run
    BY <2>1, <1>4
  <2> QED
    BY <2>2 DEF IndInv, Working
<1>7. Past'
  <2> SUFFICES ASSUME NEW f \in File, disk[f].by # NoAttempt
               PROVE  /\ disk[f].by[2] <= run
                      /\ disk[f].by[2] = run =>
                           /\ disk[f].by[3] <= retry[disk[f].by[1]]
                           /\ node'[disk[f].by[1]] \in {"waiting", "absent"} =>
                                disk[f].by[3] < retry[disk[f].by[1]]
    BY <1>1 DEF Past
  <2>1. disk[f].by[1] \in Node
    BY <1>1, ByType
  <2>2. node'[disk[f].by[1]] \in {"waiting", "absent"} => node[disk[f].by[1]] \in {"waiting", "absent"}
    BY <2>1, <1>3
  <2> QED
    BY <2>2 DEF IndInv, Past
<1>8. Credited'
  <2> SUFFICES ASSUME NEW m \in Node PROVE CreditOf(m)'
    BY DEF Credited
  <2>1. node'[m] = "done" <=> node[m] = "done"
    BY <1>3
  <2> QED
    BY <2>1, <1>1 DEF IndInv, Credited, CreditOf
<1>9. Caught'
  BY <1>1 DEF IndInv, Caught, Allowed
<1>10. Reviewed'
  <2> SUFFICES ASSUME NEW m \in Node \ Tester PROVE ReviewOf(m)'
    BY DEF Reviewed
  <2>1. node'[m] = "done" => node[m] = "done"
    BY <1>3
  <2>2. PICK e : e = evidence[m]
    OBVIOUS
  <2>3. Sound(m, e.by, e.files) => Sound(m, e.by, e.files)'
    BY <1>1, SoundKeeps
  <2>4. node[m] = "done" => Sound(m, e.by, e.files)
    BY <2>2 DEF IndInv, Reviewed, ReviewOf
  <2>5. agent'[<<m, run>>].stage = "none" /\ run' = run
    BY <1>1, <1>4
  <2> QED
    BY <2>1, <2>2, <2>3, <2>4, <2>5, <1>1 DEF ReviewOf
<1>11. Ended'
  BY <1>1, <1>4 DEF Ended
<1>12. DoneRunCompiles'
  <2> SUFFICES ASSUME graph' = "done" PROVE \A f \in OutputFiles' : disk[f].quality # "broken"
    BY <1>1 DEF DoneRunCompiles
  <2>1. node' = node /\ IntegrationCompiles
    BY <1>2
  <2> QED
    BY <2>1 DEF IntegrationCompiles, OutputFiles
<1> QED
  BY <1>5, <1>6, <1>7, <1>8, <1>9, <1>10, <1>11, <1>12 DEF IndInv

\* What holds of files and nodes does not depend on who still works.
LEMMA FewerAgents ==
  ASSUME IndInv, agent' \in [Agents -> AgentRec],
         \A a \in Agents : agent'[a] = agent[a] \/ agent'[a].stage = "none",
         UNCHANGED <<disk, evidence>>, run' \in {run, run + 1}, run' \in 1..MaxRuns,
         \A n \in Node : node'[n] = node[n] \/ (node[n] # "done" /\ node'[n] # "done"),
         \A n \in Node : agent'[<<n, run'>>].stage = "review" => run' = run
  PROVE  Credited' /\ Caught' /\ Reviewed'
<1>1. TypeOK /\ run \in 1..MaxRuns
  BY DEF IndInv, TypeOK
<1>2. Credited'
  <2> SUFFICES ASSUME NEW n \in Node PROVE CreditOf(n)'
    BY DEF Credited
  <2>1. CreditOf(n)
    BY DEF IndInv, Credited
  <2>2. CASE node[n] # "done"
    BY <2>1, <2>2 DEF CreditOf
  <2>3. CASE node[n] = "done"
    <3>1. node'[n] = "done"
      BY <2>3
    <3>2. PICK r \in 1..run, k \in Nat : evidence[n].by = <<n, r, k>> /\ agent[<<n, r>>].stage = "none"
      BY <2>1, <2>3 DEF CreditOf
    <3>3. r \in 1..run' /\ <<n, r>> \in Agents
      <4>1. r \in 1..run' /\ r \in 1..MaxRuns
        BY <1>1, WorkAssumption
      <4> QED
        BY <4>1 DEF Agents
    <3>4. agent'[<<n, r>>].stage = "none"
      BY <3>2, <3>3
    <3> QED
      BY <3>1, <3>2, <3>3, <3>4 DEF CreditOf
  <2> QED
    BY <2>2, <2>3
<1>3. Caught'
  <2> SUFFICES ASSUME NEW f \in File, disk[f].reported, f \notin Allowed(disk[f].by[1]),
                      NEW a \in Agents, disk[f].by = <<a[1], a[2], agent'[a].no>>
               PROVE  /\ agent'[a].stage = "asking" => f \in agent'[a].files
                      /\ agent'[a].stage = "settled" => agent'[a].fatal
                      /\ agent'[a].stage # "review"
    BY DEF Caught, Allowed, IndInv
  <2>1. CASE agent'[a] = agent[a]
    BY <2>1 DEF IndInv, Caught
  <2>2. CASE agent'[a].stage = "none"
    BY <2>2
  <2> QED
    BY <2>1, <2>2
<1>4. Reviewed'
  <2> SUFFICES ASSUME NEW n \in Node \ Tester PROVE ReviewOf(n)'
    BY DEF Reviewed
  <2>1. PICK e, h, b : e = evidence[n] /\ h = agent[<<n, run>>] /\ b = By(n, run)
    OBVIOUS
  <2>2. Sound(n, e.by, e.files) => Sound(n, e.by, e.files)'
    BY SoundKeeps
  <2>3. Sound(n, b, h.files) => Sound(n, b, h.files)'
    BY SoundKeeps
  <2>4. /\ node[n] = "done" => Sound(n, e.by, e.files)
        /\ h.stage = "review" => Sound(n, b, h.files)
    BY <2>1 DEF IndInv, Reviewed, ReviewOf
  <2>5. ASSUME agent'[<<n, run'>>].stage = "review"
        PROVE  Sound(n, By(n, run), agent[<<n, run>>].files)'
    <3>1. run' = run /\ <<n, run>> \in Agents
      BY <2>5, <1>1 DEF Agents
    <3>2. agent'[<<n, run>>] = agent[<<n, run>>]
      BY <2>5, <3>1
    <3>3. By(n, run)' = b
      BY <2>1, <3>1, <3>2 DEF By
    <3> QED
      BY <2>1, <2>3, <2>4, <2>5, <3>1, <3>2, <3>3
  <2>6. node'[n] = "done" => node[n] = "done"
    OBVIOUS
  <2> QED
    BY <2>1, <2>2, <2>4, <2>5, <2>6 DEF ReviewOf
<1> QED
  BY <1>2, <1>3, <1>4

LEMMA RejectHolds ==
  ASSUME IndInv, Reject
  PROVE  IndInv'
<1>1. graph = "running" /\ graph' = "failed" /\ faults' = faults + 1 /\ faults < MaxFaults
      /\ UNCHANGED <<disk, node, retry, error, evidence, agent, run, writes>>
  BY DEF Reject, loop
<1>2. TypeOK /\ run \in 1..MaxRuns
  BY DEF IndInv, TypeOK
<1>3. TypeOK'
  <2>1. faults' \in 0..MaxFaults
    BY <1>1, <1>2, WorkAssumption DEF TypeOK
  <2> QED
    BY <2>1, <1>1, <1>2 DEF TypeOK
<1>4. Working' /\ Past'
  BY <1>1 DEF IndInv, Working, Past
<1>5. Credited' /\ Caught' /\ Reviewed'
  <2>1. agent' \in [Agents -> AgentRec]
    BY <1>1, <1>2 DEF TypeOK, AgentRec
  <2> QED
    BY <2>1, <1>1, <1>2, FewerAgents
<1>6. Ended' /\ DoneRunCompiles'
  BY <1>1 DEF Ended, DoneRunCompiles
<1> QED
  BY <1>3, <1>4, <1>5, <1>6 DEF IndInv

LEMMA CrashHolds ==
  ASSUME IndInv, Crash
  PROVE  IndInv'
<1>1. /\ agent' = [a \in Agents |-> Idle] /\ faults' = faults + 1 /\ faults < MaxFaults
      /\ graph' = IF graph = "running" THEN "failed" ELSE graph
      /\ UNCHANGED <<disk, node, retry, error, evidence, run, writes>>
  BY DEF Crash, loop
<1>2. TypeOK /\ run \in 1..MaxRuns
  BY DEF IndInv, TypeOK
<1>3. /\ agent' \in [Agents -> AgentRec] /\ \A a \in Agents : agent'[a].stage = "none"
  <2>1. Idle \in AgentRec /\ Idle.stage = "none"
    BY WorkAssumption DEF Idle, AgentRec
  <2> QED
    BY <2>1, <1>1
<1>4. TypeOK'
  <2>1. faults' \in 0..MaxFaults
    BY <1>1, <1>2, WorkAssumption DEF TypeOK
  <2>2. graph' \in {"running", "done", "failed"}
    BY <1>1, <1>2 DEF TypeOK
  <2> QED
    BY <2>1, <2>2, <1>1, <1>2, <1>3 DEF TypeOK, AgentRec
<1>5. Working' /\ Past'
  BY <1>1, <1>3 DEF IndInv, Working, Past
<1>6. Credited' /\ Caught' /\ Reviewed'
  <2>1. \A n \in Node : agent'[<<n, run'>>].stage = "review" => run' = run
    BY <1>1
  <2> QED
    BY <2>1, <1>1, <1>2, <1>3, FewerAgents
<1>7. Ended' /\ DoneRunCompiles'
  <2>1. graph' = "done" => graph = "done"
    BY <1>1
  <2>2. \A n \in Node : <<n, run>> \in Agents
    BY <1>2 DEF Agents
  <2>3. OutputFiles' = OutputFiles
    BY <1>1 DEF OutputFiles
  <2> QED
    BY <2>1, <2>2, <2>3, <1>1, <1>3 DEF IndInv, Ended, DoneRunCompiles
<1> QED
  BY <1>4, <1>5, <1>6, <1>7 DEF IndInv

LEMMA RunAgainHolds ==
  ASSUME IndInv, RunAgain
  PROVE  IndInv'
<1>1. /\ run < MaxRuns /\ run' = run + 1 /\ graph' = "running"
      /\ agent' = [a \in Agents |-> IF a \in Asking THEN agent[a] ELSE Idle]
      /\ UNCHANGED <<disk, retry, error, evidence, writes, faults>>
  BY DEF RunAgain
<1>2. PICK again \in {{"running"}, {"running", "failed"}} :
        node' = [n \in Node |-> IF node[n] \in again THEN "waiting" ELSE node[n]]
  BY DEF RunAgain
<1>3. TypeOK /\ run \in 1..MaxRuns /\ run' \in 1..MaxRuns
  BY <1>1, WorkAssumption DEF IndInv, TypeOK
<1>4. /\ node' \in [Node -> {"absent", "waiting", "running", "done", "failed"}]
      /\ \A n \in Node : node'[n] = node[n] \/ (node[n] # "done" /\ node'[n] # "done")
  BY <1>2, <1>3 DEF TypeOK
<1>5. /\ agent' \in [Agents -> AgentRec]
      /\ \A a \in Agents : \/ agent'[a] = agent[a] /\ agent[a].stage = "asking"
                           \/ agent'[a].stage = "none"
  <2>1. Idle \in AgentRec /\ Idle.stage = "none"
    BY WorkAssumption DEF Idle, AgentRec
  <2>2. \A a \in Agents : agent[a] \in AgentRec
    BY <1>3 DEF TypeOK, AgentRec
  <2> QED
    BY <2>1, <2>2, <1>1 DEF Asking
<1>6. TypeOK'
  <2>1. graph' \in {"running", "done", "failed"}
    BY <1>1
  <2> QED
    BY <2>1, <1>1, <1>3, <1>4, <1>5 DEF TypeOK, AgentRec
<1>7. Working'
  <2> SUFFICES ASSUME NEW a \in Agents, agent'[a].stage # "none"
               PROVE  a[2] < run' /\ agent'[a].stage = "asking"
    <3>1. \A a \in Agents : a[2] \in Nat
      BY WorkAssumption DEF Agents
    <3> QED
      BY <3>1, <1>3 DEF Working
  <2>1. agent'[a] = agent[a] /\ agent[a].stage = "asking"
    BY <1>5
  <2>2. a[2] <= run /\ a[2] \in Nat
    BY <2>1, WorkAssumption DEF IndInv, Working, Agents
  <2> QED
    BY <2>1, <2>2, <1>1, <1>3
<1>8. Past'
  <2> SUFFICES ASSUME NEW f \in File, disk[f].by # NoAttempt
               PROVE  disk[f].by[2] <= run' /\ disk[f].by[2] # run'
    BY <1>1 DEF Past
  <2>1. disk[f].by[2] \in 1..MaxRuns
    BY <1>3, ByType
  <2>2. disk[f].by[2] <= run
    BY DEF IndInv, Past
  <2> QED
    BY <2>1, <2>2, <1>1, <1>3, WorkAssumption
<1>9. Credited' /\ Caught' /\ Reviewed'
  <2>1. \A n \in Node : agent'[<<n, run'>>].stage = "review" => run' = run
    <3>1. \A n \in Node : <<n, run'>> \in Agents
      BY <1>3 DEF Agents
    <3> QED
      BY <3>1, <1>5
  <2> QED
    BY <2>1, <1>1, <1>3, <1>4, <1>5, FewerAgents
<1>10. Ended' /\ DoneRunCompiles'
  BY <1>1 DEF Ended, DoneRunCompiles
<1> QED
  BY <1>6, <1>7, <1>8, <1>9, <1>10 DEF IndInv

LEMMA StutterHolds ==
  ASSUME IndInv, UNCHANGED vars
  PROVE  IndInv'
<1>1. /\ UNCHANGED <<disk, node, retry, error, evidence, agent, graph, run, writes, faults>>
      /\ TypeOK /\ run \in 1..MaxRuns
  BY DEF IndInv, TypeOK, vars, loop
<1>2. TypeOK' /\ Working' /\ Past'
  BY <1>1 DEF IndInv, TypeOK, Working, Past
<1>3. Credited' /\ Caught' /\ Reviewed'
  <2>1. agent' \in [Agents -> AgentRec]
    BY <1>1 DEF TypeOK, AgentRec
  <2> QED
    BY <2>1, <1>1, FewerAgents
<1>4. Ended' /\ DoneRunCompiles'
  BY <1>1 DEF IndInv, Ended, DoneRunCompiles, OutputFiles
<1> QED
  BY <1>2, <1>3, <1>4 DEF IndInv

-----------------------------------------------------------------------------
THEOREM Inductive == Spec => []IndInv
<1>1. ASSUME IndInv, [Next]_vars PROVE IndInv'
  <2>1. ASSUME NEW n \in Node, StartAttempt(n) PROVE IndInv'
    BY <1>1, <2>1, StartAttemptHolds
  <2>2. ASSUME NEW n \in Node, HandleResult(n) PROVE IndInv'
    BY <1>1, <2>2, HandleResultHolds
  <2>3. ASSUME NEW n \in Node, FinishReview(n) PROVE IndInv'
    BY <1>1, <2>3, FinishReviewHolds
  <2>4. ASSUME NEW a \in Agents, Turn(a[1], a[2]) PROVE IndInv'
    <3>1. a[1] \in Node /\ a[2] \in 1..MaxRuns
      BY DEF Agents
    <3> QED
      BY <1>1, <2>4, <3>1, TurnHolds
  <2>5. CASE Return
    BY <1>1, <2>5, ReturnHolds
  <2>6. CASE Reject
    BY <1>1, <2>6, RejectHolds
  <2>7. CASE Crash
    BY <1>1, <2>7, CrashHolds
  <2>8. CASE RunAgain
    BY <1>1, <2>8, RunAgainHolds
  <2>9. CASE UNCHANGED vars
    BY <1>1, <2>9, StutterHolds
  <2> QED
    BY <1>1, <2>1, <2>2, <2>3, <2>4, <2>5, <2>6, <2>7, <2>8, <2>9 DEF Next
<1> QED
  BY <1>1, InitHolds, PTL DEF Spec

\* Files, nodes, evidence and attempts only take the values they are meant to.
THEOREM TypeCorrect == Spec => []TypeOK
<1>1. IndInv => TypeOK
  BY DEF IndInv
<1> QED
  BY <1>1, Inductive, PTL

\* For any attempts that write any file of the directory: no node was completed
\* by one whose write_file succeeded on a file that is not its own and whose
\* content is still there, over retries, crashes and runs (node-executor.ts).
THEOREM IntrudersAreFailed == Spec => []IntrudersFail
<1>1. IndInv => IntrudersFail
  BY DEF IndInv, Caught, IntrudersFail, WithStatus
<1> QED
  BY <1>1, Inductive, PTL

\* For any interleaving of attempts, commands and reviews: of the files a
\* completed node reports, those nobody wrote since are as its verification
\* demands (verify.ts, post-node-handler.ts).
THEOREM ReportsAreVerified == Spec => []ReportedIsVerified
<1>1. IndInv => ReportedIsVerified
  BY DEF IndInv, Reviewed, ReviewOf, Sound, ReportedIsVerified, WithStatus
<1> QED
  BY <1>1, Inductive, PTL

\* However the files of a run came about, and whatever rejected runs left at
\* work: a run that ends as done compiles, but for what they still write
\* (shipyard.ts).
THEOREM DoneCompiles == Spec => []DoneRunCompiles
<1>1. IndInv => DoneRunCompiles
  BY DEF IndInv
<1> QED
  BY <1>1, Inductive, PTL
=============================================================================
