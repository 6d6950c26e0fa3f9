---------------------------- MODULE Planning_proofs ----------------------------
(***************************************************************************)
(* Theorems of Planning, for every plan a planner or a person may write and *)
(* any number of attempts: what is accepted can finish, a circle that is    *)
(* reported is there, and no two nodes are given the same name.             *)
(***************************************************************************)
EXTENDS Planning, SequenceTheorems, TLAPS

Closed(p, S) == \A n \in S : DependsOn(p, n) \subseteq S

\* Among any nodes of S there is one that depends on none of them.
NoCircle(p, S) == \A T \in SUBSET S : T # {} => \E n \in T : DependsOn(p, n) \cap T = {}

Circle(p, T) == T # {} /\ \A n \in T : DependsOn(p, n) \cap T # {}

\* Each call was made for a dependency of the one below it, and what a call has
\* looked at was visited, or is being visited by the call above it.
Frames(p, calls, done) ==
  /\ \A i \in 1..Len(calls) : calls[i].id \notin done
  /\ \A i, j \in 1..Len(calls) : calls[i].id = calls[j].id => i = j
  /\ \A i \in 1..Len(calls) : calls[i].todo \subseteq DependsOn(p, calls[i].id)
  /\ \A i \in 1..Len(calls) : i < Len(calls) => calls[i + 1].id \in DependsOn(p, calls[i].id)
  /\ \A i \in 1..Len(calls) : \A d \in DependsOn(p, calls[i].id) :
       d \in calls[i].todo \/ d \in done \/ (i < Len(calls) /\ d = calls[i + 1].id)

Roots == \A i \in 1..Len(plan) :
  i < next => plan[i].id \in visited \/ (stack # <<>> /\ plan[i].id = stack[1].id)

SearchInv ==
  pc = "visit" => /\ issues = FormIssues(plan)
                  /\ Closed(plan, visited) /\ NoCircle(plan, visited)
                  /\ Frames(plan, stack, visited)
                  /\ Roots

Judged ==
  pc = "judge" =>
    \/ /\ issues = FormIssues(plan)
       /\ Ids(plan) \subseteq visited /\ NoCircle(plan, visited)
    \/ "cycle" \in issues /\ \E T \in SUBSET Id : Circle(plan, T)

\* The plan that is validated holds the names the nodes will have.
AsNormalized ==
  way = "spec" /\ setting = "sandbox" /\ pc \in {"validate", "visit", "judge", "planned"} =>
    \A i \in 1..Len(plan) : Normalize[plan[i].file] = plan[i].file

Made ==
  /\ graph # NoGraph => pc = "planned"
  /\ pc = "planned" => /\ graph = PlannedGraph(plan)
                       /\ ~FileTwice(plan) /\ ~Unknown(plan)
                       /\ NoCircle(plan, Ids(plan))

IndInv == TypeOK /\ SearchInv /\ Judged /\ AsNormalized /\ Made

-----------------------------------------------------------------------------
LEMMA DependsType ==
  ASSUME NEW p \in Seq(Step), NEW n
  PROVE  DependsOn(p, n) \subseteq Id
<1>1. \A i \in 1..Len(p) : p[i] \in Step
  OBVIOUS
<1> QED
  BY <1>1 DEF DependsOn, Latest, Step

LEMMA FormType ==
  ASSUME NEW p
  PROVE  /\ FormIssues(p) \subseteq {"ids", "files", "path", "extension", "unknown"}
         /\ "cycle" \notin FormIssues(p)
         /\ FormIssues(p) = {} => ~FileTwice(p) /\ ~Unknown(p)
BY DEF FormIssues

\* A node whose dependencies were all visited closes no circle.
LEMMA OneMore ==
  ASSUME NEW p, NEW S, NEW n, n \notin S, DependsOn(p, n) \subseteq S,
         Closed(p, S), NoCircle(p, S)
  PROVE  Closed(p, S \cup {n}) /\ NoCircle(p, S \cup {n})
<1>1. Closed(p, S \cup {n})
  BY DEF Closed
<1>2. ASSUME NEW T \in SUBSET (S \cup {n}), T # {}
      PROVE  \E m \in T : DependsOn(p, m) \cap T = {}
  <2>1. CASE T \subseteq {n}
    BY <1>2, <2>1
  <2>2. CASE ~(T \subseteq {n})
    <3>1. T \ {n} \in SUBSET S /\ T \ {n} # {}
      BY <2>2
    <3>2. PICK m \in T \ {n} : DependsOn(p, m) \cap (T \ {n}) = {}
      BY <3>1 DEF NoCircle
    <3>3. n \notin DependsOn(p, m)
      BY <3>1 DEF Closed
    <3> QED
      BY <3>2, <3>3
  <2> QED
    BY <2>1, <2>2
<1> QED
  BY <1>1, <1>2 DEF NoCircle

-----------------------------------------------------------------------------
(* The calls of visit                                                        *)

Frame == [id : Id, todo : SUBSET Id]

Calls == Seq(Frame)

LEMMA Filled ==
  ASSUME NEW F, NEW s \in Seq(F), s # <<>>
  PROVE  /\ Len(s) \in Nat \ {0} /\ Len(s) \in 1..Len(s) /\ 1 \in 1..Len(s)
         /\ \A i \in 1..Len(s) : s[i] \in F
OBVIOUS

LEMMA Replaced ==
  ASSUME NEW F, NEW s \in Seq(F), s # <<>>, NEW e \in F
  PROVE  LET t == [s EXCEPT ![Len(s)] = e]
         IN  /\ t \in Seq(F) /\ Len(t) = Len(s)
             /\ \A i \in 1..Len(s) : t[i] = IF i = Len(s) THEN e ELSE s[i]
OBVIOUS

LEMMA Pushed ==
  ASSUME NEW F, NEW s \in Seq(F), NEW e \in F
  PROVE  /\ Append(s, e) \in Seq(F) /\ Len(Append(s, e)) = Len(s) + 1
         /\ Append(s, e)[Len(s) + 1] = e
         /\ \A i \in 1..Len(s) : Append(s, e)[i] = s[i]
OBVIOUS

LEMMA Popped ==
  ASSUME NEW F, NEW s \in Seq(F), s # <<>>
  PROVE  LET t == SubSeq(s, 1, Len(s) - 1)
         IN  /\ t \in Seq(F) /\ Len(t) = Len(s) - 1
             /\ \A i \in 1..(Len(s) - 1) : t[i] = s[i]
             /\ t = <<>> <=> Len(s) = 1
<1> DEFINE t == SubSeq(s, 1, Len(s) - 1)
<1>3. Len(s) \in Nat \ {0} /\ \A i \in 1..(Len(s) - 1) : s[i] \in F
  BY Filled
<1>0. /\ t \in Seq(F)
      /\ Len(t) = IF 1 <= Len(s) - 1 THEN (Len(s) - 1) - 1 + 1 ELSE 0
      /\ \A i \in 1..((Len(s) - 1) - 1 + 1) : t[i] = s[1 + i - 1]
  <2>1. 1 \in Int /\ Len(s) - 1 \in Int
    BY <1>3
  <2> QED
    BY <1>3, <2>1, SubSeqProperties
<1>2. t = <<>> <=> Len(t) = 0
  BY <1>0, EmptySeq, LenProperties
<1> HIDE DEF t
<1>1. /\ t \in Seq(F) /\ Len(t) = Len(s) - 1
      /\ \A i \in 1..(Len(s) - 1) : t[i] = s[i]
  <2>1. Len(t) = Len(s) - 1
    <3> DEFINE k == Len(s)
               m == Len(t)
    <3>1. k \in Nat \ {0} /\ m = IF 1 <= k - 1 THEN (k - 1) - 1 + 1 ELSE 0
      BY <1>0, <1>3
    <3> HIDE DEF k, m
    <3>2. m = k - 1
      BY <3>1
    <3> QED
      BY <3>2 DEF k, m
  <2>2. ASSUME NEW i \in 1..(Len(s) - 1) PROVE t[i] = s[i]
    <3>1. i \in 1..((Len(s) - 1) - 1 + 1) /\ 1 + i - 1 = i
      BY <1>3
    <3> QED
      BY <1>0, <3>1
  <2> QED
    BY <1>0, <2>1, <2>2
<1>4. Len(t) = 0 <=> Len(s) = 1
  BY <1>1, <1>3
<1>5. /\ t \in Seq(F) /\ Len(t) = Len(s) - 1
      /\ \A i \in 1..(Len(s) - 1) : t[i] = s[i]
      /\ t = <<>> <=> Len(s) = 1
  BY <1>1, <1>2, <1>4
<1> QED
  BY <1>5 DEF t

\* The calls below and the last one with d taken from what it has left to look at.
Looking(calls, d) ==
  [calls EXCEPT ![Len(calls)] = [id   |-> calls[Len(calls)].id,
                                 todo |-> calls[Len(calls)].todo \ {d}]]

LEMMA LookingType ==
  ASSUME NEW calls \in Calls, calls # <<>>, NEW d
  PROVE  /\ Looking(calls, d) \in Calls /\ Len(Looking(calls, d)) = Len(calls)
         /\ Len(calls) \in 1..Len(calls)
         /\ \A i \in 1..Len(calls) : /\ Looking(calls, d)[i].id = calls[i].id
                                     /\ i # Len(calls) => Looking(calls, d)[i] = calls[i]
         /\ Looking(calls, d)[Len(calls)].todo = calls[Len(calls)].todo \ {d}
<1>1. /\ Len(calls) \in Nat \ {0} /\ Len(calls) \in 1..Len(calls)
      /\ \A i \in 1..Len(calls) : calls[i] \in Frame
  BY Filled DEF Calls
<1>2. [id |-> calls[Len(calls)].id, todo |-> calls[Len(calls)].todo \ {d}] \in Frame
  BY <1>1 DEF Frame
<1>3. Looking(calls, d) \in Calls /\ Len(Looking(calls, d)) = Len(calls)
  BY <1>2, Replaced DEF Looking, Calls
<1>4. \A i \in 1..Len(calls) :
        Looking(calls, d)[i] = IF i = Len(calls)
                               THEN [id   |-> calls[Len(calls)].id,
                                     todo |-> calls[Len(calls)].todo \ {d}]
                               ELSE calls[i]
  BY <1>2, Replaced DEF Looking, Calls
<1>5. Looking(calls, d)[Len(calls)] = [id   |-> calls[Len(calls)].id,
                                       todo |-> calls[Len(calls)].todo \ {d}]
  BY <1>1, <1>4
<1>6. \A i \in 1..Len(calls) : /\ Looking(calls, d)[i].id = calls[i].id
                               /\ i # Len(calls) => Looking(calls, d)[i] = calls[i]
  BY <1>4
<1> QED
  BY <1>1, <1>3, <1>5, <1>6

\* A dependency that was visited is looked at: nothing else changes.
LEMMA SeenFrames ==
  ASSUME NEW p, NEW calls \in Calls, calls # <<>>, NEW done, Frames(p, calls, done),
         NEW d \in done
  PROVE  Frames(p, Looking(calls, d), done)
<1> DEFINE k == Len(calls)
           later == Looking(calls, d)
<1>1. /\ Len(later) = k /\ k \in 1..k
      /\ \A i \in 1..k : later[i].id = calls[i].id /\ (i # k => later[i] = calls[i])
      /\ later[k].todo = calls[k].todo \ {d}
  BY LookingType
<1>k. k \in Nat
  BY Filled DEF Calls
<1> HIDE DEF later, k
<1>2. \A i \in 1..k : later[i].todo = IF i = k THEN calls[i].todo \ {d} ELSE calls[i].todo
  BY <1>1
<1>3. \A i \in 1..k : i < k => i + 1 \in 1..k
  BY <1>k
<1>f. /\ \A i \in 1..k : calls[i].id \notin done
      /\ \A i, j \in 1..k : calls[i].id = calls[j].id => i = j
      /\ \A i \in 1..k : calls[i].todo \subseteq DependsOn(p, calls[i].id)
      /\ \A i \in 1..k : i < k => calls[i + 1].id \in DependsOn(p, calls[i].id)
      /\ \A i \in 1..k : \A e \in DependsOn(p, calls[i].id) :
           e \in calls[i].todo \/ e \in done \/ (i < k /\ e = calls[i + 1].id)
  BY DEF Frames, k
<1>4. /\ \A i \in 1..k : later[i].id \notin done
      /\ \A i, j \in 1..k : later[i].id = later[j].id => i = j
      /\ \A i \in 1..k : later[i].todo \subseteq DependsOn(p, later[i].id)
      /\ \A i \in 1..k : i < k => later[i + 1].id \in DependsOn(p, later[i].id)
  BY <1>1, <1>2, <1>3, <1>f
<1>5. \A i \in 1..k : \A e \in DependsOn(p, later[i].id) :
        e \in later[i].todo \/ e \in done \/ (i < k /\ e = later[i + 1].id)
  BY <1>1, <1>2, <1>3, <1>f
<1> QED
  BY <1>1, <1>4, <1>5 DEF Frames, later

\* A dependency that is neither visited nor being visited is visited next.
LEMMA DeeperFrames ==
  ASSUME NEW p, NEW calls \in Calls, calls # <<>>, NEW done, Frames(p, calls, done),
         NEW d \in calls[Len(calls)].todo, d \notin done, d \notin Visiting(calls),
         NEW call \in Frame,
         call.id = d, call.todo = DependsOn(p, d)
  PROVE  /\ Append(Looking(calls, d), call) \in Calls
         /\ Frames(p, Append(Looking(calls, d), call), done)
         /\ Append(Looking(calls, d), call)[1].id = calls[1].id
<1> DEFINE k == Len(calls)
           below == Looking(calls, d)
           later == Append(below, call)
<1>k. k \in Nat \ {0} /\ below \in Calls /\ Len(below) = k
  BY LookingType, Filled DEF Calls
<1>1. /\ later \in Calls /\ Len(later) = k + 1
      /\ later[k + 1] = call /\ \A i \in 1..k : later[i] = below[i]
  BY <1>k, Pushed DEF Calls
<1>b. /\ \A i \in 1..k : below[i].id = calls[i].id /\ (i # k => below[i] = calls[i])
      /\ below[k].todo = calls[k].todo \ {d} /\ k \in 1..k
  BY LookingType
<1>2. \A i \in 1..k : /\ below[i].id = calls[i].id
                      /\ below[i].todo = IF i = k THEN calls[i].todo \ {d} ELSE calls[i].todo
  <2> HIDE DEF k, below
  <2> QED
    BY <1>b
<1>f. /\ \A i \in 1..k : calls[i].id \notin done
      /\ \A i, j \in 1..k : calls[i].id = calls[j].id => i = j
      /\ \A i \in 1..k : calls[i].todo \subseteq DependsOn(p, calls[i].id)
      /\ \A i \in 1..k : i < k => calls[i + 1].id \in DependsOn(p, calls[i].id)
      /\ \A i \in 1..k : \A e \in DependsOn(p, calls[i].id) :
           e \in calls[i].todo \/ e \in done \/ (i < k /\ e = calls[i + 1].id)
      /\ \A i \in 1..k : calls[i].id # d
      /\ d \in calls[k].todo
  BY DEF Frames, k, Visiting
<1> HIDE DEF later, below, k
<1>3. \A i \in 1..k : later[i].id = calls[i].id
  BY <1>1, <1>2
<1>4. \A i \in 1..(k + 1) : i \in 1..k \/ i = k + 1
  BY <1>k
<1>5. \A i \in 1..k : i + 1 \in 1..k \/ i = k
  BY <1>k
<1>6. /\ \A i \in 1..(k + 1) : later[i].id \notin done
      /\ \A i, j \in 1..(k + 1) : later[i].id = later[j].id => i = j
  BY <1>1, <1>3, <1>4, <1>f
<1>7. ASSUME NEW i \in 1..(k + 1) PROVE later[i].todo \subseteq DependsOn(p, later[i].id)
  <2>1. CASE i = k + 1
    BY <1>1, <2>1
  <2>2. CASE i \in 1..k
    <3>1. later[i].todo \subseteq calls[i].todo /\ later[i].id = calls[i].id
      BY <1>1, <1>2, <2>2
    <3> QED
      BY <1>f, <2>2, <3>1
  <2> QED
    BY <1>4, <2>1, <2>2
<1>8. \A i \in 1..(k + 1) : i < k + 1 => later[i + 1].id \in DependsOn(p, later[i].id)
  <2> SUFFICES ASSUME NEW i \in 1..(k + 1), i < k + 1
               PROVE  later[i + 1].id \in DependsOn(p, later[i].id)
    OBVIOUS
  <2>0. i \in 1..k
    BY <1>k
  <2>1. CASE i = k
    <3>1. d \in DependsOn(p, calls[k].id) /\ k \in 1..k
      BY <1>k, <1>f
    <3> QED
      BY <1>1, <1>3, <2>1, <3>1
  <2>2. CASE i # k
    BY <1>k, <1>3, <1>5, <1>f, <2>0, <2>2
  <2> QED
    BY <2>1, <2>2
<1>9. ASSUME NEW i \in 1..(k + 1), NEW e \in DependsOn(p, later[i].id)
      PROVE  e \in later[i].todo \/ e \in done \/ (i < k + 1 /\ e = later[i + 1].id)
  <2>1. CASE i = k + 1
    BY <1>1, <1>9, <2>1
  <2>2. CASE i = k
    <3>1. e \in calls[k].todo \/ e \in done
      BY <1>k, <1>3, <1>9, <1>f, <2>2
    <3>2. later[k].todo = calls[k].todo \ {d} /\ later[k + 1].id = d
      BY <1>1, <1>2, <1>b
    <3> QED
      BY <1>k, <2>2, <3>1, <3>2
  <2>3. CASE i \in 1..k /\ i # k
    <3>0. i + 1 \in 1..k /\ i < k
      BY <1>k, <2>3
    <3>1. later[i].todo = calls[i].todo /\ later[i].id = calls[i].id /\ i + 1 \in 1..k /\ i < k
      BY <1>1, <1>2, <2>3, <3>0
    <3>2. later[i + 1].id = calls[i + 1].id
      BY <1>3, <3>1
    <3> QED
      BY <1>k, <1>f, <1>9, <2>3, <3>1, <3>2
  <2> QED
    BY <1>4, <2>1, <2>2, <2>3
<1>10. Frames(p, later, done)
  BY <1>1, <1>6, <1>7, <1>8, <1>9 DEF Frames
<1>11. later[1].id = calls[1].id
  BY <1>k, <1>3
<1> QED
  BY <1>1, <1>10, <1>11 DEF later, below

\* A node all of whose dependencies were looked at is left.
LEMMA LeftFrames ==
  ASSUME NEW p, NEW calls \in Calls, calls # <<>>, NEW done, Frames(p, calls, done),
         calls[Len(calls)].todo = {}
  PROVE  LET n == calls[Len(calls)].id
             rest == SubSeq(calls, 1, Len(calls) - 1)
         IN  /\ rest \in Calls /\ n \notin done /\ n \in Id /\ DependsOn(p, n) \subseteq done
             /\ Frames(p, rest, done \cup {n})
             /\ rest # <<>> => rest[1] = calls[1]
             /\ rest = <<>> => calls[1].id = n
<1> DEFINE k == Len(calls)
           n == calls[k].id
           rest == SubSeq(calls, 1, k - 1)
<1>k. k \in Nat \ {0} /\ k \in 1..k /\ calls[k] \in Frame
  BY Filled DEF Calls
<1>1. /\ rest \in Calls /\ Len(rest) = k - 1
      /\ \A i \in 1..(k - 1) : rest[i] = calls[i]
  BY Popped DEF Calls
<1>f. /\ \A i \in 1..k : calls[i].id \notin done
      /\ \A i, j \in 1..k : calls[i].id = calls[j].id => i = j
      /\ \A i \in 1..k : calls[i].todo \subseteq DependsOn(p, calls[i].id)
      /\ \A i \in 1..k : i < k => calls[i + 1].id \in DependsOn(p, calls[i].id)
      /\ \A i \in 1..k : \A e \in DependsOn(p, calls[i].id) :
           e \in calls[i].todo \/ e \in done \/ (i < k /\ e = calls[i + 1].id)
      /\ calls[k].todo = {}
  BY DEF Frames, k
<1>r. rest = <<>> <=> k = 1
  BY Popped DEF Calls
<1> HIDE DEF k, rest
<1>2. n \notin done /\ n \in Id /\ DependsOn(p, n) \subseteq done
  BY <1>k, <1>f DEF Frame
<1>3. \A i \in 1..(k - 1) : i \in 1..k /\ i # k /\ i < k /\ i + 1 \in 1..k
  BY <1>k
<1>4. /\ \A i \in 1..(k - 1) : rest[i].id \notin done \cup {n}
      /\ \A i, j \in 1..(k - 1) : rest[i].id = rest[j].id => i = j
      /\ \A i \in 1..(k - 1) : rest[i].todo \subseteq DependsOn(p, rest[i].id)
  BY <1>k, <1>1, <1>3, <1>f
<1>5. \A i \in 1..(k - 1) : i < k - 1 => rest[i + 1].id \in DependsOn(p, rest[i].id)
  <2> SUFFICES ASSUME NEW i \in 1..(k - 1), i < k - 1
               PROVE  rest[i + 1].id \in DependsOn(p, rest[i].id)
    OBVIOUS
  <2>1. i + 1 \in 1..(k - 1)
    BY <1>k
  <2> QED
    BY <1>1, <1>3, <1>f, <2>1
<1>6. ASSUME NEW i \in 1..(k - 1), NEW e \in DependsOn(p, rest[i].id)
      PROVE  e \in rest[i].todo \/ e \in done \cup {n} \/ (i < k - 1 /\ e = rest[i + 1].id)
  <2>1. e \in rest[i].todo \/ e \in done \/ e = calls[i + 1].id
    BY <1>1, <1>3, <1>f, <1>6
  <2>2. CASE i + 1 = k
    BY <2>1, <2>2
  <2>3. CASE i + 1 # k
    <3>1. i < k - 1 /\ i + 1 \in 1..(k - 1)
      BY <1>k, <1>3, <2>3
    <3> QED
      BY <1>1, <2>1, <3>1
  <2> QED
    BY <2>2, <2>3
<1>7. Frames(p, rest, done \cup {n})
  BY <1>1, <1>4, <1>5, <1>6 DEF Frames
<1>8. (rest # <<>> => rest[1] = calls[1]) /\ (rest = <<>> => calls[1].id = n)
  BY <1>k, <1>1, <1>r
<1> QED
  BY <1>1, <1>2, <1>7, <1>8 DEF k, rest

\* A dependency that is being visited closes a circle.
LEMMA Closing ==
  ASSUME NEW p, NEW calls \in Calls, calls # <<>>, NEW done, Frames(p, calls, done),
         NEW d \in calls[Len(calls)].todo, d \in Visiting(calls)
  PROVE  \E T \in SUBSET Id : Circle(p, T)
<1> DEFINE k == Len(calls)
<1>0. k \in Nat \ {0} /\ k \in 1..k /\ \A i \in 1..k : calls[i] \in Frame
  BY Filled DEF Calls
<1>k. k \in Nat \ {0} /\ k \in 1..k /\ \A i \in 1..k : calls[i].id \in Id
  BY <1>0 DEF Frame
<1>1. PICK i \in 1..k : calls[i].id = d
  BY DEF Visiting
<1>f. /\ \A j \in 1..k : calls[j].todo \subseteq DependsOn(p, calls[j].id)
      /\ \A j \in 1..k : j < k => calls[j + 1].id \in DependsOn(p, calls[j].id)
      /\ d \in calls[k].todo
  BY DEF Frames
<1> HIDE DEF k
<1> DEFINE T == {calls[j].id : j \in i..k}
<1>2. T \in SUBSET Id /\ d \in T
  BY <1>k, <1>1
<1>3. ASSUME NEW j \in i..k PROVE DependsOn(p, calls[j].id) \cap T # {}
  <2>1. CASE j = k
    BY <1>k, <1>2, <1>f, <2>1
  <2>2. CASE j # k
    <3>1. j \in 1..k /\ j < k /\ j + 1 \in i..k
      BY <1>k, <2>2
    <3>2. calls[j + 1].id \in T /\ calls[j + 1].id \in DependsOn(p, calls[j].id)
      BY <1>f, <3>1
    <3> QED
      BY <3>2
  <2> QED
    BY <2>1, <2>2
<1>4. Circle(p, T)
  BY <1>2, <1>3 DEF Circle
<1> QED
  BY <1>2, <1>4
-----------------------------------------------------------------------------
(* The invariant                                                             *)

\* The steps of a plan are what normalizePlanData made of them.
LEMMA NormalizedType ==
  ASSUME NEW p \in Seq(Step)
  PROVE  /\ NormalizedPlan(p) \in Seq(Step)
         /\ setting = "sandbox" =>
              \A i \in 1..Len(NormalizedPlan(p)) :
                Normalize[NormalizedPlan(p)[i].file] = NormalizedPlan(p)[i].file
<1> DEFINE q == NormalizedPlan(p)
<1>1. Len(p) \in Nat /\ \A i \in 1..Len(p) : p[i] \in Step
  BY LenProperties
<1>2. \A i \in 1..Len(p) : p[i].file \in Name
  BY <1>1 DEF Step
<1>3. \A i \in 1..Len(p) :
        q[i] = [id |-> p[i].id,
                file |-> IF setting = "sandbox" THEN Normalize[p[i].file] ELSE p[i].file,
                checkpoint |-> p[i].checkpoint, dependsOn |-> p[i].dependsOn]
  BY <1>1 DEF NormalizedPlan, Normalized, Step
<1>4. setting = "sandbox" => \A i \in 1..Len(p) : q[i].file = Normalize[p[i].file]
  BY <1>1 DEF NormalizedPlan, Normalized, Step
<1>5. q = [i \in 1..Len(p) |-> q[i]]
  BY DEF NormalizedPlan
<1> HIDE DEF q
<1>6. \A i \in 1..Len(p) : q[i] \in Step
  <2> SUFFICES ASSUME NEW i \in 1..Len(p) PROVE q[i] \in Step
    OBVIOUS
  <2>1. p[i].id \in Id /\ p[i].checkpoint \in BOOLEAN /\ p[i].dependsOn \in SUBSET Id
    BY <1>1 DEF Step
  <2> DEFINE e == IF setting = "sandbox" THEN Normalize[p[i].file] ELSE p[i].file
  <2>2. e \in Name
    BY <1>2, PlanningAssumption
  <2>3. q[i] = [id |-> p[i].id, file |-> e, checkpoint |-> p[i].checkpoint,
                dependsOn |-> p[i].dependsOn]
    BY <1>3
  <2> HIDE DEF e
  <2> QED
    BY <2>1, <2>2, <2>3 DEF Step
<1>7. q \in Seq(Step) /\ Len(q) = Len(p)
  <2>1. q \in Seq(Step)
    BY <1>1, <1>5, <1>6, IsASeq
  <2>2. DOMAIN q = 1..Len(p)
    BY <1>5
  <2> QED
    BY <1>1, <2>1, <2>2, LenProperties
<1>8. setting = "sandbox" => \A i \in 1..Len(p) : Normalize[q[i].file] = q[i].file
  <2> SUFFICES ASSUME setting = "sandbox", NEW i \in 1..Len(p)
               PROVE  Normalize[q[i].file] = q[i].file
    OBVIOUS
  <2> DEFINE e == Normalize[p[i].file]
  <2>1. Normalize[e] = e
    <3>1. \A f \in Name : Normalize[Normalize[f]] = Normalize[f]
      BY PlanningAssumption
    <3>2. PICK f \in Name : f = p[i].file
      BY <1>2
    <3> QED
      BY <3>1, <3>2
  <2>2. q[i].file = e
    BY <1>4
  <2> HIDE DEF e
  <2> QED
    BY <2>1, <2>2
<1> QED
  BY <1>7, <1>8 DEF q

LEMMA Initial == Init => IndInv
<1> SUFFICES ASSUME Init PROVE IndInv
  OBVIOUS
<1>1. TypeOK
  BY PlanningAssumption, EmptySeq DEF Init, TypeOK, PC, Strategy
<1>2. SearchInv /\ Judged /\ AsNormalized /\ Made
  BY DEF Init, SearchInv, Judged, AsNormalized, Made
<1> QED
  BY <1>1, <1>2 DEF IndInv

\* The actions that ask, read and judge.
LEMMA AroundTheSearch ==
  ASSUME IndInv,
         Clarify \/ Answer \/ Unreadable \/ PlannerThrows \/ Parse \/ ParseErrors
           \/ Repair \/ TryFallback \/ RefusePlan
  PROVE  IndInv'
<1>0. /\ pc \in {"clarify", "ask", "judge"} /\ graph = NoGraph
      /\ pc' \in {"ask", "validate", "refused"} /\ graph' = graph /\ context' = context
      /\ issues' = issues /\ search' = search
  BY Zenon DEF IndInv, Made, Clarify, Answer, Unreadable, PlannerThrows, Parse, ParseErrors,
              Repair, TryFallback, RefusePlan, AskAgain, GiveUp, context
<1>1. attempt' \in 1..MaxAttempts /\ strategy' \in Strategy
  BY PlanningAssumption DEF IndInv, TypeOK, Clarify, Answer, Unreadable, PlannerThrows, Parse, ParseErrors,
       Repair, TryFallback, RefusePlan, AskAgain, GiveUp, Strategy
<1>2. /\ plan' \in Seq(Step) \cup {NoPlan}
      /\ pc' = "validate" => plan' \in Seq(Step)
      /\ way' = "spec" /\ setting' = "sandbox" /\ pc' = "validate" =>
           \A i \in 1..Len(plan') : Normalize[plan'[i].file] = plan'[i].file
  <2>1. CASE Answer
    <3>1. PICK p \in Plan : plan' = NormalizedPlan(p)
      BY <2>1 DEF Answer
    <3>2. p \in Seq(Step)
      BY PlanningAssumption
    <3> QED
      BY <3>1, <3>2, <1>0, NormalizedType DEF context
  <2>2. CASE Parse
    BY <2>2, PlanningAssumption DEF Parse, context
  <2>3. CASE TryFallback
    BY <2>3 DEF TryFallback, IndInv, TypeOK, AsNormalized, context
  <2>4. CASE Clarify \/ Unreadable \/ PlannerThrows \/ ParseErrors \/ Repair \/ RefusePlan
    BY <2>4 DEF Clarify, Unreadable, PlannerThrows, ParseErrors, Repair, RefusePlan, AskAgain, GiveUp,
                IndInv, TypeOK
  <2> QED
    BY <2>1, <2>2, <2>3, <2>4
<1>3. TypeOK'
  BY <1>0, <1>1, <1>2 DEF IndInv, TypeOK, PC, search, context
<1>4. SearchInv' /\ Judged' /\ Made'
  BY <1>0 DEF SearchInv, Judged, Made
<1>5. AsNormalized'
  BY <1>0, <1>2 DEF AsNormalized
<1> QED
  BY <1>3, <1>4, <1>5 DEF IndInv

LEMMA ValidateStep == ASSUME IndInv, Validate PROVE IndInv'
<1>0. /\ pc = "validate" /\ pc' = "visit" /\ issues' = FormIssues(plan) /\ plan' = plan
      /\ next' = 1 /\ stack' = <<>> /\ visited' = {} /\ way' = way /\ setting' = setting
      /\ attempt' = attempt /\ strategy' = strategy /\ graph' = graph
      /\ plan \in Seq(Step)
  BY DEF Validate, context, IndInv, TypeOK
<1>1. TypeOK'
  BY <1>0, FormType, EmptySeq DEF IndInv, TypeOK, PC
<1>2. FormIssues(plan)' = FormIssues(plan)
  BY <1>0 DEF FormIssues, IdTwice, FileTwice, Misplaced, Mistyped, Unknown, MayWrite, Ids
<1>3. Frames(plan, <<>>, {}) /\ Closed(plan, {}) /\ NoCircle(plan, {})
  <2>1. Len(<<>>) = 0
    BY EmptySeq
  <2> QED
    BY <2>1 DEF Frames, Closed, NoCircle
<1>4. Roots'
  <2>1. Len(plan) \in Nat
    BY <1>0, LenProperties
  <2> QED
    BY <1>0, <2>1 DEF Roots
<1>5. SearchInv'
  BY <1>0, <1>2, <1>3, <1>4 DEF SearchInv
<1>6. Judged' /\ AsNormalized' /\ Made'
  BY <1>0 DEF IndInv, Judged, AsNormalized, Made
<1> QED
  BY <1>1, <1>5, <1>6 DEF IndInv

\* What each step of the search leaves alone.
LEMMA Apart ==
  ASSUME IndInv, pc = "visit", pc' \in {"visit", "judge"}, plan' = plan, way' = way,
         setting' = setting, attempt' = attempt, strategy' = strategy, graph' = graph
  PROVE  /\ plan \in Seq(Step) /\ FormIssues(plan)' = FormIssues(plan)
         /\ AsNormalized' /\ Made'
         /\ (/\ issues' \subseteq {"ids", "files", "path", "extension", "unknown", "cycle"}
             /\ next' \in Nat \ {0} /\ stack' \in Calls /\ visited' \subseteq Id) => TypeOK'
<1>1. FormIssues(plan)' = FormIssues(plan)
  BY DEF FormIssues, IdTwice, FileTwice, Misplaced, Mistyped, Unknown, MayWrite, Ids
<1>2. plan \in Seq(Step) /\ AsNormalized' /\ Made'
  BY DEF IndInv, TypeOK, AsNormalized, Made
<1>3. (/\ issues' \subseteq {"ids", "files", "path", "extension", "unknown", "cycle"}
       /\ next' \in Nat \ {0} /\ stack' \in Calls /\ visited' \subseteq Id) => TypeOK'
  BY DEF IndInv, TypeOK, PC, Calls, Frame
<1> QED
  BY <1>1, <1>2, <1>3

LEMMA VisitStepStep == ASSUME IndInv, VisitStep PROVE IndInv'
<1> DEFINE n == plan[next].id
<1>0. /\ pc = "visit" /\ stack = <<>> /\ next <= Len(plan) /\ next' = next + 1
      /\ plan' = plan /\ way' = way /\ setting' = setting /\ visited' = visited
      /\ attempt' = attempt /\ strategy' = strategy /\ graph' = graph
      /\ Visit(n, <<>>)
  BY DEF VisitStep, context
<1>1. /\ pc' = pc /\ issues' = issues
      /\ stack' = IF n \in visited THEN <<>> ELSE Append(<<>>, Call(n))
  <2>1. Visiting(<<>>) = {}
    BY EmptySeq DEF Visiting
  <2> QED
    BY <1>0, <2>1 DEF Visit
<1>2. /\ plan \in Seq(Step) /\ next \in Nat \ {0} /\ Len(plan) \in Nat
      /\ next \in 1..Len(plan) /\ visited \subseteq Id /\ FormIssues(plan)' = FormIssues(plan)
  <2>1. plan \in Seq(Step) /\ next \in Nat \ {0} /\ visited \subseteq Id
    BY <1>0 DEF IndInv, TypeOK
  <2>2. Len(plan) \in Nat
    BY <2>1, LenProperties
  <2> QED
    BY <1>0, <1>1, <2>1, <2>2, Apart
<1>3. n \in Id /\ Call(n) \in Frame /\ Call(n).id = n /\ Call(n).todo = DependsOn(plan, n)
  <2>1. plan[next] \in Step
    BY <1>2
  <2>2. DependsOn(plan, n) \in SUBSET Id
    BY <1>2, DependsType
  <2> QED
    BY <2>1, <2>2 DEF Step, Call, Frame
<1>4. SearchInv
  BY DEF IndInv
<1>5. stack' \in Calls /\ Frames(plan, stack', visited)
  <2>1. CASE n \in visited
    BY <1>0, <1>1, <1>4, <2>1, EmptySeq DEF SearchInv, Calls
  <2>2. CASE n \notin visited
    <3> DEFINE c == Call(n)
               later == Append(<<>>, c)
    <3>1. later \in Calls /\ Len(later) = 1 /\ later[1] = c
      BY <1>3, EmptySeq, Pushed DEF Calls
    <3>2. c.id = n /\ c.todo = DependsOn(plan, n)
      BY <1>3
    <3> HIDE DEF later, c, n
    <3>3. Frames(plan, later, visited)
      BY <2>2, <3>1, <3>2 DEF Frames
    <3> QED
      BY <1>1, <2>2, <3>1, <3>3 DEF later, c, n
  <2> QED
    BY <2>1, <2>2
<1>6. n \in visited \/ (stack' # <<>> /\ n = stack'[1].id)
  BY <1>1, <1>3
<1>7. Roots'
  <2> SUFFICES ASSUME NEW i \in 1..Len(plan), i < next + 1
               PROVE  plan[i].id \in visited \/ (stack' # <<>> /\ plan[i].id = stack'[1].id)
    BY <1>0 DEF Roots
  <2>1. CASE i = next
    BY <1>6, <2>1
  <2>2. CASE i # next
    <3>1. i < next
      BY <1>2, <2>2
    <3> QED
      BY <1>0, <1>4, <3>1 DEF SearchInv, Roots
  <2> QED
    BY <2>1, <2>2
<1>8. SearchInv' /\ Judged'
  BY <1>0, <1>1, <1>2, <1>4, <1>5, <1>7 DEF SearchInv, Judged
<1>9. TypeOK' /\ AsNormalized' /\ Made'
  <2>1. next' \in Nat \ {0} /\ visited' \subseteq Id
    BY <1>0, <1>2
  <2>2. issues' \subseteq {"ids", "files", "path", "extension", "unknown", "cycle"}
    BY <1>1 DEF IndInv, TypeOK
  <2> QED
    BY <1>0, <1>1, <1>5, <2>1, <2>2, Apart
<1> QED
  BY <1>8, <1>9 DEF IndInv

LEMMA VisitDependencyStep == ASSUME IndInv, VisitDependency PROVE IndInv'
<1>0. PICK d \in Top.todo :
        /\ pc = "visit" /\ stack # <<>> /\ next' = next
        /\ plan' = plan /\ way' = way /\ setting' = setting /\ visited' = visited
        /\ attempt' = attempt /\ strategy' = strategy /\ graph' = graph
        /\ Visit(d, Looking(stack, d))
  BY DEF VisitDependency, context, Looking, Top
<1>1. /\ plan \in Seq(Step) /\ stack \in Calls /\ visited \subseteq Id /\ next \in Nat \ {0}
      /\ issues \subseteq {"ids", "files", "path", "extension", "unknown", "cycle"}
  BY <1>0 DEF IndInv, TypeOK, Calls, Frame
<1>2. /\ issues = FormIssues(plan) /\ Closed(plan, visited) /\ NoCircle(plan, visited)
      /\ Frames(plan, stack, visited) /\ Roots
  BY <1>0 DEF IndInv, SearchInv
<1>3. d \in stack[Len(stack)].todo
  BY DEF Top
<1> DEFINE later == Looking(stack, d)
<1>4. /\ later \in Calls /\ Len(later) = Len(stack)
      /\ Len(stack) \in 1..Len(stack) /\ 1 \in 1..Len(stack)
      /\ \A i \in 1..Len(stack) : later[i].id = stack[i].id
  BY <1>0, <1>1, LookingType, Filled DEF Calls
<1>5. Visiting(later) = Visiting(stack) /\ later # <<>> /\ later[1].id = stack[1].id
  <2>1. Visiting(later) = Visiting(stack)
    BY <1>4 DEF Visiting
  <2>2. later # <<>>
    BY <1>4, EmptySeq
  <2> QED
    BY <1>4, <2>1, <2>2
<1>6. d \in Id
  <2>1. stack[Len(stack)] \in Frame
    BY <1>0, <1>1, <1>4, Filled DEF Calls
  <2> QED
    BY <1>3, <2>1 DEF Frame
<1> HIDE DEF later
<1>7. CASE d \in Visiting(stack)
  <2>1. pc' = "judge" /\ issues' = issues \cup {"cycle"} /\ stack' = later
    BY <1>0, <1>5, <1>7 DEF Visit, later
  <2>2. \E T \in SUBSET Id : Circle(plan, T)
    BY <1>0, <1>1, <1>2, <1>3, <1>7, Closing
  <2>3. SearchInv' /\ Judged'
    BY <1>0, <2>1, <2>2 DEF SearchInv, Judged
  <2>4. TypeOK' /\ AsNormalized' /\ Made'
    BY <1>0, <1>1, <1>4, <2>1, Apart
  <2> QED
    BY <2>3, <2>4 DEF IndInv
<1>8. CASE d \notin Visiting(stack)
  <2>1. /\ pc' = pc /\ issues' = issues
        /\ stack' = IF d \in visited THEN later ELSE Append(later, Call(d))
    BY <1>0, <1>5, <1>8 DEF Visit, later
  <2>2. /\ stack' \in Calls /\ Frames(plan, stack', visited)
        /\ stack' # <<>> /\ stack'[1].id = stack[1].id
    <3>1. CASE d \in visited
      <4>1. Frames(plan, later, visited)
        BY <1>0, <1>1, <1>2, <3>1, SeenFrames DEF later
      <4> QED
        BY <1>4, <1>5, <2>1, <3>1, <4>1
    <3>2. CASE d \notin visited
      <4>1. Call(d) \in Frame /\ Call(d).id = d /\ Call(d).todo = DependsOn(plan, d)
        <5>1. DependsOn(plan, d) \in SUBSET Id
          BY <1>1, DependsType
        <5> QED
          BY <1>6, <5>1 DEF Call, Frame
      <4> DEFINE c == Call(d)
      <4>2. c \in Frame /\ c.id = d /\ c.todo = DependsOn(plan, d)
        BY <4>1
      <4> HIDE DEF c
      <4>3. /\ Append(later, c) \in Calls /\ Frames(plan, Append(later, c), visited)
            /\ Append(later, c)[1].id = stack[1].id
        BY <1>0, <1>1, <1>2, <1>3, <1>8, <3>2, <4>2, DeeperFrames DEF later
      <4>4. Append(later, c) # <<>>
        <5>1. Len(Append(later, c)) = Len(stack) + 1 /\ Len(stack) \in Nat
          BY <1>4, <4>2, Pushed DEF Calls
        <5>2. Len(Append(later, c)) # 0
          BY <5>1
        <5> QED
          BY <5>2, EmptySeq
      <4> QED
        BY <2>1, <3>2, <4>3, <4>4 DEF c
    <3> QED
      BY <3>1, <3>2
  <2>3. Roots'
    BY <1>0, <1>2, <2>2 DEF Roots
  <2>4. FormIssues(plan)' = FormIssues(plan)
    BY <1>0, <2>1, Apart
  <2>5. SearchInv' /\ Judged'
    BY <1>0, <1>2, <2>1, <2>2, <2>3, <2>4 DEF SearchInv, Judged
  <2>6. TypeOK' /\ AsNormalized' /\ Made'
    BY <1>0, <1>1, <2>1, <2>2, Apart
  <2> QED
    BY <2>5, <2>6 DEF IndInv
<1> QED
  BY <1>7, <1>8

LEMMA LeaveNodeStep == ASSUME IndInv, LeaveNode PROVE IndInv'
<1> DEFINE n == stack[Len(stack)].id
           rest == SubSeq(stack, 1, Len(stack) - 1)
<1>0. /\ pc = "visit" /\ stack # <<>> /\ next' = next /\ stack[Len(stack)].todo = {}
      /\ plan' = plan /\ way' = way /\ setting' = setting /\ visited' = visited \cup {n}
      /\ attempt' = attempt /\ strategy' = strategy /\ graph' = graph
      /\ pc' = pc /\ issues' = issues /\ stack' = rest
  BY DEF LeaveNode, context, Top
<1>1. /\ plan \in Seq(Step) /\ stack \in Calls /\ visited \subseteq Id /\ next \in Nat \ {0}
      /\ issues \subseteq {"ids", "files", "path", "extension", "unknown", "cycle"}
  BY <1>0 DEF IndInv, TypeOK, Calls, Frame
<1>2. /\ issues = FormIssues(plan) /\ Closed(plan, visited) /\ NoCircle(plan, visited)
      /\ Frames(plan, stack, visited) /\ Roots
  BY <1>0 DEF IndInv, SearchInv
<1>3. /\ rest \in Calls /\ n \notin visited /\ n \in Id /\ DependsOn(plan, n) \subseteq visited
      /\ Frames(plan, rest, visited \cup {n})
      /\ rest # <<>> => rest[1] = stack[1]
      /\ rest = <<>> => stack[1].id = n
  BY <1>0, <1>1, <1>2, LeftFrames
<1> HIDE DEF n, rest
<1>4. Closed(plan, visited \cup {n}) /\ NoCircle(plan, visited \cup {n})
  BY <1>2, <1>3, OneMore
<1>5. Roots'
  BY <1>0, <1>2, <1>3 DEF Roots
<1>6. FormIssues(plan)' = FormIssues(plan)
  BY <1>0, Apart
<1>7. SearchInv' /\ Judged'
  BY <1>0, <1>2, <1>3, <1>4, <1>5, <1>6 DEF SearchInv, Judged
<1>8. TypeOK' /\ AsNormalized' /\ Made'
  BY <1>0, <1>1, <1>3, Apart
<1> QED
  BY <1>7, <1>8 DEF IndInv

LEMMA SearchDoneStep == ASSUME IndInv, SearchDone PROVE IndInv'
<1>0. /\ pc = "visit" /\ stack = <<>> /\ next > Len(plan) /\ pc' = "judge"
      /\ plan' = plan /\ way' = way /\ setting' = setting /\ visited' = visited
      /\ attempt' = attempt /\ strategy' = strategy /\ graph' = graph
      /\ issues' = issues /\ next' = next /\ stack' = stack
  BY DEF SearchDone, context, search
<1>1. /\ plan \in Seq(Step) /\ stack \in Calls /\ visited \subseteq Id /\ next \in Nat \ {0}
      /\ issues \subseteq {"ids", "files", "path", "extension", "unknown", "cycle"}
      /\ Len(plan) \in Nat
  BY <1>0, LenProperties DEF IndInv, TypeOK, Calls, Frame
<1>2. issues = FormIssues(plan) /\ NoCircle(plan, visited) /\ Roots
  BY <1>0 DEF IndInv, SearchInv
<1>3. Ids(plan) \subseteq visited
  <2>1. \A i \in 1..Len(plan) : i < next
    BY <1>0, <1>1
  <2> QED
    BY <1>0, <1>2, <2>1 DEF Roots, Ids
<1>4. FormIssues(plan)' = FormIssues(plan) /\ TypeOK' /\ AsNormalized' /\ Made'
  BY <1>0, <1>1, Apart
<1>5. SearchInv' /\ Judged'
  BY <1>0, <1>2, <1>3, <1>4 DEF SearchInv, Judged
<1> QED
  BY <1>4, <1>5 DEF IndInv

LEMMA AcceptStep == ASSUME IndInv, Accept PROVE IndInv'
<1>0. /\ pc = "judge" /\ issues = {} /\ pc' = "planned" /\ graph' = PlannedGraph(plan)
      /\ UNCHANGED <<context, attempt, strategy, plan, issues, search>>
  BY DEF Accept
<1>1. TypeOK'
  BY <1>0 DEF IndInv, TypeOK, PC, context, search
<1>2. SearchInv' /\ Judged' /\ AsNormalized'
  BY <1>0 DEF IndInv, SearchInv, Judged, AsNormalized, context
<1>3. FormIssues(plan) = {} /\ Ids(plan) \subseteq visited /\ NoCircle(plan, visited)
  BY <1>0 DEF IndInv, Judged
<1>4. ~FileTwice(plan) /\ ~Unknown(plan) /\ NoCircle(plan, Ids(plan))
  BY <1>3, FormType DEF NoCircle
<1>5. Made'
  BY <1>0, <1>4 DEF Made
<1> QED
  BY <1>1, <1>2, <1>5 DEF IndInv

LEMMA StutterStep == ASSUME IndInv, UNCHANGED vars PROVE IndInv'
<1> USE DEF vars
<1>1. TypeOK'
  BY DEF IndInv, TypeOK, PC
<1>2. /\ FormIssues(plan)' = FormIssues(plan) /\ Roots' = Roots
      /\ PlannedGraph(plan)' = PlannedGraph(plan)
  BY DEF FormIssues, IdTwice, FileTwice, Misplaced, Mistyped, Unknown, MayWrite, Ids, Roots,
         PlannedGraph
<1>3. SearchInv' /\ Judged'
  BY <1>2 DEF IndInv, SearchInv, Judged
<1>4. AsNormalized' /\ Made'
  BY DEF IndInv, AsNormalized, Made
<1> QED
  BY <1>1, <1>3, <1>4 DEF IndInv

\* What validatePlanData, visit and buildGraph keep true between two steps.
THEOREM Inductive == Spec => []IndInv
<1>1. IndInv /\ [Next]_vars => IndInv'
  <2> SUFFICES ASSUME IndInv, [Next]_vars PROVE IndInv'
    OBVIOUS
  <2>1. CASE UNCHANGED vars
    BY <2>1, StutterStep
  <2>2. CASE Clarify \/ Answer \/ Unreadable \/ PlannerThrows \/ Parse \/ ParseErrors
               \/ Repair \/ TryFallback \/ RefusePlan
    BY <2>2, AroundTheSearch
  <2>3. CASE Validate \/ VisitStep \/ VisitDependency \/ LeaveNode \/ SearchDone \/ Accept
    BY <2>3, ValidateStep, VisitStepStep, VisitDependencyStep, LeaveNodeStep, SearchDoneStep,
       AcceptStep
  <2> QED
    BY <2>1, <2>2, <2>3 DEF Next
<1> QED
  BY <1>1, Initial, PTL DEF Spec

-----------------------------------------------------------------------------
(* The theorems                                                              *)

\* Every variable has a value of its type.
THEOREM TypeCorrect == Spec => []TypeOK
<1>1. IndInv => TypeOK
  BY DEF IndInv
<1> QED
  BY <1>1, Inductive, PTL

\* Any plan that is accepted, from a planner or from a person, gives a graph whose
\* nodes depend on its nodes and on each other in no circle.
THEOREM AcceptedFinishes == Spec => []AcceptedCanFinish
<1>1. IndInv => AcceptedCanFinish
  <2> SUFFICES ASSUME IndInv, graph # NoGraph PROVE AcceptedCanFinish
    BY DEF AcceptedCanFinish
  <2>1. /\ graph = PlannedGraph(plan) /\ ~Unknown(plan) /\ NoCircle(plan, Ids(plan))
    BY DEF IndInv, Made
  <2>2. DOMAIN graph = Ids(plan) /\ \A n \in Ids(plan) : graph[n].dependsOn = DependsOn(plan, n)
    BY <2>1 DEF PlannedGraph
  <2>3. \A n \in Ids(plan) : DependsOn(plan, n) \subseteq Ids(plan)
    BY <2>1 DEF Unknown, DependsOn, Latest
  <2>4. \A T \in SUBSET DOMAIN graph :
          T # {} => \E n \in T : graph[n].dependsOn \cap T = {}
    <3> SUFFICES ASSUME NEW T \in SUBSET Ids(plan), T # {}
                 PROVE  \E n \in T : graph[n].dependsOn \cap T = {}
      BY <2>2
    <3>1. PICK n \in T : DependsOn(plan, n) \cap T = {}
      BY <2>1 DEF NoCircle
    <3> QED
      BY <2>2, <3>1
  <2> QED
    BY <2>2, <2>3, <2>4 DEF AcceptedCanFinish
<1> QED
  BY <1>1, Inductive, PTL

\* A circle that the search reports is in the plan.
THEOREM CyclesAreThere == Spec => []CycleIsThere
<1>1. IndInv => CycleIsThere
  BY FormType DEF IndInv, Judged, CycleIsThere, Circle
<1> QED
  BY <1>1, Inductive, PTL

\* Two nodes that a planner planned for an output directory never share a name.
THEOREM NamesAreApart == Spec => []OneNameEach
<1>1. IndInv => OneNameEach
  <2> SUFFICES ASSUME IndInv, graph # NoGraph, way = "spec", setting = "sandbox",
                      NEW m \in DOMAIN graph, NEW n \in DOMAIN graph,
                      NEW f \in graph[m].files, NEW h \in graph[n].files,
                      Normalize[f] = Normalize[h]
               PROVE  m = n
    BY DEF OneNameEach
  <2>1. graph = PlannedGraph(plan) /\ ~FileTwice(plan) /\ pc = "planned"
    BY DEF IndInv, Made
  <2>2. m \in Ids(plan) /\ n \in Ids(plan)
    BY <2>1 DEF PlannedGraph
  <2>3. graph[m].files = Files(plan, m) /\ graph[n].files = Files(plan, n)
    BY <2>1, <2>2 DEF PlannedGraph
  <2>4. PICK i \in 1..Len(plan) : plan[i].id = m /\ f = plan[i].file
    BY <2>3 DEF Files, Latest
  <2>5. PICK j \in 1..Len(plan) : plan[j].id = n /\ h = plan[j].file
    BY <2>3 DEF Files, Latest
  <2>6. Normalize[plan[i].file] = plan[i].file /\ Normalize[plan[j].file] = plan[j].file
    BY <2>1 DEF IndInv, AsNormalized
  <2>7. i = j
    BY <2>1, <2>4, <2>5, <2>6 DEF FileTwice
  <2> QED
    BY <2>4, <2>5, <2>7
<1> QED
  BY <1>1, Inductive, PTL
=============================================================================
