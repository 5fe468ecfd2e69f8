--------------------------- MODULE HashListProofs ---------------------------
(***************************************************************************)
(* What a reader may rely on of any append-only log, and so of every       *)
(* module that is shown to implement HashList: what a list once committed  *)
(* to, it commits to for ever.                                             *)
(***************************************************************************)
EXTENDS HashList, Integers, TLAPS

\* The head of list l is the digest of log, or of what was added behind it.
Commits(l, log) ==
  /\ list[l] # NoList
  /\ Len(log) <= Len(list[l])
  /\ \A i \in 1 .. Len(log) : list[l][i] = log[i]

THEOREM TypeCorrect == Spec => []TypeOK
<1>1. Init => TypeOK
  <2>1. <<>> \in Seq(Entry)
    OBVIOUS
  <2> QED
    BY <2>1 DEF Init, TypeOK
<1>2. TypeOK /\ [Next]_list => TypeOK'
  <2> SUFFICES ASSUME TypeOK, [Next]_list
               PROVE  TypeOK'
    OBVIOUS
  <2>1. ASSUME NEW l \in Lists, Open(l)
        PROVE  TypeOK'
    BY <2>1 DEF Open, TypeOK
  <2>2. ASSUME NEW l \in Lists, NEW e \in Entry, OpenWith(l, e)
        PROVE  TypeOK'
    BY <2>2 DEF OpenWith, TypeOK
  <2>3. ASSUME NEW l \in Lists, NEW e \in Entry, Extend(l, e)
        PROVE  TypeOK'
    <3>1. list[l] \in Seq(Entry)
      BY <2>3 DEF Extend, TypeOK
    <3>2. Append(list[l], e) \in Seq(Entry)
      BY <3>1
    <3> QED
      BY <2>3, <3>2 DEF Extend, TypeOK
  <2>4. CASE UNCHANGED list
    BY <2>4 DEF TypeOK
  <2> QED
    BY <2>1, <2>2, <2>3, <2>4 DEF Next
<1> QED
  BY <1>1, <1>2, PTL DEF Spec

\* A step adds to a list that exists at most one entry, behind the others.
LEMMA StepCommits ==
  ASSUME NoList \notin Seq(Entry), TypeOK, [Next]_list, NEW l \in Lists, NEW log \in Seq(Entry),
         Commits(l, log)
  PROVE  Commits(l, log)'
<1>0. list \in [Lists -> Seq(Entry) \cup {NoList}] /\ list[l] \in Seq(Entry)
  BY DEF TypeOK, Commits
<1>1. ASSUME NEW k \in Lists, Open(k) \/ \E e \in Entry : OpenWith(k, e)
      PROVE  list'[l] = list[l]
  BY <1>0, <1>1 DEF Open, OpenWith, Commits
<1>2. ASSUME NEW k \in Lists, NEW e \in Entry, Extend(k, e), k # l
      PROVE  list'[l] = list[l]
  BY <1>0, <1>2 DEF Extend
<1>3. ASSUME list'[l] = list[l]
      PROVE  Commits(l, log)'
  BY <1>3 DEF Commits
<1>4. ASSUME NEW e \in Entry, Extend(l, e)
      PROVE  Commits(l, log)'
  <2>1. list'[l] = Append(list[l], e)
    BY <1>0, <1>4 DEF Extend
  <2>2. /\ Append(list[l], e) \in Seq(Entry)
        /\ Len(Append(list[l], e)) = Len(list[l]) + 1
        /\ \A i \in 1 .. Len(list[l]) : Append(list[l], e)[i] = list[l][i]
    BY <1>0
  <2>3. Len(log) \in Nat /\ Len(list[l]) \in Nat
    BY <1>0
  <2>4. list'[l] # NoList
    BY <2>1, <2>2
  <2>5. Len(log) <= Len(list'[l])
    BY <2>1, <2>2, <2>3 DEF Commits
  <2>6. ASSUME NEW i \in 1 .. Len(log)
        PROVE  list'[l][i] = log[i]
    <3>1. i \in 1 .. Len(list[l]) /\ list[l][i] = log[i]
      BY <2>3 DEF Commits
    <3> QED
      BY <2>1, <2>2, <3>1
  <2> QED
    BY <2>4, <2>5, <2>6 DEF Commits
<1>5. CASE UNCHANGED list
  BY <1>3, <1>5
<1> QED
  BY <1>1, <1>2, <1>3, <1>4, <1>5 DEF Next

\* A list never takes back what it has committed to: whoever saw it, at whatever
\* time, saw a beginning of what it is now.
THEOREM CommitmentsStand ==
  ASSUME NoList \notin Seq(Entry), NEW CONSTANT l \in Lists, NEW CONSTANT log \in Seq(Entry)
  PROVE  Spec => [](Commits(l, log) => []Commits(l, log))
<1>1. TypeOK /\ [Next]_list /\ Commits(l, log) => Commits(l, log)'
  BY StepCommits
<1> QED
  BY <1>1, TypeCorrect, PTL DEF Spec
=============================================================================
