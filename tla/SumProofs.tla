----------------------------- MODULE SumProofs -----------------------------
(***************************************************************************)
(* What the sum of a function over a finite set does, from the definition  *)
(* of the fold it is: the conservation of lamports rests on it.  The fold  *)
(* visits its set in an order nothing is known of, so first it is shown to *)
(* be defined at all, then to be the same whichever element comes first.   *)
(* A smallest set without a property stands in for induction.              *)
(***************************************************************************)
EXTENDS Integers, FiniteSets, Functions, FiniteSetTheorems, WellFoundedInduction, TLAPS

\* Among subsets of a finite set, one contains no other.
LEMMA SmallestSubset ==
  ASSUME NEW S, IsFiniteSet(S), NEW T, T \subseteq SUBSET S, T # {}
  PROVE  \E s \in T : \A u \in T : u \subseteq s => u = s
<1> DEFINE R == StrictSubsetOrdering(S)
<1>1. IsWellFoundedOn(R, SUBSET S)
  BY FS_StrictSubsetOrderingWellFounded, FS_FiniteSubsetsOfFinite
<1>2. \A u, s \in SUBSET S : u \subseteq s /\ u # s => <<u, s>> \in R
  BY DEF StrictSubsetOrdering
<1> HIDE DEF R
<1>3. PICK s \in T : \A u \in T : ~ (<<u, s>> \in R)
  BY <1>1, WFMin
<1>4. ASSUME NEW u \in T, u \subseteq s PROVE u = s
  <2>1. u \in SUBSET S /\ s \in SUBSET S /\ ~ (<<u, s>> \in R)
    BY <1>3
  <2> QED BY <1>2, <1>4, <2>1, Zenon
<1> QED BY <1>4

-----------------------------------------------------------------------------
(***************************************************************************)
(* The fold is defined: a function satisfies its recursive equation, and   *)
(* only one does.                                                          *)
(***************************************************************************)
First(s) == CHOOSE x \in s : TRUE
Folded(g, f, S) ==
  g = [s \in SUBSET S |-> IF s = {} THEN 0 ELSE f[First(s)] + g[s \ {First(s)}]]

LEMMA FirstIn ==
  ASSUME NEW s, s # {}
  PROVE  First(s) \in s
BY DEF First

LEMMA FoldedAt ==
  ASSUME NEW g, NEW f, NEW S, Folded(g, f, S), NEW s \in SUBSET S
  PROVE  g[s] = IF s = {} THEN 0 ELSE f[First(s)] + g[s \ {First(s)}]
BY DEF Folded

\* Two folds agree on the sets where they are both defined.
LEMMA FoldedAgree ==
  ASSUME NEW S, IsFiniteSet(S), NEW T \in SUBSET S,
         NEW f, NEW g, Folded(g, f, S), NEW e, NEW h, Folded(h, e, T),
         \A x \in T : e[x] = f[x]
  PROVE  \A s \in SUBSET T : h[s] = g[s]
<1> DEFINE Differ == {s \in SUBSET T : h[s] # g[s]}
<1>1. SUFFICES ASSUME Differ # {} PROVE FALSE
  OBVIOUS
<1>2. PICK s \in Differ : \A u \in Differ : u \subseteq s => u = s
  <2>1. Differ \subseteq SUBSET S
    OBVIOUS
  <2> HIDE DEF Differ
  <2> QED BY <1>1, <2>1, SmallestSubset
<1>3. s \in SUBSET T /\ s \in SUBSET S /\ h[s] # g[s]
  OBVIOUS
<1>4. s # {}
  BY <1>3, FoldedAt
<1> DEFINE u == s \ {First(s)}
<1>5. First(s) \in s /\ u \in SUBSET T /\ u \subseteq s /\ u # s
  BY <1>3, <1>4, FirstIn
<1>6. h[u] = g[u]
  BY <1>2, <1>5
<1>7. h[s] = e[First(s)] + h[u] /\ g[s] = f[First(s)] + g[u]
  BY <1>3, <1>4, FoldedAt
<1>8. e[First(s)] = f[First(s)]
  BY <1>3, <1>5
<1> QED BY <1>3, <1>6, <1>7, <1>8

LEMMA FoldedExists ==
  ASSUME NEW S, IsFiniteSet(S), NEW f
  PROVE  \E g : Folded(g, f, S)
<1> DEFINE Without == {s \in SUBSET S : ~ \E g : Folded(g, f, s)}
<1>1. SUFFICES ASSUME Without # {} PROVE FALSE
  <2>1. S \in SUBSET S
    OBVIOUS
  <2> QED BY <2>1
<1>2. PICK T \in Without : \A u \in Without : u \subseteq T => u = T
  <2>1. Without \subseteq SUBSET S
    OBVIOUS
  <2> HIDE DEF Without
  <2> QED BY <1>1, <2>1, SmallestSubset
<1>3. T \in SUBSET S /\ ~ \E g : Folded(g, f, T)
  OBVIOUS
<1> DEFINE G(u) == CHOOSE g : Folded(g, f, u)
           After(u) == G(u)[u]
           g == [s \in SUBSET T |-> IF s = {} THEN 0 ELSE f[First(s)] + After(s \ {First(s)})]
<1>4. ASSUME NEW u \in SUBSET T, u # T PROVE Folded(G(u), f, u)
  <2>1. u \in SUBSET S /\ u \notin Without
    BY <1>2, <1>3, <1>4
  <2>2. \E k : Folded(k, f, u)
    BY <2>1
  <2> QED BY <2>2, Zenon
<1>5. ASSUME NEW u \in SUBSET T, u # T PROVE g[u] = G(u)[u]
  <2> HIDE DEF G
  <2>1. Folded(G(u), f, u) /\ u \in SUBSET u
    BY <1>4, <1>5
  <2>2. CASE u = {}
    BY <2>1, <2>2, FoldedAt
  <2>3. CASE u # {}
    <3> DEFINE v == u \ {First(u)}
    <3>1. First(u) \in u /\ v \in SUBSET T /\ v # T /\ v \in SUBSET u /\ v \in SUBSET v
      BY <2>3, FirstIn
    <3>2. IsFiniteSet(u)
      BY <1>3, FS_Subset
    <3>3. Folded(G(v), f, v)
      BY <1>4, <3>1
    <3>4. G(v)[v] = G(u)[v]
      BY <2>1, <3>1, <3>2, <3>3, FoldedAgree
    <3>5. G(u)[u] = f[First(u)] + G(u)[v]
      BY <2>1, <2>3, FoldedAt
    <3> QED BY <2>3, <3>4, <3>5
  <2> QED BY <2>2, <2>3
<1>6. ASSUME NEW s \in SUBSET T, s # {} PROVE After(s \ {First(s)}) = g[s \ {First(s)}]
  <2>1. First(s) \in s
    BY <1>6, FirstIn
  <2>2. s \ {First(s)} \in SUBSET T /\ s \ {First(s)} # T
    BY <2>1
  <2> QED BY <1>5, <2>2
<1>7. Folded(g, f, T)
  <2> DEFINE k == [s \in SUBSET T |-> IF s = {} THEN 0 ELSE f[First(s)] + g[s \ {First(s)}]]
  <2>1. ASSUME NEW s \in SUBSET T PROVE g[s] = k[s]
    <3>1. CASE s = {}
      BY <3>1
    <3>2. CASE s # {}
      <4>1. g[s] = f[First(s)] + After(s \ {First(s)})
        BY <3>2
      <4>2. k[s] = f[First(s)] + g[s \ {First(s)}]
        BY <3>2
      <4> QED BY <1>6, <3>2, <4>1, <4>2
    <3> QED BY <3>1, <3>2
  <2>2. DOMAIN g = SUBSET T /\ DOMAIN k = SUBSET T
    OBVIOUS
  <2>3. g = k
    BY <2>1, <2>2
  <2> QED BY <2>3 DEF Folded
<1> QED BY <1>3, <1>7

-----------------------------------------------------------------------------
(***************************************************************************)
(* The sum of f over S.                                                    *)
(***************************************************************************)
\* The sums of f over the subsets of S are the values of one fold.
LEMMA SumsFolded ==
  ASSUME NEW S, IsFiniteSet(S), NEW f
  PROVE  \E g : Folded(g, f, S) /\ \A s \in SUBSET S : SumFunctionOnSet(f, s) = g[s]
<1>1. PICK g : Folded(g, f, S)
  BY FoldedExists
<1>2. ASSUME NEW s \in SUBSET S PROVE SumFunctionOnSet(f, s) = g[s]
  <2> DEFINE h == CHOOSE h : Folded(h, f, s)
  <2>1. Folded(h, f, s)
    <3>1. IsFiniteSet(s)
      BY FS_Subset
    <3>2. \E k : Folded(k, f, s)
      BY <3>1, FoldedExists
    <3> QED BY <3>2, Zenon
  <2>2. SumFunctionOnSet(f, s) = h[s]
    BY DEF SumFunctionOnSet, FoldFunctionOnSet, MapThenFoldSet, Folded, First
  <2>3. s \in SUBSET s
    OBVIOUS
  <2> HIDE DEF h
  <2> QED BY <1>1, <2>1, <2>2, <2>3, FoldedAgree
<1> QED BY <1>1, <1>2

LEMMA SumEmpty ==
  ASSUME NEW f
  PROVE  SumFunctionOnSet(f, {}) = 0
<1>1. PICK g : Folded(g, f, {}) /\ \A s \in SUBSET {} : SumFunctionOnSet(f, s) = g[s]
  BY SumsFolded, FS_EmptySet
<1>2. {} \in SUBSET {}
  OBVIOUS
<1>3. g[{}] = 0
  BY <1>1, <1>2, FoldedAt
<1> QED BY <1>1, <1>2, <1>3

LEMMA SumFirst ==
  ASSUME NEW S, IsFiniteSet(S), S # {}, NEW f
  PROVE  SumFunctionOnSet(f, S) = f[First(S)] + SumFunctionOnSet(f, S \ {First(S)})
<1>1. PICK g : Folded(g, f, S) /\ \A s \in SUBSET S : SumFunctionOnSet(f, s) = g[s]
  BY SumsFolded
<1>2. S \in SUBSET S /\ S \ {First(S)} \in SUBSET S
  OBVIOUS
<1>3. g[S] = f[First(S)] + g[S \ {First(S)}]
  BY <1>1, <1>2, FoldedAt
<1> QED BY <1>1, <1>2, <1>3

LEMMA SumIsInt ==
  ASSUME NEW S, IsFiniteSet(S), NEW f, \A x \in S : f[x] \in Int
  PROVE  SumFunctionOnSet(f, S) \in Int
<1> DEFINE Bad == {s \in SUBSET S : SumFunctionOnSet(f, s) \notin Int}
<1>1. SUFFICES ASSUME Bad # {} PROVE FALSE
  <2>1. S \in SUBSET S
    OBVIOUS
  <2> QED BY <2>1
<1>2. PICK s \in Bad : \A u \in Bad : u \subseteq s => u = s
  <2>1. Bad \subseteq SUBSET S
    OBVIOUS
  <2> HIDE DEF Bad
  <2> QED BY <1>1, <2>1, SmallestSubset
<1>3. s \in SUBSET S /\ SumFunctionOnSet(f, s) \notin Int /\ IsFiniteSet(s)
  BY FS_Subset
<1>4. s # {}
  BY <1>3, SumEmpty
<1> DEFINE u == s \ {First(s)}
<1>5. First(s) \in s /\ u \in SUBSET S /\ u \subseteq s /\ u # s
  BY <1>3, <1>4, FirstIn
<1>6. SumFunctionOnSet(f, u) \in Int
  BY <1>2, <1>5
<1>7. f[First(s)] \in Int
  BY <1>3, <1>5
<1>8. SumFunctionOnSet(f, s) = f[First(s)] + SumFunctionOnSet(f, u)
  BY <1>3, <1>4, SumFirst
<1> HIDE DEF u
<1> QED BY <1>3, <1>6, <1>7, <1>8

\* Whichever element is taken out first, the sum is that element and the rest.
LEMMA SumTakeOut ==
  ASSUME NEW S, IsFiniteSet(S), NEW f, \A y \in S : f[y] \in Int, NEW x \in S
  PROVE  SumFunctionOnSet(f, S) = f[x] + SumFunctionOnSet(f, S \ {x})
<1> DEFINE Sum(s) == SumFunctionOnSet(f, s)
           Bad == {s \in SUBSET S : \E y \in s : Sum(s) # f[y] + Sum(s \ {y})}
<1>1. SUFFICES ASSUME Bad # {} PROVE FALSE
  <2>1. S \in SUBSET S
    OBVIOUS
  <2> QED BY <2>1
<1>2. PICK s \in Bad : \A u \in Bad : u \subseteq s => u = s
  <2>1. Bad \subseteq SUBSET S
    OBVIOUS
  <2> HIDE DEF Bad
  <2> QED BY <1>1, <2>1, SmallestSubset
<1>3. PICK y \in s : Sum(s) # f[y] + Sum(s \ {y})
  OBVIOUS
<1> DEFINE c == First(s)
           rest == s \ {c, y}
<1>4. s \in SUBSET S /\ IsFiniteSet(s) /\ c \in s
  BY <1>3, FS_Subset, FirstIn
<1>5. ASSUME NEW u \in SUBSET s, u # s, NEW z \in u PROVE Sum(u) = f[z] + Sum(u \ {z})
  BY <1>2, <1>4, <1>5
<1>6. Sum(s) = f[c] + Sum(s \ {c})
  BY <1>3, <1>4, SumFirst
<1>7. c # y
  BY <1>3, <1>6
<1>8. Sum(s \ {c}) = f[y] + Sum(rest)
  <2>1. y \in s \ {c} /\ s \ {c} # s /\ s \ {c} \in SUBSET s /\ (s \ {c}) \ {y} = rest
    BY <1>4, <1>7
  <2> QED BY <1>5, <2>1
<1>9. Sum(s \ {y}) = f[c] + Sum(rest)
  <2>1. c \in s \ {y} /\ s \ {y} # s /\ s \ {y} \in SUBSET s /\ (s \ {y}) \ {c} = rest
    BY <1>4, <1>7
  <2> QED BY <1>5, <2>1
<1>10. f[c] \in Int /\ f[y] \in Int /\ Sum(rest) \in Int
  <2>1. rest \in SUBSET S /\ \A z \in rest : f[z] \in Int
    BY <1>4
  <2>2. IsFiniteSet(rest)
    BY <2>1, FS_Subset
  <2> QED BY <1>4, <2>1, <2>2, SumIsInt
<1> HIDE DEF Sum, rest, c
<1> QED BY <1>3, <1>6, <1>8, <1>9, <1>10

LEMMA SumAgree ==
  ASSUME NEW S, IsFiniteSet(S), NEW f, NEW g, \A x \in S : f[x] = g[x]
  PROVE  SumFunctionOnSet(f, S) = SumFunctionOnSet(g, S)
<1>1. PICK k : Folded(k, f, S) /\ \A s \in SUBSET S : SumFunctionOnSet(f, s) = k[s]
  BY SumsFolded
<1>2. PICK h : Folded(h, g, S) /\ \A s \in SUBSET S : SumFunctionOnSet(g, s) = h[s]
  BY SumsFolded
<1>3. S \in SUBSET S
  OBVIOUS
<1>4. h[S] = k[S]
  BY <1>1, <1>2, <1>3, FoldedAgree
<1> QED BY <1>1, <1>2, <1>3, <1>4

\* A change of one value changes the sum by as much.
LEMMA SumChange ==
  ASSUME NEW S, IsFiniteSet(S), NEW f \in [S -> Int], NEW g \in [S -> Int], NEW x \in S,
         \A y \in S \ {x} : g[y] = f[y]
  PROVE  SumFunction(g) = SumFunction(f) + g[x] - f[x]
<1>1. SumFunction(f) = f[x] + SumFunctionOnSet(f, S \ {x})
  BY SumTakeOut DEF SumFunction
<1>2. SumFunction(g) = g[x] + SumFunctionOnSet(g, S \ {x})
  BY SumTakeOut DEF SumFunction
<1>3. IsFiniteSet(S \ {x}) /\ \A y \in S \ {x} : f[y] \in Int
  BY FS_RemoveElement
<1>4. SumFunctionOnSet(g, S \ {x}) = SumFunctionOnSet(f, S \ {x})
  BY <1>3, SumAgree
<1>5. SumFunctionOnSet(f, S \ {x}) \in Int /\ f[x] \in Int /\ g[x] \in Int
  BY <1>3, SumIsInt
<1> QED BY <1>1, <1>2, <1>4, <1>5

LEMMA SumOfInts ==
  ASSUME NEW S, IsFiniteSet(S), NEW f \in [S -> Int]
  PROVE  SumFunction(f) \in Int
BY SumIsInt DEF SumFunction

\* The sum of a function that is c everywhere.
LEMMA SumConstant ==
  ASSUME NEW S, IsFiniteSet(S), NEW c \in Int
  PROVE  SumFunction([x \in S |-> c]) = c * Cardinality(S)
<1> DEFINE f == [x \in S |-> c]
           Bad == {s \in SUBSET S : SumFunctionOnSet(f, s) # c * Cardinality(s)}
<1>1. SUFFICES ASSUME Bad # {} PROVE FALSE
  <2>1. S \in SUBSET S /\ SumFunction(f) = SumFunctionOnSet(f, S)
    BY DEF SumFunction
  <2> QED BY <2>1
<1>2. PICK s \in Bad : \A u \in Bad : u \subseteq s => u = s
  <2>1. Bad \subseteq SUBSET S
    OBVIOUS
  <2> HIDE DEF Bad
  <2> QED BY <1>1, <2>1, SmallestSubset
<1>3. s \in SUBSET S /\ SumFunctionOnSet(f, s) # c * Cardinality(s) /\ IsFiniteSet(s)
  BY FS_Subset
<1>4. s # {}
  BY <1>3, SumEmpty, FS_EmptySet
<1> DEFINE u == s \ {First(s)}
<1>5. First(s) \in s /\ u \in SUBSET S /\ u \subseteq s /\ u # s
  BY <1>3, <1>4, FirstIn
<1>6. SumFunctionOnSet(f, u) = c * Cardinality(u)
  BY <1>2, <1>5
<1>7. f[First(s)] = c
  BY <1>3, <1>5
<1>8. SumFunctionOnSet(f, s) = f[First(s)] + SumFunctionOnSet(f, u)
  BY <1>3, <1>4, SumFirst
<1>9. Cardinality(u) = Cardinality(s) - 1 /\ Cardinality(s) \in Nat
  BY <1>3, <1>5, FS_RemoveElement, FS_CardinalityType
<1> HIDE DEF u, f
<1>10. c + c * (Cardinality(s) - 1) = c * Cardinality(s)
  BY <1>9
<1> QED BY <1>3, <1>6, <1>7, <1>8, <1>9, <1>10
=============================================================================
