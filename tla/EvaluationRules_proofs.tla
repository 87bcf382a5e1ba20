---------------------------- MODULE EvaluationRules_proofs ----------------------------
(***************************************************************************)
(* Proofs about EvaluationRules.  Its operators are about finite sets,     *)
(* sorted or searched, and about chains of edges; the lemmas on chains go  *)
(* by induction over the weight or the number of hops, as the existence of  *)
(* a least natural number.  The two action properties rest on them.         *)
(***************************************************************************)
EXTENDS EvaluationRules, FiniteSetTheorems, TLAPS

---------------------------------------------------------------------------
(* Induction over natural numbers, for sets.                               *)

\* A set of natural numbers has a least element.
LEMMA NatLeast ==
  ASSUME NEW S, S \subseteq Nat, S # {}
  PROVE  \E x \in S : \A y \in S : x <= y
<1> DEFINE R == {ss \in Nat \X Nat : ss[1] < ss[2]}
<1>1. IsWellFoundedOn(R, Nat)
  BY NatLessThanWellFounded DEF OpToRel
<1>2. PICK x \in S : \A y \in S : ~ (<<y, x>> \in R)
  <2> HIDE DEF R
  <2> QED
    BY <1>1, WFMin
<1>3. \A y \in S : ~ (y < x)
  BY <1>2
<1> QED
  BY <1>3

\* A set that has each number below which it has all has every number.
LEMMA Inductive ==
  ASSUME NEW S, S \subseteq Nat, \A n \in Nat : (\A m \in 0..(n - 1) : m \in S) => n \in S
  PROVE  S = Nat
<1> SUFFICES ASSUME Nat \ S # {}
             PROVE  FALSE
  OBVIOUS
<1>1. PICK x \in Nat \ S : \A y \in Nat \ S : x <= y
  BY NatLeast
<1>2. \A m \in 0..(x - 1) : m \in Nat /\ ~ (x <= m)
  BY <1>1
<1>3. \A m \in 0..(x - 1) : m \in S
  BY <1>1, <1>2
<1> QED
  BY <1>1, <1>3

\* A set that has 0 and the successor of each of its numbers has every number.
LEMMA Upwards ==
  ASSUME NEW S, S \subseteq Nat, 0 \in S, \A n \in S : n + 1 \in S
  PROVE  S = Nat
<1>1. ASSUME NEW n \in Nat, \A m \in 0..(n - 1) : m \in S
      PROVE  n \in S
  <2>1. CASE n = 0
    BY <2>1
  <2>2. CASE n # 0
    <3>1. n - 1 \in 0..(n - 1) /\ (n - 1) + 1 = n
      BY <2>2
    <3>2. n - 1 \in S
      BY <1>1, <3>1
    <3> QED
      BY <3>1, <3>2
  <2> QED
    BY <2>1, <2>2
<1> QED
  BY <1>1, Inductive

\* Least is what its name says.
LEMMA LeastType ==
  ASSUME NEW S, S \subseteq Nat, S # {}
  PROVE  Least(S) \in S /\ \A y \in S : Least(S) <= y
<1>1. \E x \in S : \A y \in S : x <= y
  BY NatLeast
<1> QED
  BY <1>1 DEF Least

---------------------------------------------------------------------------
(* Sorting.                                                                *)

StrictOrder(R, S) ==
  /\ \A a, b \in S : a # b => <<a, b>> \in R \/ <<b, a>> \in R
  /\ \A a, b \in S : <<a, b>> \in R => <<b, a>> \notin R
  /\ \A a, b, c \in S : <<a, b>> \in R /\ <<b, c>> \in R => <<a, c>> \in R

Below(R, S, b) == {a \in S : <<a, b>> \in R}

\* In a finite set with an order each number of predecessors is that of one element.
LEMMA RankBijection ==
  ASSUME NEW S, IsFiniteSet(S), NEW R, StrictOrder(R, S)
  PROVE  /\ Cardinality(S) \in Nat
         /\ \A b \in S : Cardinality(Below(R, S, b)) \in 0..(Cardinality(S) - 1)
         /\ \A a, b \in S : <<a, b>> \in R => Cardinality(Below(R, S, a)) < Cardinality(Below(R, S, b))
         /\ \A i \in 0..(Cardinality(S) - 1) : \E b \in S : Cardinality(Below(R, S, b)) = i
<1> DEFINE n == Cardinality(S)
           f == [b \in S |-> Cardinality(Below(R, S, b))]
<1>1. n \in Nat
  BY FS_CardinalityType
<1>2. \A b \in S : IsFiniteSet(Below(R, S, b)) /\ Cardinality(Below(R, S, b)) \in Nat
  BY FS_Subset, FS_CardinalityType DEF Below
<1>3. ASSUME NEW b \in S
      PROVE  Cardinality(Below(R, S, b)) \in 0..(n - 1)
  <2>1. Below(R, S, b) \subseteq S \ {b}
    BY DEF Below, StrictOrder
  <2>2. IsFiniteSet(S \ {b}) /\ Cardinality(S \ {b}) = n - 1
    BY FS_RemoveElement
  <2>3. Cardinality(Below(R, S, b)) <= n - 1
    BY <2>1, <2>2, FS_Subset
  <2> QED
    BY <1>1, <1>2, <2>3
<1>4. ASSUME NEW a \in S, NEW b \in S, <<a, b>> \in R
      PROVE  Cardinality(Below(R, S, a)) < Cardinality(Below(R, S, b))
  <2>1. Below(R, S, a) \cup {a} \subseteq Below(R, S, b)
    BY <1>4 DEF Below, StrictOrder
  <2>2. a \notin Below(R, S, a)
    BY DEF Below, StrictOrder
  <2>3. Cardinality(Below(R, S, a) \cup {a}) = Cardinality(Below(R, S, a)) + 1
    BY <1>2, <2>2, FS_AddElement
  <2>4. Cardinality(Below(R, S, a) \cup {a}) <= Cardinality(Below(R, S, b))
    BY <1>2, <2>1, FS_Subset
  <2> QED
    BY <1>2, <2>3, <2>4
<1>5. f \in [S -> 0..(n - 1)]
  BY <1>3
<1>6. \A a, b \in S : f[a] = f[b] => a = b
  <2>1. \A b \in S : f[b] \in Nat
    BY <1>2
  <2>2. \A a, b \in S : <<a, b>> \in R => f[a] < f[b]
    BY <1>4
  <2>3. \A a, b \in S : a # b => <<a, b>> \in R \/ <<b, a>> \in R
    BY DEF StrictOrder
  <2> HIDE DEF f
  <2>4. \A a, b \in S : <<a, b>> \in R => f[a] # f[b]
    BY <2>1, <2>2
  <2> QED
    BY <2>3, <2>4
<1>7. f \in Injection(S, 0..(n - 1))
  BY <1>5, <1>6 DEF Injection, IsInjective
<1>8. IsFiniteSet(0..(n - 1)) /\ Cardinality(0..(n - 1)) = n
  BY <1>1, FS_Interval
<1>9. f \in Surjection(S, 0..(n - 1))
  <2> HIDE DEF f
  <2> QED
    BY <1>7, <1>8, FS_Injection
<1>10. \A i \in 0..(n - 1) : \E b \in S : f[b] = i
  BY <1>9 DEF Surjection
<1> QED
  BY <1>1, <1>3, <1>4, <1>10

\* What Sorted makes of a set with an order.
SortedBy(s, R, S) ==
  /\ DOMAIN s = 1..Cardinality(S)
  /\ \A i \in DOMAIN s : (\E b \in S : Cardinality(Below(R, S, b)) = i - 1) =>
       s[i] \in S /\ Cardinality(Below(R, S, s[i])) = i - 1

LEMMA SortedSequence ==
  ASSUME NEW S, IsFiniteSet(S), NEW R, StrictOrder(R, S), NEW s, SortedBy(s, R, S)
  PROVE  /\ DOMAIN s = 1..Cardinality(S) /\ Cardinality(S) \in Nat
         /\ \A i \in DOMAIN s : s[i] \in S
         /\ \A b \in S : \E i \in DOMAIN s : s[i] = b
         /\ \A i, j \in DOMAIN s : i < j => <<s[i], s[j]>> \in R
<1> DEFINE n == Cardinality(S)
           rank(b) == Cardinality(Below(R, S, b))
<1>1. /\ n \in Nat
      /\ \A b \in S : rank(b) \in 0..(n - 1)
      /\ \A a, b \in S : <<a, b>> \in R => rank(a) < rank(b)
      /\ \A i \in 0..(n - 1) : \E b \in S : rank(b) = i
  BY RankBijection
<1>2. /\ DOMAIN s = 1..n
      /\ \A i \in 1..n : (\E b \in S : rank(b) = i - 1) => s[i] \in S /\ rank(s[i]) = i - 1
  BY DEF SortedBy
<1> HIDE DEF rank
<1>3. \A i \in 1..n : s[i] \in S /\ rank(s[i]) = i - 1
  <2> TAKE i \in 1..n
  <2>1. i - 1 \in 0..(n - 1)
    BY <1>1
  <2>2. \E b \in S : rank(b) = i - 1
    BY <1>1, <2>1
  <2> QED
    BY <1>2, <2>2
<1>4. \A a, b \in S : a # b => rank(a) # rank(b)
  <2>1. \A a, b \in S : <<a, b>> \in R => rank(a) # rank(b)
    BY <1>1
  <2>2. \A a, b \in S : a # b => <<a, b>> \in R \/ <<b, a>> \in R
    BY DEF StrictOrder
  <2> QED
    BY <2>1, <2>2
<1>5. \A b \in S : \E i \in DOMAIN s : s[i] = b
  <2> TAKE b \in S
  <2>1. rank(b) + 1 \in 1..n /\ (rank(b) + 1) - 1 = rank(b)
    BY <1>1
  <2>2. s[rank(b) + 1] \in S /\ rank(s[rank(b) + 1]) = rank(b)
    BY <1>3, <2>1
  <2>3. s[rank(b) + 1] = b
    BY <1>4, <2>2
  <2> QED
    BY <1>2, <2>1, <2>3
<1>6. \A i, j \in DOMAIN s : i < j => <<s[i], s[j]>> \in R
  <2> SUFFICES ASSUME NEW i \in 1..n, NEW j \in 1..n, i < j
               PROVE  <<s[i], s[j]>> \in R
    BY <1>2
  <2>1. /\ s[i] \in S /\ s[j] \in S /\ rank(s[i]) = i - 1 /\ rank(s[j]) = j - 1
    BY <1>3
  <2>2. s[i] # s[j] /\ ~ (rank(s[j]) < rank(s[i]))
    BY <1>1, <2>1
  <2> QED
    BY <1>1, <2>1, <2>2 DEF StrictOrder
<1> QED
  BY <1>1, <1>2, <1>3, <1>5, <1>6

---------------------------------------------------------------------------
(* Chains: the recursive functions of the graph, unfolded.                 *)

Start(graph, from) == [v \in Nodes(graph) |-> IF v = from THEN {0} ELSE {}]

\* Within grows by one hop.
LEMMA WithinUnfolds ==
  ASSUME NEW graph, NEW from
  PROVE  /\ Within(graph, from, 0) = Start(graph, from)
         /\ \A n \in Nat : Within(graph, from, n + 1) = Relax(graph, Within(graph, from, n))
<1> DEFINE start == Start(graph, from)
           Is(g, n) == g = [m \in 0..n |-> IF m = 0 THEN start ELSE Relax(graph, g[m - 1])]
           W(n) == CHOOSE g : Is(g, n)
<1>1. \A n : Within(graph, from, n) = W(n)[n]
  BY DEF Within, Start
<1> HIDE DEF start
<1>2. \A n \in Nat : \E g : Is(g, n)
  <2> DEFINE S == {n \in Nat : \E g : Is(g, n)}
  <2>1. 0 \in S
    <3>1. Is([m \in 0..0 |-> start], 0)
      OBVIOUS
    <3> QED
      BY <3>1
  <2>2. ASSUME NEW n \in S
        PROVE  n + 1 \in S
    <3>1. PICK g : Is(g, n)
      OBVIOUS
    <3> DEFINE h == [m \in 0..(n + 1) |-> IF m \in 0..n THEN g[m] ELSE Relax(graph, g[n])]
    <3>2. \A m \in 0..n : h[m] = g[m]
      OBVIOUS
    <3>3. \A m \in 0..n : g[m] = IF m = 0 THEN start ELSE Relax(graph, g[m - 1])
      BY <3>1
    <3>4. \A m \in 0..(n + 1) : h[m] = IF m = 0 THEN start ELSE Relax(graph, h[m - 1])
      <4> TAKE m \in 0..(n + 1)
      <4>1. CASE m \in 0..n
        <5>1. m # 0 => m - 1 \in 0..n
          BY <4>1
        <5> QED
          BY <3>2, <3>3, <4>1, <5>1
      <4>2. CASE m = n + 1
        <5>1. m # 0 /\ m - 1 = n /\ n \in 0..n /\ m \notin 0..n
          BY <4>2
        <5> QED
          BY <3>2, <5>1
      <4> QED
        BY <4>1, <4>2
    <3>5. Is(h, n + 1)
      BY <3>4
    <3>6. \E f : Is(f, n + 1)
      <4> HIDE DEF h, Is
      <4> QED
        BY <3>5
    <3> QED
      BY <3>6
  <2>3. S = Nat
    <3> HIDE DEF S
    <3>1. S \subseteq Nat
      BY DEF S
    <3> QED
      BY <2>1, <2>2, <3>1, Upwards
  <2> QED
    BY <2>3
<1>3. \A n \in Nat : Is(W(n), n)
  BY <1>2
<1> HIDE DEF W
<1>4. \A n \in Nat : \A m \in 0..n : W(n)[m] = IF m = 0 THEN start ELSE Relax(graph, W(n)[m - 1])
  BY <1>3
<1> HIDE DEF Is
<1>5. ASSUME NEW n \in Nat, NEW k \in Nat, n <= k
      PROVE  \A m \in 0..n : W(n)[m] = W(k)[m]
  <2> DEFINE S == {m \in Nat : m <= n => W(n)[m] = W(k)[m]}
  <2>1. 0 \in S
    BY <1>4, <1>5
  <2>2. ASSUME NEW m \in S
        PROVE  m + 1 \in S
    <3> SUFFICES ASSUME m + 1 <= n
                 PROVE  W(n)[m + 1] = W(k)[m + 1]
      OBVIOUS
    <3>1. W(n)[m] = W(k)[m]
      OBVIOUS
    <3>2. m + 1 \in 0..n /\ m + 1 \in 0..k /\ m + 1 # 0 /\ (m + 1) - 1 = m
      BY <1>5
    <3>3. W(n)[m + 1] = Relax(graph, W(n)[m]) /\ W(k)[m + 1] = Relax(graph, W(k)[m])
      BY <1>4, <3>2
    <3> QED
      BY <3>1, <3>3
  <2>3. S = Nat
    <3> HIDE DEF S
    <3>1. S \subseteq Nat
      BY DEF S
    <3> QED
      BY <2>1, <2>2, <3>1, Upwards
  <2> QED
    BY <2>3
<1>6. Within(graph, from, 0) = start
  BY <1>1, <1>4
<1>7. ASSUME NEW n \in Nat
      PROVE  Within(graph, from, n + 1) = Relax(graph, Within(graph, from, n))
  <2>1. n + 1 \in Nat /\ n <= n + 1 /\ n \in 0..n /\ n + 1 \in 0..(n + 1) /\ n + 1 # 0 /\ (n + 1) - 1 = n
    OBVIOUS
  <2>2. W(n + 1)[n + 1] = Relax(graph, W(n + 1)[n])
    BY <1>4, <2>1
  <2>3. W(n)[n] = W(n + 1)[n]
    BY <1>5, <2>1
  <2> QED
    BY <1>1, <2>2, <2>3
<1> QED
  BY <1>6, <1>7 DEF start

\* The edges of a graph, and its chains of at most a weight, by their first edge.
Weighed(graph) == \A e \in graph : /\ e.weight \in Nat \ {0}
                                   /\ e.from_version \in Versions /\ e.to_version \in Versions

FirstEdge(graph, w, a, b) ==
  \E e \in graph : /\ e.weight <= w /\ e.from_version = a
                   /\ <<e.to_version, b>> \in WalksWithin(graph, w - e.weight)

LEMMA WalksUnfold ==
  ASSUME NEW graph, Weighed(graph), NEW w \in Nat, NEW a, NEW b
  PROVE  <<a, b>> \in WalksWithin(graph, w) <=> (a = b /\ a \in Versions) \/ FirstEdge(graph, w, a, b)
<1> DEFINE Edges(m) == {x \in graph : x.weight <= m}
           Part(g, m, e) == {<<e.from_version, pair[2]>> :
                               pair \in {p \in g[m - e.weight] : p[1] = e.to_version}}
           Body(g, m) == {<<v, v>> : v \in Versions} \cup UNION {Part(g, m, e) : e \in Edges(m)}
           Is(g, n) == g = [m \in 0..n |-> Body(g, m)]
           W(n) == CHOOSE g : Is(g, n)
<1>1. \A n : WalksWithin(graph, n) = W(n)[n]
  BY DEF WalksWithin
<1>2. ASSUME NEW g, NEW h, NEW m \in Nat, \A k \in 0..(m - 1) : g[k] = h[k]
      PROVE  Body(g, m) = Body(h, m)
  <2>1. ASSUME NEW e \in Edges(m)
        PROVE  Part(g, m, e) = Part(h, m, e)
    <3>1. m - e.weight \in 0..(m - 1)
      BY DEF Weighed
    <3>2. g[m - e.weight] = h[m - e.weight]
      BY <1>2, <3>1
    <3> QED
      BY <3>2
  <2> HIDE DEF Edges, Part
  <2> QED
    BY <2>1
<1>3. \A g, m : \A p \in Body(g, m) : p = <<p[1], p[2]>>
  OBVIOUS
<1>4. ASSUME NEW g, NEW m
      PROVE  <<a, b>> \in Body(g, m) <=>
               \/ a = b /\ a \in Versions
               \/ \E e \in graph : /\ e.weight <= m /\ e.from_version = a
                                   /\ \E p \in g[m - e.weight] : p[1] = e.to_version /\ p[2] = b
  OBVIOUS
<1> HIDE DEF Body
<1>5. \A n \in Nat : \E g : Is(g, n)
  <2> DEFINE S == {n \in Nat : \E g : Is(g, n)}
  <2>1. 0 \in S
    <3> DEFINE h == [m \in 0..0 |-> Body(<<>>, 0)]
    <3>1. Body(h, 0) = Body(<<>>, 0)
      <4> HIDE DEF h
      <4>1. \A k \in 0..(0 - 1) : h[k] = <<>>[k]
        OBVIOUS
      <4> QED
        BY <1>2, <4>1
    <3>2. \A m \in 0..0 : h[m] = Body(h, m)
      BY <3>1
    <3>3. Is(h, 0)
      BY <3>2
    <3>4. \E g : Is(g, 0)
      <4> HIDE DEF h, Is
      <4> QED
        BY <3>3
    <3> QED
      BY <3>4
  <2>2. ASSUME NEW n \in S
        PROVE  n + 1 \in S
    <3>1. PICK g : Is(g, n)
      OBVIOUS
    <3> DEFINE h == [m \in 0..(n + 1) |-> IF m \in 0..n THEN g[m] ELSE Body(g, n + 1)]
    <3>2. \A m \in 0..n : h[m] = g[m]
      OBVIOUS
    <3>3. \A m \in 0..n : g[m] = Body(g, m)
      BY <3>1
    <3>4. h[n + 1] = Body(g, n + 1)
      OBVIOUS
    <3>5. \A m \in 0..(n + 1) : h[m] = Body(h, m)
      <4> TAKE m \in 0..(n + 1)
      <4>1. m \in Nat /\ \A k \in 0..(m - 1) : k \in 0..n
        OBVIOUS
      <4>2. \A k \in 0..(m - 1) : g[k] = h[k]
        BY <3>2, <4>1
      <4>3. Body(g, m) = Body(h, m)
        BY <1>2, <4>1, <4>2
      <4>4. m \in 0..n \/ m = n + 1
        OBVIOUS
      <4> QED
        BY <3>2, <3>3, <3>4, <4>3, <4>4
    <3>6. Is(h, n + 1)
      BY <3>5
    <3>7. \E x : Is(x, n + 1)
      <4> HIDE DEF h, Is
      <4> QED
        BY <3>6
    <3> QED
      BY <3>7
  <2>3. S = Nat
    <3> HIDE DEF S
    <3>1. S \subseteq Nat
      BY DEF S
    <3> QED
      BY <2>1, <2>2, <3>1, Upwards
  <2> QED
    BY <2>3
<1>6. \A n \in Nat : Is(W(n), n)
  BY <1>5
<1> HIDE DEF W
<1>7. \A n \in Nat : \A m \in 0..n : W(n)[m] = Body(W(n), m)
  BY <1>6
<1> HIDE DEF Is
<1>8. ASSUME NEW n \in Nat, NEW k \in Nat, n <= k
      PROVE  \A m \in 0..n : W(n)[m] = W(k)[m]
  <2> DEFINE S == {m \in Nat : m <= n => W(n)[m] = W(k)[m]}
  <2>1. ASSUME NEW m \in Nat, \A j \in 0..(m - 1) : j \in S
        PROVE  m \in S
    <3> SUFFICES ASSUME m <= n
                 PROVE  W(n)[m] = W(k)[m]
      OBVIOUS
    <3>1. \A j \in 0..(m - 1) : W(n)[j] = W(k)[j]
      BY <2>1
    <3>2. m \in 0..n /\ m \in 0..k
      BY <1>8
    <3>3. Body(W(n), m) = Body(W(k), m)
      BY <1>2, <3>1
    <3> QED
      BY <1>7, <3>2, <3>3
  <2>2. S = Nat
    <3> HIDE DEF S
    <3>1. S \subseteq Nat
      BY DEF S
    <3> QED
      BY <2>1, <3>1, Inductive
  <2> QED
    BY <2>2
<1>9. WalksWithin(graph, w) = Body(W(w), w)
  BY <1>1, <1>7
<1>10. \A m \in 0..w : WalksWithin(graph, m) = W(w)[m] /\ \A p \in W(w)[m] : p = <<p[1], p[2]>>
  BY <1>1, <1>3, <1>7, <1>8
<1>11. ASSUME NEW e \in graph, e.weight <= w
       PROVE  (\E p \in W(w)[w - e.weight] : p[1] = e.to_version /\ p[2] = b)
                <=> <<e.to_version, b>> \in WalksWithin(graph, w - e.weight)
  <2>1. w - e.weight \in 0..w
    BY <1>11 DEF Weighed
  <2> QED
    BY <1>10, <2>1
<1> QED
  BY <1>4, <1>9, <1>11 DEF FirstEdge

\* More weight and lighter edges keep the chains there are.
Lighter(graph, by) ==
  \A e \in graph : \E f \in by : /\ f.from_version = e.from_version /\ f.to_version = e.to_version
                                 /\ f.weight <= e.weight

LEMMA WalksKept ==
  ASSUME NEW graph, Weighed(graph), NEW by, Weighed(by), Lighter(graph, by)
  PROVE  \A w \in Nat : \A x \in Nat : w <= x =>
           \A a, b : <<a, b>> \in WalksWithin(graph, w) => <<a, b>> \in WalksWithin(by, x)
<1> DEFINE Kept(w) == \A x \in Nat : w <= x =>
             \A a, b : <<a, b>> \in WalksWithin(graph, w) => <<a, b>> \in WalksWithin(by, x)
           S == {w \in Nat : Kept(w)}
<1>1. ASSUME NEW w \in Nat, \A m \in 0..(w - 1) : m \in S
      PROVE  Kept(w)
  <2> SUFFICES ASSUME NEW x \in Nat, w <= x, NEW a, NEW b, <<a, b>> \in WalksWithin(graph, w)
               PROVE  <<a, b>> \in WalksWithin(by, x)
    OBVIOUS
  <2>1. CASE a = b /\ a \in Versions
    BY <2>1, WalksUnfold
  <2>2. CASE FirstEdge(graph, w, a, b)
    <3>1. PICK e \in graph : /\ e.weight <= w /\ e.from_version = a
                             /\ <<e.to_version, b>> \in WalksWithin(graph, w - e.weight)
      BY <2>2 DEF FirstEdge
    <3>2. PICK f \in by : /\ f.from_version = e.from_version /\ f.to_version = e.to_version
                          /\ f.weight <= e.weight
      BY DEF Lighter
    <3>3. e.weight \in Nat \ {0} /\ f.weight \in Nat \ {0}
      BY DEF Weighed
    <3>4. w - e.weight \in 0..(w - 1) /\ x - f.weight \in Nat /\ w - e.weight <= x - f.weight
      BY <3>1, <3>2, <3>3
    <3>5. Kept(w - e.weight)
      BY <1>1, <3>4
    <3>6. <<e.to_version, b>> \in WalksWithin(by, x - f.weight)
      BY <3>1, <3>4, <3>5
    <3>7. FirstEdge(by, x, a, b)
      BY <3>1, <3>2, <3>3, <3>6 DEF FirstEdge
    <3> QED
      BY <3>7, WalksUnfold
  <2> QED
    BY <2>1, <2>2, WalksUnfold
<1>2. S = Nat
  <2> HIDE DEF Kept
  <2>1. \A w \in Nat : (\A m \in 0..(w - 1) : m \in S) => w \in S
    BY <1>1
  <2>2. S \subseteq Nat
    OBVIOUS
  <2> HIDE DEF S
  <2> QED
    BY <2>1, <2>2, Inductive
<1> QED
  BY <1>2

\* A chain can be lengthened at its end.
LEMMA WalksAppend ==
  ASSUME NEW graph, Weighed(graph), NEW last \in graph
  PROVE  \A w \in Nat : \A a : <<a, last.from_version>> \in WalksWithin(graph, w)
                                 => <<a, last.to_version>> \in WalksWithin(graph, w + last.weight)
<1> DEFINE u == last.from_version
           v == last.to_version
           k == last.weight
           Longer(w) == \A a : <<a, u>> \in WalksWithin(graph, w) => <<a, v>> \in WalksWithin(graph, w + k)
           S == {w \in Nat : Longer(w)}
<1>1. k \in Nat \ {0} /\ u \in Versions /\ v \in Versions
  BY DEF Weighed
<1>2. ASSUME NEW w \in Nat, \A m \in 0..(w - 1) : m \in S
      PROVE  Longer(w)
  <2> SUFFICES ASSUME NEW a, <<a, u>> \in WalksWithin(graph, w)
               PROVE  <<a, v>> \in WalksWithin(graph, w + k)
    OBVIOUS
  <2>1. w + k \in Nat /\ (w + k) - k = w /\ k <= w + k
    BY <1>1
  <2>2. CASE a = u
    <3>1. <<v, v>> \in WalksWithin(graph, w)
      BY <1>1, WalksUnfold
    <3>2. FirstEdge(graph, w + k, a, v)
      BY <2>1, <2>2, <3>1 DEF FirstEdge
    <3> QED
      BY <2>1, <3>2, WalksUnfold
  <2>3. CASE FirstEdge(graph, w, a, u)
    <3>1. PICK e \in graph : /\ e.weight <= w /\ e.from_version = a
                             /\ <<e.to_version, u>> \in WalksWithin(graph, w - e.weight)
      BY <2>3 DEF FirstEdge
    <3>2. e.weight \in Nat \ {0}
      BY DEF Weighed
    <3>3. w - e.weight \in 0..(w - 1) /\ (w - e.weight) + k = (w + k) - e.weight /\ e.weight <= w + k
      BY <1>1, <3>1, <3>2
    <3>4. Longer(w - e.weight)
      BY <1>2, <3>3
    <3>5. <<e.to_version, v>> \in WalksWithin(graph, (w + k) - e.weight)
      BY <3>1, <3>3, <3>4
    <3>6. FirstEdge(graph, w + k, a, v)
      BY <3>1, <3>3, <3>5 DEF FirstEdge
    <3> QED
      BY <2>1, <3>6, WalksUnfold
  <2> QED
    BY <2>2, <2>3, WalksUnfold
<1>3. S = Nat
  <2> HIDE DEF Longer
  <2>1. \A w \in Nat : (\A m \in 0..(w - 1) : m \in S) => w \in S
    BY <1>2
  <2>2. S \subseteq Nat
    OBVIOUS
  <2> HIDE DEF S
  <2> QED
    BY <2>1, <2>2, Inductive
<1> QED
  BY <1>3

---------------------------------------------------------------------------
(* The least weights of ever longer chains.                                *)

\* At each node Within has at most one number; one more hop adds the edges' sums and keeps
\* the least.
Shape(graph, weights) ==
  weights \in [Nodes(graph) -> {S \in SUBSET Nat : \A x, y \in S : x = y}]

LEMMA RelaxMeans ==
  ASSUME NEW graph, Weighed(graph), NEW weights, Shape(graph, weights)
  PROVE  /\ Shape(graph, Relax(graph, weights))
         /\ \A v \in Nodes(graph) : \A w \in Relax(graph, weights)[v] :
              \/ w \in weights[v]
              \/ \E e \in graph : e.to_version = v /\ \E u \in weights[e.from_version] : w = u + e.weight
         /\ \A v \in Nodes(graph) : \A w \in weights[v] : \E x \in Relax(graph, weights)[v] : x <= w
         /\ \A e \in graph : \A w \in weights[e.from_version] :
              \E x \in Relax(graph, weights)[e.to_version] : x <= w + e.weight
<1> DEFINE Found(v) == Reaching(graph, weights, v)
           next == Relax(graph, weights)
<1>1. \A e \in graph : /\ e.weight \in Nat \ {0}
                       /\ e.from_version \in Nodes(graph) /\ e.to_version \in Nodes(graph)
  BY DEF Weighed, Nodes
<1>2. \A v \in Nodes(graph) : weights[v] \subseteq Nat /\ \A x, y \in weights[v] : x = y
  BY DEF Shape
<1>3. \A v : \A w : w \in Found(v) <=>
        \/ w \in weights[v]
        \/ \E e \in graph : e.to_version = v /\ \E u \in weights[e.from_version] : w = u + e.weight
  BY DEF Reaching
<1>4. \A v \in Nodes(graph) : Found(v) \subseteq Nat
  BY <1>1, <1>2, <1>3
<1>5. /\ DOMAIN next = Nodes(graph) /\ next = [v \in Nodes(graph) |-> next[v]]
      /\ \A v \in Nodes(graph) : next[v] = IF Found(v) = {} THEN {} ELSE {Least(Found(v))}
  BY DEF Relax
<1> HIDE DEF Found, next
<1>6. \A v \in Nodes(graph) : Found(v) # {} =>
        Least(Found(v)) \in Found(v) /\ \A y \in Found(v) : Least(Found(v)) <= y
  BY <1>4, LeastType
<1>7. \A v \in Nodes(graph) : /\ next[v] \subseteq Found(v) /\ \A x, y \in next[v] : x = y
                              /\ \A w \in Found(v) : \E x \in next[v] : x <= w
  BY <1>5, <1>6
<1>8. Shape(graph, next)
  BY <1>4, <1>5, <1>7 DEF Shape
<1>9. \A v \in Nodes(graph) : \A w \in next[v] :
        \/ w \in weights[v]
        \/ \E e \in graph : e.to_version = v /\ \E u \in weights[e.from_version] : w = u + e.weight
  BY <1>3, <1>7
<1>10. \A v \in Nodes(graph) : \A w \in weights[v] : \E x \in next[v] : x <= w
  BY <1>3, <1>7
<1>11. \A e \in graph : \A w \in weights[e.from_version] : \E x \in next[e.to_version] : x <= w + e.weight
  BY <1>1, <1>3, <1>7
<1> QED
  BY <1>8, <1>9, <1>10, <1>11 DEF next

LEMMA WithinMeans ==
  ASSUME NEW graph, Weighed(graph), NEW from
  PROVE  /\ \A n \in Nat : Shape(graph, Within(graph, from, n))
         /\ \A v \in Nodes(graph) : \A w : w \in Within(graph, from, 0)[v] <=> v = from /\ w = 0
         /\ \A n \in Nat : \A v \in Nodes(graph) : \A w \in Within(graph, from, n + 1)[v] :
              \/ w \in Within(graph, from, n)[v]
              \/ \E e \in graph : /\ e.to_version = v
                                  /\ \E u \in Within(graph, from, n)[e.from_version] : w = u + e.weight
         /\ \A n \in Nat : \A v \in Nodes(graph) : \A w \in Within(graph, from, n)[v] :
              \E x \in Within(graph, from, n + 1)[v] : x <= w
         /\ \A n \in Nat : \A e \in graph : \A w \in Within(graph, from, n)[e.from_version] :
              \E x \in Within(graph, from, n + 1)[e.to_version] : x <= w + e.weight
<1> DEFINE D(n) == Within(graph, from, n)
           S == {n \in Nat : Shape(graph, D(n))}
<1>1. D(0) = Start(graph, from) /\ \A n \in Nat : D(n + 1) = Relax(graph, D(n))
  BY WithinUnfolds
<1> HIDE DEF D
<1>2. \A v \in Nodes(graph) : \A w : w \in D(0)[v] <=> v = from /\ w = 0
  BY <1>1 DEF Start
<1>3. Shape(graph, D(0))
  BY <1>1 DEF Start, Shape
<1>4. \A n \in Nat : Shape(graph, D(n)) => Shape(graph, D(n + 1))
  BY <1>1, RelaxMeans
<1>5. \A n \in Nat : Shape(graph, D(n))
  <2>1. S \subseteq Nat /\ 0 \in S /\ \A n \in S : n + 1 \in S
    BY <1>3, <1>4
  <2>2. S = Nat
    <3> HIDE DEF S
    <3> QED
      BY <2>1, Upwards
  <2> QED
    BY <2>2
<1>6. ASSUME NEW n \in Nat
      PROVE  /\ \A v \in Nodes(graph) : \A w \in D(n + 1)[v] :
                  \/ w \in D(n)[v]
                  \/ \E e \in graph : e.to_version = v /\ \E u \in D(n)[e.from_version] : w = u + e.weight
             /\ \A v \in Nodes(graph) : \A w \in D(n)[v] : \E x \in D(n + 1)[v] : x <= w
             /\ \A e \in graph : \A w \in D(n)[e.from_version] :
                  \E x \in D(n + 1)[e.to_version] : x <= w + e.weight
  BY <1>1, <1>5, RelaxMeans
<1> QED
  BY <1>2, <1>5, <1>6 DEF D

\* A weight at a node stays or gets less with more hops.
LEMMA WithinLess ==
  ASSUME NEW graph, Weighed(graph), NEW from, NEW v \in Nodes(graph),
         NEW n \in Nat, NEW w \in Within(graph, from, n)[v], NEW m \in Nat, n <= m
  PROVE  \E x \in Within(graph, from, m)[v] : x <= w
<1> DEFINE D(k) == Within(graph, from, k)[v]
           S == {k \in Nat : \E x \in D(n + k) : x <= w}
<1>1. \A k \in Nat : D(k) \subseteq Nat
  <2>1. \A k \in Nat : Shape(graph, Within(graph, from, k))
    BY WithinMeans
  <2> QED
    BY <2>1 DEF Shape
<1>2. \A k \in Nat : \A y \in D(k) : \E x \in D(k + 1) : x <= y
  BY WithinMeans
<1> HIDE DEF D
<1>3. w \in D(n)
  BY DEF D
<1>4. 0 \in S
  <2>1. n + 0 = n /\ w <= w
    BY <1>1, <1>3
  <2> QED
    BY <1>3, <2>1
<1>5. ASSUME NEW k \in S
      PROVE  k + 1 \in S
  <2>1. PICK y \in D(n + k) : y <= w
    OBVIOUS
  <2>2. n + k \in Nat /\ n + (k + 1) = (n + k) + 1
    OBVIOUS
  <2>3. PICK x \in D((n + k) + 1) : x <= y
    BY <1>2, <2>1, <2>2
  <2>4. x <= w
    BY <1>1, <1>3, <2>1, <2>2, <2>3
  <2> QED
    BY <2>2, <2>3, <2>4
<1>6. S = Nat
  <2> HIDE DEF S
  <2>1. S \subseteq Nat
    BY DEF S
  <2> QED
    BY <1>4, <1>5, <2>1, Upwards
<1>7. m - n \in Nat /\ n + (m - n) = m
  OBVIOUS
<1>8. \E x \in D(n + (m - n)) : x <= w
  BY <1>6, <1>7
<1> QED
  BY <1>7, <1>8 DEF D

\* v has the least weight it ever has, for the first time after n hops.
Arrives(graph, from, v, n) ==
  \E w \in Within(graph, from, n)[v] :
    /\ \A m \in Nat : \A x \in Within(graph, from, m)[v] : w <= x
    /\ \A m \in 0..(n - 1) : w \notin Within(graph, from, m)[v]

\* Before it, a neighbour had its own.
LEMMA ArrivesBack ==
  ASSUME NEW graph, Weighed(graph), NEW from, NEW v \in Nodes(graph), NEW n \in Nat,
         Arrives(graph, from, v, n + 1)
  PROVE  \E u \in Nodes(graph) : Arrives(graph, from, u, n)
<1> DEFINE D(k) == Within(graph, from, k)
<1>1. \A k \in Nat : \A u \in Nodes(graph) : D(k)[u] \subseteq Nat /\ \A x, y \in D(k)[u] : x = y
  BY WithinMeans DEF Shape
<1>2. PICK w \in D(n + 1)[v] : /\ \A m \in Nat : \A x \in D(m)[v] : w <= x
                               /\ \A m \in 0..((n + 1) - 1) : w \notin D(m)[v]
  BY DEF Arrives
<1>3. w \notin D(n)[v] /\ n \in 0..((n + 1) - 1)
  BY <1>2
<1>4. PICK e \in graph : e.to_version = v /\ \E y \in D(n)[e.from_version] : w = y + e.weight
  BY <1>2, <1>3, WithinMeans
<1>5. PICK y \in D(n)[e.from_version] : w = y + e.weight
  BY <1>4
<1> DEFINE u == e.from_version
<1>6. e.weight \in Nat \ {0} /\ u \in Nodes(graph) /\ y \in Nat
  BY <1>1, <1>5 DEF Weighed, Nodes
<1>7. \A m \in Nat : \A x \in D(m)[u] : \E z \in D(m + 1)[v] : z <= x + e.weight
  BY <1>4, WithinMeans
<1> HIDE DEF D
<1>8. ASSUME NEW m \in Nat, NEW x \in D(m)[u]
      PROVE  y <= x
  <2>1. PICK z \in D(m + 1)[v] : z <= x + e.weight
    BY <1>7
  <2>2. w <= z
    BY <1>2, <2>1
  <2>3. x \in Nat /\ z \in Nat
    BY <1>1, <1>6, <2>1
  <2> QED
    BY <1>5, <1>6, <2>1, <2>2, <2>3
<1>9. ASSUME NEW m \in 0..(n - 1), y \in D(m)[u]
      PROVE  FALSE
  <2>1. PICK z \in D(m + 1)[v] : z <= y + e.weight
    BY <1>7, <1>9
  <2>2. m + 1 \in 0..((n + 1) - 1) /\ m + 1 \in Nat
    OBVIOUS
  <2>3. w <= z /\ z \in Nat
    BY <1>1, <1>2, <2>1, <2>2
  <2>4. z = w
    BY <1>5, <1>6, <2>1, <2>3
  <2> QED
    BY <1>2, <2>1, <2>2, <2>4
<1>10. Arrives(graph, from, u, n)
  BY <1>5, <1>8, <1>9 DEF Arrives, D
<1> QED
  BY <1>6, <1>10

\* So after fewer hops than there are nodes every node that is reached has its least weight.
LEMMA ArrivesSoon ==
  ASSUME NEW graph, Weighed(graph), IsFiniteSet(graph), NEW from, NEW v \in Nodes(graph), NEW n \in Nat,
         Arrives(graph, from, v, n)
  PROVE  n < Cardinality(Nodes(graph)) /\ Cardinality(Nodes(graph)) \in Nat
<1> DEFINE N == Nodes(graph)
           At(u, m) == Arrives(graph, from, u, m)
<1>1. IsFiniteSet(N) /\ Cardinality(N) \in Nat
  <2> DEFINE F == {e.from_version : e \in graph}
             T == {e.to_version : e \in graph}
             f == [e \in graph |-> e.from_version]
             t == [e \in graph |-> e.to_version]
  <2>1. f \in Surjection(graph, F) /\ t \in Surjection(graph, T)
    BY DEF Surjection
  <2> HIDE DEF f, t
  <2>2. IsFiniteSet(F) /\ IsFiniteSet(T)
    <3> HIDE DEF F, T
    <3> QED
      BY <2>1, FS_Surjection
  <2>3. N = F \cup T
    BY DEF Nodes
  <2> HIDE DEF F, T, N
  <2> QED
    BY <2>2, <2>3, FS_Union, FS_CardinalityType
<1>2. \A k \in Nat : (\E u \in N : At(u, k + 1)) => \E u \in N : At(u, k)
  BY ArrivesBack
<1>3. \A u \in N : \A k, m \in Nat : At(u, k) /\ At(u, m) => k = m
  <2> SUFFICES ASSUME NEW u \in N, NEW k \in Nat, NEW m \in Nat, At(u, k), At(u, m)
               PROVE  k = m
    OBVIOUS
  <2>1. PICK w \in Within(graph, from, k)[u] :
          /\ \A j \in Nat : \A x \in Within(graph, from, j)[u] : w <= x
          /\ \A j \in 0..(k - 1) : w \notin Within(graph, from, j)[u]
    BY DEF Arrives
  <2>2. PICK y \in Within(graph, from, m)[u] :
          /\ \A j \in Nat : \A x \in Within(graph, from, j)[u] : y <= x
          /\ \A j \in 0..(m - 1) : y \notin Within(graph, from, j)[u]
    BY DEF Arrives
  <2>3. w \in Nat /\ y \in Nat
    <3>1. \A j \in Nat : Shape(graph, Within(graph, from, j))
      BY WithinMeans
    <3> QED
      BY <2>1, <2>2, <3>1 DEF Shape
  <2>4. w = y
    BY <2>1, <2>2, <2>3
  <2>5. k \notin 0..(m - 1) /\ m \notin 0..(k - 1)
    BY <2>1, <2>2, <2>4
  <2> QED
    BY <2>5
<1> HIDE DEF At, N
<1>4. \A m \in 0..n : \E u \in N : At(u, m)
  <2> DEFINE S == {k \in Nat : k <= n => \E u \in N : At(u, n - k)}
  <2>1. 0 \in S
    <3>1. At(v, n) /\ v \in N /\ n - 0 = n
      BY DEF At, N
    <3> QED
      BY <3>1
  <2>2. ASSUME NEW k \in S
        PROVE  k + 1 \in S
    <3> SUFFICES ASSUME k + 1 <= n
                 PROVE  \E u \in N : At(u, n - (k + 1))
      OBVIOUS
    <3>1. n - (k + 1) \in Nat /\ (n - (k + 1)) + 1 = n - k /\ k <= n
      OBVIOUS
    <3>2. \E u \in N : At(u, n - k)
      BY <3>1
    <3> QED
      BY <1>2, <3>1, <3>2
  <2>3. S = Nat
    <3> HIDE DEF S
    <3>1. S \subseteq Nat
      BY DEF S
    <3> QED
      BY <2>1, <2>2, <3>1, Upwards
  <2>4. \A m \in 0..n : n - m \in S /\ n - m <= n /\ n - (n - m) = m
    BY <2>3
  <2> QED
    BY <2>4
<1> DEFINE f == [m \in 0..n |-> CHOOSE u \in N : At(u, m)]
<1>5. \A m \in 0..n : f[m] \in N /\ At(f[m], m)
  BY <1>4
<1>6. f \in [0..n -> N]
  BY <1>5
<1>7. \A k, m \in 0..n : f[k] = f[m] => k = m
  BY <1>3, <1>5
<1>8. IsFiniteSet(0..n) /\ Cardinality(0..n) = n + 1
  BY FS_Interval
<1> HIDE DEF f
<1>9. ~ (Cardinality(N) < n + 1)
  BY <1>1, <1>6, <1>7, <1>8, FS_PigeonHole
<1> QED
  BY <1>1, <1>9 DEF N

LEMMA WithinSettles ==
  ASSUME NEW graph, Weighed(graph), IsFiniteSet(graph), NEW from, NEW v \in Nodes(graph),
         NEW n \in Nat, NEW w \in Within(graph, from, n)[v]
  PROVE  /\ Cardinality(Nodes(graph)) \in Nat
         /\ \E x \in Within(graph, from, Cardinality(Nodes(graph)))[v] : x <= w
<1> DEFINE D(k) == Within(graph, from, k)[v]
           T == {x \in Nat : \E m \in Nat : x \in D(m)}
<1>1. \A k \in Nat : D(k) \subseteq Nat
  <2>1. \A k \in Nat : Shape(graph, Within(graph, from, k))
    BY WithinMeans
  <2> QED
    BY <2>1 DEF Shape
<1>2. w \in T
  BY <1>1
<1>3. PICK least \in T : \A y \in T : least <= y
  BY <1>2, NatLeast
<1> DEFINE M == {m \in Nat : least \in D(m)}
<1>4. PICK m \in M : \A k \in M : m <= k
  BY <1>3, NatLeast
<1>5. \A k \in Nat : \A x \in D(k) : least <= x
  BY <1>1, <1>3
<1>6. \A k \in 0..(m - 1) : least \notin D(k)
  BY <1>4
<1>7. Arrives(graph, from, v, m)
  BY <1>4, <1>5, <1>6 DEF Arrives
<1>8. m < Cardinality(Nodes(graph)) /\ Cardinality(Nodes(graph)) \in Nat
  BY <1>4, <1>7, ArrivesSoon
<1>9. PICK x \in Within(graph, from, Cardinality(Nodes(graph)))[v] : x <= least
  <2>1. m \in Nat /\ least \in Within(graph, from, m)[v] /\ m <= Cardinality(Nodes(graph))
    BY <1>4, <1>8
  <2> QED
    BY <1>8, <2>1, WithinLess
<1>10. x \in Nat /\ least \in Nat /\ w \in Nat /\ least <= w
  BY <1>1, <1>2, <1>3, <1>8
<1> QED
  BY <1>8, <1>9, <1>10

\* A weight that Within finds is that of a chain.
LEMMA WithinSound ==
  ASSUME NEW graph, Weighed(graph), NEW from
  PROVE  \A n \in Nat : \A v \in Nodes(graph) : \A w \in Within(graph, from, n)[v] :
           w \in Nat /\ <<from, v>> \in WalksWithin(graph, w)
<1> DEFINE D(k) == Within(graph, from, k)
           Sound(n) == \A v \in Nodes(graph) : \A w \in D(n)[v] : <<from, v>> \in WalksWithin(graph, w)
           S == {n \in Nat : Sound(n)}
<1>1. \A n \in Nat : \A v \in Nodes(graph) : D(n)[v] \subseteq Nat
  <2>1. \A k \in Nat : Shape(graph, Within(graph, from, k))
    BY WithinMeans
  <2> QED
    BY <2>1 DEF Shape
<1>2. Sound(0)
  <2>1. Nodes(graph) \subseteq Versions
    BY DEF Nodes, Weighed
  <2>2. \A v \in Nodes(graph) : \A w : w \in D(0)[v] => v = from /\ w = 0
    BY WithinMeans
  <2>3. \A v \in Versions : <<v, v>> \in WalksWithin(graph, 0)
    BY WalksUnfold
  <2> QED
    BY <2>1, <2>2, <2>3
<1>3. ASSUME NEW n \in Nat, Sound(n)
      PROVE  Sound(n + 1)
  <2> SUFFICES ASSUME NEW v \in Nodes(graph), NEW w \in D(n + 1)[v]
               PROVE  <<from, v>> \in WalksWithin(graph, w)
    OBVIOUS
  <2>1. CASE w \in D(n)[v]
    BY <1>3, <2>1
  <2>2. CASE \E e \in graph : e.to_version = v /\ \E u \in D(n)[e.from_version] : w = u + e.weight
    <3>1. PICK e \in graph : e.to_version = v /\ \E u \in D(n)[e.from_version] : w = u + e.weight
      BY <2>2
    <3>2. PICK u \in D(n)[e.from_version] : w = u + e.weight
      BY <3>1
    <3>3. e.from_version \in Nodes(graph)
      BY DEF Nodes
    <3>4. u \in Nat /\ <<from, e.from_version>> \in WalksWithin(graph, u)
      BY <1>1, <1>3, <3>2, <3>3
    <3> QED
      BY <3>1, <3>2, <3>4, WalksAppend
  <2> QED
    BY <2>1, <2>2, WithinMeans
<1>4. S = Nat
  <2> HIDE DEF Sound
  <2>1. S \subseteq Nat /\ 0 \in S /\ \A n \in S : n + 1 \in S
    BY <1>2, <1>3
  <2> HIDE DEF S
  <2> QED
    BY <2>1, Upwards
<1> QED
  BY <1>1, <1>4

\* A chain is found: with as many hops as it takes, from any node that has been reached.
LEMMA WithinComplete ==
  ASSUME NEW graph, Weighed(graph), NEW from
  PROVE  \A w \in Nat : \A a, b \in Nodes(graph) : <<a, b>> \in WalksWithin(graph, w) =>
           \A n \in Nat : \A u \in Within(graph, from, n)[a] :
             \E m \in Nat : \E x \in Within(graph, from, m)[b] : x <= u + w
<1> DEFINE D(k) == Within(graph, from, k)
           Found(w) == \A a, b \in Nodes(graph) : <<a, b>> \in WalksWithin(graph, w) =>
                         \A n \in Nat : \A u \in D(n)[a] : \E m \in Nat : \E x \in D(m)[b] : x <= u + w
           S == {w \in Nat : Found(w)}
<1>1. \A n \in Nat : \A v \in Nodes(graph) : D(n)[v] \subseteq Nat
  <2>1. \A k \in Nat : Shape(graph, Within(graph, from, k))
    BY WithinMeans
  <2> QED
    BY <2>1 DEF Shape
<1>2. \A n \in Nat : \A e \in graph : \A u \in D(n)[e.from_version] :
        \E x \in D(n + 1)[e.to_version] : x <= u + e.weight
  BY WithinMeans
<1> HIDE DEF D
<1>3. ASSUME NEW w \in Nat, \A m \in 0..(w - 1) : m \in S
      PROVE  Found(w)
  <2> SUFFICES ASSUME NEW a \in Nodes(graph), NEW b \in Nodes(graph),
                      <<a, b>> \in WalksWithin(graph, w), NEW n \in Nat, NEW u \in D(n)[a]
               PROVE  \E m \in Nat : \E x \in D(m)[b] : x <= u + w
    OBVIOUS
  <2>1. u \in Nat
    BY <1>1
  <2>2. CASE a = b
    <3>1. u <= u + w
      BY <2>1
    <3> QED
      BY <2>2, <3>1
  <2>3. CASE FirstEdge(graph, w, a, b)
    <3>1. PICK e \in graph : /\ e.weight <= w /\ e.from_version = a
                             /\ <<e.to_version, b>> \in WalksWithin(graph, w - e.weight)
      BY <2>3 DEF FirstEdge
    <3>2. e.weight \in Nat \ {0} /\ e.to_version \in Nodes(graph)
      BY DEF Weighed, Nodes
    <3>3. w - e.weight \in 0..(w - 1)
      BY <3>1, <3>2
    <3>4. Found(w - e.weight)
      BY <1>3, <3>3
    <3>5. PICK y \in D(n + 1)[e.to_version] : y <= u + e.weight
      BY <1>2, <3>1
    <3>6. PICK m \in Nat : \E x \in D(m)[b] : x <= y + (w - e.weight)
      BY <3>1, <3>2, <3>4, <3>5
    <3>7. PICK x \in D(m)[b] : x <= y + (w - e.weight)
      BY <3>6
    <3>8. y \in Nat /\ x \in Nat
      BY <1>1, <3>2, <3>5, <3>6, <3>7
    <3>9. x <= u + w
      BY <2>1, <3>2, <3>5, <3>7, <3>8
    <3> QED
      BY <3>6, <3>7, <3>9
  <2> QED
    BY <2>2, <2>3, WalksUnfold
<1>4. S = Nat
  <2> HIDE DEF Found
  <2>1. \A w \in Nat : (\A m \in 0..(w - 1) : m \in S) => w \in S
    BY <1>3
  <2>2. S \subseteq Nat
    OBVIOUS
  <2> HIDE DEF S
  <2> QED
    BY <2>1, <2>2, Inductive
<1> QED
  BY <1>4 DEF D

\* A shortest chain is within a weight if and only if some chain is.
THEOREM ShortestMeans ==
  ASSUME NEW graph, Weighed(graph), IsFiniteSet(graph), NEW from, NEW to, from # to,
         NEW cap \in Nat, None \notin Nat
  PROVE  LET weight == ShortestWeight(graph, from, to)
         IN weight # None /\ weight <= cap <=> <<from, to>> \in WalksWithin(graph, cap)
<1> DEFINE N == Cardinality(Nodes(graph))
           D == Within(graph, from, N)
           weight == ShortestWeight(graph, from, to)
           Present == from \in Nodes(graph) /\ to \in Nodes(graph)
<1>1. weight = IF Present /\ D[to] # {} THEN Least(D[to]) ELSE None
  BY DEF ShortestWeight
<1>2. ASSUME Present
      PROVE  N \in Nat /\ D[to] \subseteq Nat
  <2>1. 0 \in Nat /\ 0 \in Within(graph, from, 0)[from]
    BY <1>2, WithinMeans
  <2>2. N \in Nat
    BY <1>2, <2>1, WithinSettles
  <2>3. Shape(graph, D)
    BY <2>2, WithinMeans
  <2> QED
    BY <1>2, <2>2, <2>3 DEF Shape
<1>3. ASSUME weight # None, weight <= cap
      PROVE  <<from, to>> \in WalksWithin(graph, cap)
  <2>1. Present /\ D[to] # {}
    BY <1>1, <1>3
  <2>2. weight \in D[to] /\ N \in Nat
    BY <1>1, <1>2, <2>1, LeastType
  <2>3. weight \in Nat /\ <<from, to>> \in WalksWithin(graph, weight)
    BY <2>1, <2>2, WithinSound
  <2>4. Lighter(graph, graph)
    BY DEF Lighter, Weighed
  <2> QED
    BY <1>3, <2>3, <2>4, WalksKept
<1>4. ASSUME <<from, to>> \in WalksWithin(graph, cap)
      PROVE  weight # None /\ weight <= cap
  <2>1. Present
    <3>1. from \in Nodes(graph)
      <4>1. FirstEdge(graph, cap, from, to)
        BY <1>4, WalksUnfold
      <4> QED
        BY <4>1 DEF FirstEdge, Nodes
    <3>2. to \in Nodes(graph)
      <4> DEFINE S == {w \in Nat : \A a : <<a, to>> \in WalksWithin(graph, w) => a = to \/ to \in Nodes(graph)}
      <4>1. ASSUME NEW w \in Nat, \A m \in 0..(w - 1) : m \in S
            PROVE  w \in S
        <5> SUFFICES ASSUME NEW a, <<a, to>> \in WalksWithin(graph, w), a # to
                     PROVE  to \in Nodes(graph)
          OBVIOUS
        <5>0. FirstEdge(graph, w, a, to)
          BY WalksUnfold
        <5>1. PICK e \in graph : /\ e.weight <= w /\ e.from_version = a
                                 /\ <<e.to_version, to>> \in WalksWithin(graph, w - e.weight)
          BY <5>0 DEF FirstEdge
        <5>2. e.to_version \in Nodes(graph) /\ e.weight \in Nat \ {0}
          BY DEF Nodes, Weighed
        <5>3. w - e.weight \in S
          BY <4>1, <5>1, <5>2
        <5> QED
          BY <5>1, <5>2, <5>3
      <4>2. S = Nat
        <5>1. S \subseteq Nat
          OBVIOUS
        <5> HIDE DEF S
        <5> QED
          BY <4>1, <5>1, Inductive
      <4> QED
        BY <1>4, <4>2
    <3> QED
      BY <1>4, <3>1, <3>2
  <2>2. 0 \in Within(graph, from, 0)[from]
    BY <2>1, WithinMeans
  <2>3. PICK m \in Nat : \E x \in Within(graph, from, m)[to] : x <= 0 + cap
    BY <1>4, <2>1, <2>2, WithinComplete
  <2>4. PICK x \in Within(graph, from, m)[to] : x <= 0 + cap
    BY <2>3
  <2>5. PICK y \in D[to] : y <= x
    BY <2>1, <2>4, WithinSettles
  <2>6. Least(D[to]) \in D[to] /\ Least(D[to]) <= y
    BY <1>2, <2>1, <2>5, LeastType
  <2>7. x \in Nat
    BY <2>1, <2>4, WithinSound
  <2>8. Least(D[to]) \in Nat /\ y \in Nat
    BY <1>2, <2>1, <2>5, <2>6
  <2> QED
    BY <1>1, <2>1, <2>4, <2>5, <2>6, <2>7, <2>8
<1> QED
  BY <1>3, <1>4

---------------------------------------------------------------------------
(* Blockers.                                                               *)

Kinds == {BLOCKER_PREDICATE_ORDER[i] : i \in 1..11}
Severities == {"required", "recommended"}
Blocker == [rule_id : Nat, predicate_kind : Kinds, severity : Severities]

\* Each kind has an index of its own.
LEMMA KindIndex ==
  /\ DOMAIN BLOCKER_PREDICATE_ORDER = 1..11
  /\ \A kind \in Kinds : Index(kind) \in 1..11 /\ BLOCKER_PREDICATE_ORDER[Index(kind)] = kind
<1>1. DOMAIN BLOCKER_PREDICATE_ORDER = 1..11
  BY DEF BLOCKER_PREDICATE_ORDER
<1>2. ASSUME NEW kind \in Kinds
      PROVE  Index(kind) \in 1..11 /\ BLOCKER_PREDICATE_ORDER[Index(kind)] = kind
  <2>1. \E i \in DOMAIN BLOCKER_PREDICATE_ORDER : BLOCKER_PREDICATE_ORDER[i] = kind
    BY <1>1 DEF Kinds
  <2> QED
    BY <1>1, <2>1 DEF Index
<1> QED
  BY <1>1, <1>2

BlockerOrder(S) == {pair \in S \X S : SortsBefore(pair[1], pair[2])}

LEMMA BlockersOrdered ==
  ASSUME NEW S, S \subseteq Blocker
  PROVE  StrictOrder(BlockerOrder(S), S)
<1> DEFINE R == BlockerOrder(S)
<1>1. \A b \in S : b = [rule_id |-> b.rule_id, predicate_kind |-> b.predicate_kind, severity |-> b.severity]
  BY DEF Blocker
<1>2. \A b \in S : /\ b.rule_id \in Nat /\ b.severity \in Severities
                   /\ b.predicate_kind \in Kinds /\ Index(b.predicate_kind) \in 1..11
  BY KindIndex DEF Blocker
<1>3. \A b, c \in S : Index(b.predicate_kind) = Index(c.predicate_kind) => b.predicate_kind = c.predicate_kind
  BY <1>2, KindIndex
<1>4. \A a, b \in S : <<a, b>> \in R <=> SortsBefore(a, b)
  BY DEF BlockerOrder
<1>5. ASSUME NEW a \in S, NEW b \in S, a # b
      PROVE  SortsBefore(a, b) \/ SortsBefore(b, a)
  <2>1. \/ a.severity # b.severity
        \/ a.predicate_kind # b.predicate_kind
        \/ a.rule_id # b.rule_id
    BY <1>1, <1>5
  <2>2. CASE a.severity # b.severity
    BY <1>2, <2>2 DEF SortsBefore, Severities
  <2>3. CASE a.severity = b.severity /\ a.predicate_kind # b.predicate_kind
    BY <1>2, <1>3, <2>3 DEF SortsBefore
  <2>4. CASE a.severity = b.severity /\ a.predicate_kind = b.predicate_kind
    BY <1>2, <2>1, <2>4 DEF SortsBefore
  <2> QED
    BY <2>2, <2>3, <2>4
<1>6. \A a, b \in S : SortsBefore(a, b) => ~ SortsBefore(b, a)
  BY <1>2 DEF SortsBefore
<1>7. \A a, b, c \in S : SortsBefore(a, b) /\ SortsBefore(b, c) => SortsBefore(a, c)
  BY <1>2, <1>3 DEF SortsBefore, Severities
<1> QED
  BY <1>4, <1>5, <1>6, <1>7 DEF StrictOrder

\* SortBlockers loses none and puts them in their order.
THEOREM BlockersSorted ==
  ASSUME NEW S, S \subseteq Blocker, IsFiniteSet(S)
  PROVE  LET s == SortBlockers(S)
         IN /\ DOMAIN s = 1..Cardinality(S) /\ Cardinality(S) \in Nat
            /\ \A i \in DOMAIN s : s[i] \in S
            /\ \A b \in S : \E i \in DOMAIN s : s[i] = b
            /\ \A i, j \in DOMAIN s : i < j => SortsBefore(s[i], s[j])
<1> DEFINE s == SortBlockers(S)
           R == BlockerOrder(S)
<1>1. \A b \in S : {a \in S : SortsBefore(a, b)} = Below(R, S, b)
  BY DEF BlockerOrder, Below
<1>2. SortedBy(s, R, S)
  <2> DEFINE At(b, i) == Cardinality({a \in S : SortsBefore(a, b)}) = i - 1
  <2>1. s = [i \in 1..Cardinality(S) |-> CHOOSE b \in S : At(b, i)]
    BY DEF SortBlockers, Sorted
  <2>2. \A i : (\E b \in S : At(b, i)) => LET b == CHOOSE b \in S : At(b, i) IN b \in S /\ At(b, i)
    OBVIOUS
  <2>3. \A i : \A b \in S : At(b, i) <=> Cardinality(Below(R, S, b)) = i - 1
    BY <1>1
  <2> HIDE DEF At, R, s
  <2> QED
    BY <2>1, <2>2, <2>3 DEF SortedBy
<1>3. StrictOrder(R, S)
  BY BlockersOrdered
<1> HIDE DEF s, R
<1>4. /\ DOMAIN s = 1..Cardinality(S) /\ Cardinality(S) \in Nat
      /\ \A i \in DOMAIN s : s[i] \in S
      /\ \A b \in S : \E i \in DOMAIN s : s[i] = b
      /\ \A i, j \in DOMAIN s : i < j => <<s[i], s[j]>> \in R
  BY <1>2, <1>3, SortedSequence
<1>5. \A a, b : <<a, b>> \in R => SortsBefore(a, b)
  BY DEF R, BlockerOrder
<1>6. \A i, j \in DOMAIN s : i < j => SortsBefore(s[i], s[j])
  BY <1>4, <1>5
<1> QED
  BY <1>4, <1>6 DEF s

LEMMA RequiredSorted ==
  ASSUME NEW S, S \subseteq Blocker, IsFiniteSet(S)
  PROVE  HasRequired(SortBlockers(S)) <=> \E b \in S : b.severity = "required"
<1> DEFINE s == SortBlockers(S)
<1>1. /\ \A i \in DOMAIN s : s[i] \in S
      /\ \A b \in S : \E i \in DOMAIN s : s[i] = b
  BY BlockersSorted
<1> HIDE DEF s
<1>2. (\E i \in DOMAIN s : s[i].severity = "required") <=> \E b \in S : b.severity = "required"
  BY <1>1
<1> QED
  BY <1>2 DEF s, HasRequired

\* A rule fires one blocker at most, and it is the rule's.
LEMMA RuleFires ==
  ASSUME NEW rule, IsRule(rule), NEW facts
  PROVE  /\ EvaluateRule(rule, facts) \subseteq Blocker
         /\ \A b, c \in EvaluateRule(rule, facts) : b = c
         /\ \A b \in EvaluateRule(rule, facts) : b.rule_id = rule.id
<1> DEFINE kind == rule.predicate_kind
<1>1. kind \in Kinds /\ "missing_observation_field" \in Kinds
  <2>1. DOMAIN FactOfPredicate =
          {"min_ram_mb", "min_disk_mb", "hardware_revision_in", "min_current_version",
           "intermediate_version_required", "license_present", "not_in_state", "region_in",
           "tagged_with"}
    BY DEF FactOfPredicate
  <2>2. /\ BLOCKER_PREDICATE_ORDER[1] = "min_ram_mb" /\ BLOCKER_PREDICATE_ORDER[2] = "min_disk_mb"
        /\ BLOCKER_PREDICATE_ORDER[3] = "hardware_revision_in"
        /\ BLOCKER_PREDICATE_ORDER[4] = "min_current_version"
        /\ BLOCKER_PREDICATE_ORDER[5] = "intermediate_version_required"
        /\ BLOCKER_PREDICATE_ORDER[7] = "license_present" /\ BLOCKER_PREDICATE_ORDER[8] = "not_in_state"
        /\ BLOCKER_PREDICATE_ORDER[9] = "region_in"
        /\ BLOCKER_PREDICATE_ORDER[10] = "missing_observation_field"
        /\ BLOCKER_PREDICATE_ORDER[11] = "tagged_with"
    BY DEF BLOCKER_PREDICATE_ORDER
  <2>3. {"min_ram_mb", "min_disk_mb", "hardware_revision_in", "min_current_version",
         "intermediate_version_required", "license_present", "not_in_state", "region_in",
         "missing_observation_field", "tagged_with"} \subseteq Kinds
    BY <2>2 DEF Kinds
  <2> QED
    BY <2>1, <2>3 DEF IsRule
<1>2. /\ rule.id \in Nat /\ rule.severity \in Severities
      /\ {"required", "recommended"} \subseteq Severities
  BY DEF IsRule, Severities
<1>3. \A k \in Kinds : \A s \in Severities :
        BlockerOf(rule, k, s) = {[rule_id |-> rule.id, predicate_kind |-> k, severity |-> s]}
  BY DEF BlockerOf
<1>4. \/ EvaluateRule(rule, facts) = {}
      \/ EvaluateRule(rule, facts) = BlockerOf(rule, kind, "recommended")
      \/ EvaluateRule(rule, facts) = BlockerOf(rule, "missing_observation_field", "required")
      \/ EvaluateRule(rule, facts) = BlockerOf(rule, kind, rule.severity)
  BY DEF EvaluateRule
<1>5. \/ EvaluateRule(rule, facts) = {}
      \/ \E k \in Kinds, s \in Severities : EvaluateRule(rule, facts) = BlockerOf(rule, k, s)
  BY <1>1, <1>2, <1>4
<1> QED
  BY <1>2, <1>3, <1>5 DEF Blocker

Fired(R, facts) == UNION {EvaluateRule(r, facts) : r \in R}

LEMMA FiredFinite ==
  ASSUME NEW R, IsFiniteSet(R), \A r \in R : IsRule(r), NEW facts
  PROVE  Fired(R, facts) \subseteq Blocker /\ IsFiniteSet(Fired(R, facts))
<1> DEFINE Firing == {r \in R : EvaluateRule(r, facts) # {}}
           f == [r \in Firing |-> CHOOSE b \in EvaluateRule(r, facts) : TRUE]
           F == Fired(R, facts)
<1>1. \A r \in R : /\ EvaluateRule(r, facts) \subseteq Blocker
                   /\ \A b, c \in EvaluateRule(r, facts) : b = c
  BY RuleFires
<1>2. F \subseteq Blocker
  BY <1>1 DEF Fired
<1>3. IsFiniteSet(Firing)
  BY FS_Subset
<1>4. \A r \in Firing : f[r] \in EvaluateRule(r, facts)
  OBVIOUS
<1>5. \A r \in Firing : f[r] \in F
  BY <1>4 DEF Fired
<1>6. \A b \in F : \E r \in Firing : f[r] = b
  BY <1>1, <1>4 DEF Fired
<1>7. f \in Surjection(Firing, F)
  BY <1>5, <1>6 DEF Surjection
<1>8. IsFiniteSet(F)
  <2> HIDE DEF f, Firing, F
  <2> QED
    BY <1>3, <1>7, FS_Surjection
<1> QED
  BY <1>2, <1>8

---------------------------------------------------------------------------
(* What is live comes from the files.                                      *)

Typed ==
  /\ device = [f \in DeviceFacts |-> device[f]]
  /\ DOMAIN ev = {"life", "f3", "f4"}
  /\ obs \in [newest: Versions \cup {None}, latest: Versions \cup {None}]
  /\ rules \subseteq RuleBook /\ targets \subseteq TargetBook /\ edges \subseteq EdgeBook

\* The facts are those of a device, and rules, targets and edges are entries of the files.
THEOREM Invariance == Spec => []Typed
<1>1. Init => Typed
  BY ConstantsAssumption DEF Init, Typed, NothingKnown
<1>2. Typed /\ [Next]_vars => Typed'
  <2> SUFFICES ASSUME Typed, [Next]_vars
               PROVE  Typed'
    OBVIOUS
  <2> USE DEF Typed
  <2>1. ASSUME NEW pair \in Learnable, Learn(pair[1], pair[2])
        PROVE  Typed'
    <3>1. /\ device' = [device EXCEPT ![pair[1]] = pair[2]]
          /\ UNCHANGED <<obs, rules, targets, edges, ev>>
      BY <2>1 DEF Learn, Changing, catalogue
    <3>2. DOMAIN device' = DeviceFacts /\ device' = [f \in DeviceFacts |-> device'[f]]
      BY <3>1
    <3> QED
      BY <3>1, <3>2
  <2>2. ASSUME NEW firmware \in Reported, NEW late \in BOOLEAN, Observe(firmware, late)
        PROVE  Typed'
    BY <2>2, ConstantsAssumption DEF Observe, Changing, catalogue
  <2>3. ASSUME NEW rule \in RuleBook, LoadRule(rule) \/ RemoveRule(rule)
        PROVE  Typed'
    BY <2>3 DEF LoadRule, RemoveRule, Changing
  <2>4. ASSUME NEW target \in TargetBook, FlipTarget(target)
        PROVE  Typed'
    BY <2>4 DEF FlipTarget, Changing
  <2>5. ASSUME NEW edge \in EdgeBook, LoadEdge(edge) \/ RemoveEdge(edge)
        PROVE  Typed'
    BY <2>5 DEF LoadEdge, RemoveEdge, Changing
  <2>6. ASSUME NEW version \in Versions, Upload(version)
        PROVE  Typed'
    BY <2>6 DEF Upload, Changing
  <2>7. ASSUME NEW outcome, Evaluate(outcome), DOMAIN outcome = DOMAIN ev
        PROVE  Typed'
    BY <2>7 DEF Evaluate, catalogue
  <2>8. \A e : DOMAIN F2(e) = DOMAIN e /\ DOMAIN F3(e) = DOMAIN e /\ DOMAIN F4(e) = DOMAIN e
    BY DEF F2, F3, F4
  <2>9. DOMAIN FullPass(ev) = DOMAIN ev
    BY <2>8 DEF FullPass
  <2>10. CASE UNCHANGED vars
    BY <2>10 DEF vars, catalogue
  <2> QED
    BY <2>1, <2>2, <2>3, <2>4, <2>5, <2>6, <2>7, <2>8, <2>9, <2>10 DEF Next, ReloadPass
<1> QED
  BY <1>1, <1>2, PTL DEF Spec

\* The edges of a platform are a graph to which the lemmas on chains apply.
LEMMA EdgesWeighed ==
  Typed => \A platform : /\ Weighed(PlatformEdges(platform))
                         /\ IsFiniteSet(PlatformEdges(platform))
                         /\ platform = None => PlatformEdges(platform) = {}
<1> SUFFICES ASSUME Typed, NEW platform
             PROVE  /\ Weighed(PlatformEdges(platform)) /\ IsFiniteSet(PlatformEdges(platform))
                    /\ platform = None => PlatformEdges(platform) = {}
  OBVIOUS
<1>1. PlatformEdges(platform) \subseteq EdgeBook
  BY DEF PlatformEdges, Typed
<1>2. \A e \in PlatformEdges(platform) : IsEdge(e) /\ e.platform_family = platform
  BY <1>1, ConstantsAssumption DEF PlatformEdges
<1>3. IsFiniteSet(PlatformEdges(platform))
  BY <1>1, ConstantsAssumption, FS_Subset
<1> QED
  BY <1>2, <1>3 DEF Weighed, IsEdge

\* An upgrade path exists if some chain of the platform's edges is light enough.
PathFound(row) ==
  /\ None \notin {device["platform_family"], row.target, row.observed}
  /\ \/ row.observed = row.target
     \/ <<row.observed, row.target>>
           \in WalksWithin(PlatformEdges(device["platform_family"]), ReadinessUpgradeWeightCap)

LEMMA PathMeans == Typed => \A row : UpgradePathExists(row) <=> PathFound(row)
<1> SUFFICES ASSUME Typed, NEW row
             PROVE  UpgradePathExists(row) <=> PathFound(row)
  OBVIOUS
<1> DEFINE graph == PlatformEdges(device["platform_family"])
           weight == ShortestWeight(graph, row.observed, row.target)
           cap == ReadinessUpgradeWeightCap
<1>1. Weighed(graph) /\ IsFiniteSet(graph) /\ cap \in Nat /\ None \notin Nat
  BY EdgesWeighed, ConstantsAssumption
<1>2. CASE row.observed = row.target
  <2>1. weight = 0
    BY <1>2 DEF ShortestWeight
  <2> QED
    BY <1>1, <1>2, <2>1 DEF UpgradePathExists, PathFound
<1>3. CASE row.observed # row.target
  <2>1. weight # None /\ weight <= cap <=> <<row.observed, row.target>> \in WalksWithin(graph, cap)
    BY <1>1, <1>3, ShortestMeans
  <2> QED
    BY <1>3, <2>1 DEF UpgradePathExists, PathFound
<1> QED
  BY <1>2, <1>3

---------------------------------------------------------------------------
(* A device that is ready stays so.                                        *)

\* What makes a row ready: a path, and no rule that blocks.
Clear(row, R, facts, path) ==
  /\ row # NoRow /\ row.state = "outside_target"
  /\ path \/ row.target = None
  /\ \A r \in R : \A b \in EvaluateRule(r, facts) : b.severity # "required"

LEMMA RulesMatching ==
  Typed => \A state : /\ IsFiniteSet(MatchingRules(state)) /\ MatchingRules(state) \subseteq RuleBook
                      /\ \A r \in MatchingRules(state) : IsRule(r)
<1>1. Typed => \A state : MatchingRules(state) \subseteq RuleBook
  BY DEF Typed, MatchingRules
<1> QED
  BY <1>1, ConstantsAssumption, FS_Subset

\* The blockers of a row, before they are sorted.
RowBlockers(state, row) == Fired(MatchingRules(state), Facts(state)) \cup PathBlockers(row)

LEMMA RowBlockersFinite ==
  Typed => \A state, row : RowBlockers(state, row) \subseteq Blocker /\ IsFiniteSet(RowBlockers(state, row))
<1> SUFFICES ASSUME Typed, NEW state, NEW row
             PROVE  RowBlockers(state, row) \subseteq Blocker /\ IsFiniteSet(RowBlockers(state, row))
  OBVIOUS
<1>1. /\ Fired(MatchingRules(state), Facts(state)) \subseteq Blocker
      /\ IsFiniteSet(Fired(MatchingRules(state), Facts(state)))
  BY RulesMatching, FiredFinite
<1>2. "missing_upgrade_path" \in Kinds
  <2>1. BLOCKER_PREDICATE_ORDER[6] = "missing_upgrade_path"
    BY DEF BLOCKER_PREDICATE_ORDER
  <2> QED
    BY <2>1 DEF Kinds
<1>3. PathBlockers(row) \subseteq Blocker
  BY <1>2 DEF PathBlockers, Blocker, Severities
<1>4. IsFiniteSet(PathBlockers(row))
  BY FS_EmptySet, FS_Singleton DEF PathBlockers
<1> QED
  BY <1>1, <1>3, <1>4, FS_Union DEF RowBlockers

LEMMA ReadyMeans ==
  Typed => (ReadyNow <=> Clear(ev.f3, MatchingRules(ev.life), Facts(ev.life), UpgradePathExists(ev.f3)))
<1> SUFFICES ASSUME Typed
             PROVE  ReadyNow <=> Clear(ev.f3, MatchingRules(ev.life), Facts(ev.life), UpgradePathExists(ev.f3))
  OBVIOUS
<1> DEFINE row == ev.f3
           R == MatchingRules(ev.life)
           facts == Facts(ev.life)
           found == RowBlockers(ev.life, row)
<1>1. HasRequired(SortBlockers(found)) <=> \E b \in found : b.severity = "required"
  BY RowBlockersFinite, RequiredSorted
<1>2. ReadyNow <=> row # NoRow /\ row.state = "outside_target" /\ ~ HasRequired(SortBlockers(found))
  BY DEF ReadyNow, Judge, NotApplicable, RowBlockers, Fired
<1>3. (\E b \in PathBlockers(row) : b.severity = "required") <=> ~ (UpgradePathExists(row) \/ row.target = None)
  BY DEF PathBlockers
<1>4. (\E b \in found : b.severity = "required") <=>
        \/ \E r \in R : \E b \in EvaluateRule(r, facts) : b.severity = "required"
        \/ \E b \in PathBlockers(row) : b.severity = "required"
  BY DEF RowBlockers, Fired
<1> QED
  BY <1>1, <1>2, <1>3, <1>4 DEF Clear

FactNames == DeviceFacts \cup {"lifecycle_state", "observed_firmware"}

LEMMA NamesOfFacts ==
  /\ \A selector : IsSelector(selector) => \A key \in DOMAIN selector : FactOfKey[key] \in FactNames
  /\ \A selector : IsSelector(selector) => ~ Asks(selector, "observed_firmware")
  /\ \A rule : IsRule(rule) => FactOfPredicate[rule.predicate_kind] \in FactNames
  /\ \A rule : IsRule(rule) /\ FactOfPredicate[rule.predicate_kind] = "tags" => rule.predicate_kind = "tagged_with"
  /\ \A rule : IsRule(rule) /\ rule.predicate_kind = "tagged_with" => FactOfPredicate[rule.predicate_kind] = "tags"
<1>1. \A key \in DOMAIN FactOfKey : FactOfKey[key] \in FactNames \ {"observed_firmware"}
  BY DEF FactOfKey, FactNames, DeviceFacts
<1>2. \A kind \in DOMAIN FactOfPredicate : /\ FactOfPredicate[kind] \in FactNames
                                           /\ FactOfPredicate[kind] = "tags" <=> kind = "tagged_with"
  BY DEF FactOfPredicate, FactNames, DeviceFacts
<1> QED
  BY <1>1, <1>2 DEF IsSelector, IsRule, Asks

\* facts and more differ in one fact at most.
SameBut(fact, facts, more) == \A f \in FactNames : f # fact => more[f] = facts[f]

\* To know one more fact changes nothing for a selector that does not ask for it, nor for a
\* rule that did not block without it.
LEMMA SelectorBlind ==
  ASSUME NEW selector, IsSelector(selector), NEW fact, ~ Asks(selector, fact),
         NEW facts, NEW more, SameBut(fact, facts, more)
  PROVE  Matches(selector, more) <=> Matches(selector, facts)
<1>1. \A key \in DOMAIN selector : more[FactOfKey[key]] = facts[FactOfKey[key]]
  BY NamesOfFacts DEF Asks, SameBut
<1> QED
  BY <1>1 DEF Matches

LEMMA RuleSatisfied ==
  ASSUME NEW rule, IsRule(rule), NEW fact, fact # "tags", NEW facts, facts[fact] = None,
         NEW more, SameBut(fact, facts, more),
         \A b \in EvaluateRule(rule, facts) : b.severity # "required"
  PROVE  EvaluateRule(rule, more) = EvaluateRule(rule, facts)
<1> DEFINE kind == rule.predicate_kind
           name == FactOfPredicate[kind]
<1>1. name \in FactNames /\ (kind = "tagged_with" => name = "tags")
  BY NamesOfFacts
<1>2. CASE name # fact
  <2>1. more[name] = facts[name]
    BY <1>1, <1>2 DEF SameBut
  <2> QED
    BY <2>1 DEF EvaluateRule
<1>3. CASE name = fact /\ kind = "intermediate_version_required"
  BY <1>3 DEF EvaluateRule
<1>4. CASE name = fact /\ kind # "intermediate_version_required"
  <2>1. kind \notin {"intermediate_version_required", "tagged_with"} /\ facts[name] = None
    BY <1>1, <1>4
  <2>2. EvaluateRule(rule, facts) = BlockerOf(rule, "missing_observation_field", "required")
    BY <2>1 DEF EvaluateRule
  <2> QED
    BY <2>2 DEF BlockerOf
<1> QED
  BY <1>2, <1>3, <1>4

\* A step that changes at most one fact, one that was not known and no live rule selects by,
\* and may remove rules and add lighter edges.
LEMMA ClearKept ==
  ASSUME Typed, Typed', NEW fact, fact # "tags",
         SameBut(fact, Facts(ev.life), Facts(ev.life)'), ev' = ev,
         Facts(ev.life)' = Facts(ev.life) \/ Facts(ev.life)[fact] = None,
         \A r \in rules' : ~ Asks(r.applies_to, fact) \/ Facts(ev.life)' = Facts(ev.life),
         rules' \subseteq rules,
         UpgradePathExists(ev.f3) => UpgradePathExists(ev.f3)',
         ReadyNow
  PROVE  ReadyNow'
<1> DEFINE facts == Facts(ev.life)
           R == MatchingRules(ev.life)
<1>1. Clear(ev.f3, R, facts, UpgradePathExists(ev.f3))
  BY ReadyMeans
<1>2. Typed' => (ReadyNow' <=> Clear(ev.f3, R, facts, UpgradePathExists(ev.f3))')
  BY ReadyMeans, PTL
<1>3. \A r \in rules' : IsRule(r)
  BY ConstantsAssumption DEF Typed
<1>4. R' \subseteq R
  <2> SUFFICES ASSUME NEW r \in rules', Matches(r.applies_to, facts')
               PROVE  r \in rules /\ Matches(r.applies_to, facts)
    BY DEF MatchingRules
  <2>1. CASE facts' = facts
    BY <2>1
  <2>2. CASE ~ Asks(r.applies_to, fact)
    BY <1>3, <2>2, SelectorBlind DEF IsRule
  <2> QED
    BY <2>1, <2>2
<1>5. ASSUME NEW r \in R'
      PROVE  \A b \in EvaluateRule(r, facts') : b.severity # "required"
  <2>1. IsRule(r) /\ \A b \in EvaluateRule(r, facts) : b.severity # "required"
    BY <1>1, <1>3, <1>4 DEF Clear, MatchingRules
  <2>2. CASE facts' = facts
    BY <2>1, <2>2
  <2>3. CASE facts[fact] = None
    BY <2>1, <2>3, RuleSatisfied
  <2> QED
    BY <2>1, <2>2, <2>3
<1>6. Clear(ev.f3, R, facts, UpgradePathExists(ev.f3))'
  BY <1>1, <1>5 DEF Clear
<1> QED
  BY <1>2, <1>6

\* What the row of a device depends on.
LEMMA FactsOf ==
  \A state : /\ DOMAIN Facts(state) = FactNames
             /\ \A f \in DeviceFacts : Facts(state)[f] = device[f]
             /\ Facts(state)["lifecycle_state"] = state
             /\ Facts(state)["observed_firmware"] = obs.latest
  BY DEF Facts, FactNames, DeviceFacts

\* ReadyKept: missing data never lets a device through.
THEOREM ReadyStays == Spec => ReadyKept
<1>1. ASSUME Typed, Typed', ReadyNow,
             NEW pair \in Learnable, Learn(pair[1], pair[2]), device[pair[1]] = None,
             pair[1] # "tags", ~ \E r \in rules : Asks(r.applies_to, pair[1])
      PROVE  ReadyNow'
  <2>1. pair[1] \in DeviceFacts
    BY ConstantsAssumption
  <2>2. /\ device' = [device EXCEPT ![pair[1]] = pair[2]]
        /\ UNCHANGED <<obs, rules, targets, edges, ev>>
    BY <1>1 DEF Learn, Changing, catalogue
  <2>3. \A f \in DeviceFacts : f # pair[1] => device'[f] = device[f]
    BY <2>2 DEF Typed
  <2>4. SameBut(pair[1], Facts(ev.life), Facts(ev.life)')
    BY <2>1, <2>2, <2>3 DEF SameBut, FactNames, Facts, DeviceFacts
  <2>5. Facts(ev.life)[pair[1]] = None
    BY <1>1, <2>1, FactsOf
  <2>6. UpgradePathExists(ev.f3) => UpgradePathExists(ev.f3)'
    <3>1. CASE pair[1] = "platform_family"
      BY <1>1, <3>1 DEF UpgradePathExists
    <3>2. CASE pair[1] # "platform_family"
      <4>1. device'["platform_family"] = device["platform_family"]
        BY <2>3, <3>2 DEF DeviceFacts
      <4> QED
        BY <2>2, <4>1 DEF UpgradePathExists, PlatformEdges
    <3> QED
      BY <3>1, <3>2
  <2> QED
    BY <1>1, <2>2, <2>4, <2>5, <2>6, ClearKept
<1>2. ASSUME Typed, Typed', ReadyNow,
             NEW firmware \in Reported, Observe(firmware, FALSE), obs.latest = None
      PROVE  ReadyNow'
  <2>1. UNCHANGED <<device, rules, targets, edges, ev>>
    BY <1>2 DEF Observe, Changing, catalogue
  <2>2. SameBut("observed_firmware", Facts(ev.life), Facts(ev.life)')
    BY <2>1 DEF SameBut, FactNames, Facts, DeviceFacts
  <2>3. Facts(ev.life)["observed_firmware"] = None
    BY <1>2, FactsOf
  <2>4. \A r \in rules' : ~ Asks(r.applies_to, "observed_firmware")
    BY <1>2, ConstantsAssumption, NamesOfFacts DEF Typed, IsRule
  <2>5. UpgradePathExists(ev.f3) => UpgradePathExists(ev.f3)'
    BY <2>1 DEF UpgradePathExists, PlatformEdges
  <2> QED
    BY <1>2, <2>1, <2>2, <2>3, <2>4, <2>5, ClearKept
<1>3. ASSUME Typed, Typed', ReadyNow, NEW rule \in RuleBook, RemoveRule(rule)
      PROVE  ReadyNow'
  <2>1. rules' \subseteq rules /\ UNCHANGED <<device, obs, targets, edges, ev>>
    BY <1>3 DEF RemoveRule, Changing
  <2>2. Facts(ev.life)' = Facts(ev.life)
    BY <2>1 DEF Facts
  <2>3. UpgradePathExists(ev.f3) => UpgradePathExists(ev.f3)'
    BY <2>1 DEF UpgradePathExists, PlatformEdges
  <2>4. SameBut("region", Facts(ev.life), Facts(ev.life)')
    BY <2>2 DEF SameBut
  <2> QED
    BY <1>3, <2>1, <2>2, <2>3, <2>4, ClearKept
<1>4. ASSUME Typed, Typed', ReadyNow, NEW edge \in EdgeBook, LoadEdge(edge),
             \A e \in edges : SameEdge(e, edge) => edge.weight <= e.weight
      PROVE  ReadyNow'
  <2>1. /\ edges' = {e \in edges : ~ SameEdge(e, edge)} \cup {edge}
        /\ UNCHANGED <<device, obs, rules, targets, ev>>
    BY <1>4 DEF LoadEdge, Changing
  <2>2. Facts(ev.life)' = Facts(ev.life)
    BY <2>1 DEF Facts
  <2> DEFINE graph == PlatformEdges(device["platform_family"])
             cap == ReadinessUpgradeWeightCap
  <2>3. Weighed(graph)
    BY <1>4, EdgesWeighed
  <2>4. Weighed(graph)'
    BY <1>4, ConstantsAssumption DEF Typed, PlatformEdges, IsEdge, Weighed
  <2>5. Lighter(graph, graph')
    <3> SUFFICES ASSUME NEW e \in graph
                 PROVE  \E f \in graph' : /\ f.from_version = e.from_version
                                          /\ f.to_version = e.to_version /\ f.weight <= e.weight
      BY DEF Lighter
    <3>1. e \in edges /\ e.platform_family = device["platform_family"] /\ e.weight \in Nat
      BY <2>3 DEF PlatformEdges, Weighed
    <3>2. CASE ~ SameEdge(e, edge)
      BY <2>1, <3>1, <3>2 DEF PlatformEdges
    <3>3. CASE SameEdge(e, edge)
      BY <1>4, <2>1, <3>1, <3>3 DEF PlatformEdges, SameEdge
    <3> QED
      BY <3>2, <3>3
  <2>6. UpgradePathExists(ev.f3) => UpgradePathExists(ev.f3)'
    <3>1. UpgradePathExists(ev.f3) => PathFound(ev.f3)
      BY <1>4, PathMeans
    <3>2. Typed' => (\A row : UpgradePathExists(row) <=> PathFound(row))'
      BY PathMeans, PTL
    <3>3. PathFound(ev.f3)' => UpgradePathExists(ev.f3)'
      BY <1>4, <3>2
    <3>4. \A a, b : <<a, b>> \in WalksWithin(graph, cap) => <<a, b>> \in WalksWithin(graph', cap)
      BY <2>3, <2>4, <2>5, WalksKept, ConstantsAssumption
    <3>5. PathFound(ev.f3) => PathFound(ev.f3)'
      BY <2>1, <3>4 DEF PathFound
    <3> QED
      BY <3>1, <3>3, <3>5
  <2>7. SameBut("region", Facts(ev.life), Facts(ev.life)')
    BY <2>2 DEF SameBut
  <2> QED
    BY <1>4, <2>1, <2>2, <2>6, <2>7, ClearKept
<1>5. Typed /\ Typed' =>
        [/\ \/ \E pair \in Learnable :
                 /\ Learn(pair[1], pair[2]) /\ device[pair[1]] = None /\ pair[1] # "tags"
                 /\ ~ \E r \in rules : Asks(r.applies_to, pair[1])
            \/ \E firmware \in Reported : Observe(firmware, FALSE) /\ obs.latest = None
            \/ \E rule \in RuleBook : RemoveRule(rule)
            \/ \E edge \in EdgeBook : /\ LoadEdge(edge)
                                      /\ \A e \in edges : SameEdge(e, edge) => edge.weight <= e.weight
         /\ ReadyNow
         => ReadyNow']_vars
  BY <1>1, <1>2, <1>3, <1>4
<1> QED
  BY <1>5, Invariance, PTL DEF ReadyKept

---------------------------------------------------------------------------
(* The target of a device.                                                 *)

Newer(S) == {pair \in S \X S : pair[1].loaded_at > pair[2].loaded_at}

LEMMA TargetsSorted ==
  ASSUME Typed
  PROVE  /\ \A i \in DOMAIN ActiveTargets : i \in Nat /\ ActiveTargets[i] \in targets
         /\ \A t \in targets : \E i \in DOMAIN ActiveTargets : ActiveTargets[i] = t
         /\ \A i, j \in DOMAIN ActiveTargets :
              i < j => ActiveTargets[i].loaded_at > ActiveTargets[j].loaded_at
<1> DEFINE s == ActiveTargets
           R == Newer(targets)
<1>1. \A t, u \in targets : t.loaded_at \in Nat /\ (t.loaded_at = u.loaded_at => t = u)
  BY ConstantsAssumption DEF Typed
<1>2. IsFiniteSet(targets)
  BY ConstantsAssumption, FS_Subset DEF Typed
<1>3. \A t, u \in targets : <<t, u>> \in R <=> t.loaded_at > u.loaded_at
  BY DEF Newer
<1>4. StrictOrder(R, targets)
  <2> HIDE DEF R
  <2> QED
    BY <1>1, <1>3 DEF StrictOrder
<1>5. \A t \in targets : {u \in targets : u.loaded_at > t.loaded_at} = Below(R, targets, t)
  BY DEF Newer, Below
<1>6. SortedBy(s, R, targets)
  <2> DEFINE At(t, i) == Cardinality({u \in targets : u.loaded_at > t.loaded_at}) = i - 1
  <2>1. s = [i \in 1..Cardinality(targets) |-> CHOOSE t \in targets : At(t, i)]
    BY DEF ActiveTargets, Sorted
  <2>2. \A i : (\E t \in targets : At(t, i)) =>
                 LET t == CHOOSE t \in targets : At(t, i) IN t \in targets /\ At(t, i)
    OBVIOUS
  <2>3. \A i : \A t \in targets : At(t, i) <=> Cardinality(Below(R, targets, t)) = i - 1
    BY <1>5
  <2> HIDE DEF At, R, s
  <2> QED
    BY <2>1, <2>2, <2>3 DEF SortedBy
<1> HIDE DEF s, R
<1>7. /\ DOMAIN s = 1..Cardinality(targets) /\ Cardinality(targets) \in Nat
      /\ \A i \in DOMAIN s : s[i] \in targets
      /\ \A t \in targets : \E i \in DOMAIN s : s[i] = t
      /\ \A i, j \in DOMAIN s : i < j => <<s[i], s[j]>> \in R
  BY <1>2, <1>4, <1>6, SortedSequence
<1>8. \A i, j \in DOMAIN s : i < j => s[i].loaded_at > s[j].loaded_at
  BY <1>3, <1>7
<1>9. \A i \in DOMAIN s : i \in Nat
  BY <1>7
<1> QED
  BY <1>7, <1>8, <1>9 DEF s

\* The keys are finitely many, so that specificity is a number, and a bounded one.
LEMMA SpecificityBounded ==
  \E n \in Nat : \A selector : IsSelector(selector) => Specificity(selector) \in 0..n
<1> DEFINE K == DOMAIN FactOfKey
           A == {"vendor_normalized"} \cup {"platform_family"}
           B == {"region_in"} \cup {"site_in"}
           C == {"role_in"} \cup {"hardware_revision_in"}
           D == {"not_in_state"} \cup {"tagged_with"}
<1>1. K = (A \cup B) \cup (C \cup D)
  BY DEF FactOfKey
<1>2. \A x : IsFiniteSet({x})
  BY FS_Singleton
<1>3. IsFiniteSet(K)
  <2>1. IsFiniteSet(A) /\ IsFiniteSet(B) /\ IsFiniteSet(C) /\ IsFiniteSet(D)
    BY <1>2, FS_Union
  <2> HIDE DEF A, B, C, D, K
  <2>2. IsFiniteSet(A \cup B) /\ IsFiniteSet(C \cup D)
    BY <2>1, FS_Union
  <2> QED
    BY <1>1, <2>2, FS_Union
<1> HIDE DEF K
<1>4. Cardinality(K) \in Nat
  BY <1>3, FS_CardinalityType
<1>5. ASSUME NEW selector, IsSelector(selector)
      PROVE  Specificity(selector) \in 0..Cardinality(K)
  <2> DEFINE asked == {key \in DOMAIN selector : key \in ExactKeys \/ selector[key] # {}}
  <2>1. asked \subseteq K
    BY <1>5 DEF IsSelector, K
  <2>2. IsFiniteSet(asked) /\ Cardinality(asked) <= Cardinality(K)
    BY <1>3, <2>1, FS_Subset
  <2>3. Cardinality(asked) \in Nat
    BY <2>2, FS_CardinalityType
  <2>4. Specificity(selector) = Cardinality(asked)
    BY DEF Specificity
  <2> HIDE DEF asked
  <2> QED
    BY <1>4, <2>2, <2>3, <2>4
<1> QED
  BY <1>4, <1>5

\* Of finitely many indices with bounded ranks one is the first of the greatest rank.
LEMMA FirstOfGreatest ==
  ASSUME NEW M, M \subseteq Nat, M # {}, NEW n \in Nat, NEW rank, \A i \in M : rank[i] \in 0..n
  PROVE  \E i \in M : \A j \in M : rank[i] > rank[j] \/ (rank[i] = rank[j] /\ i <= j)
<1> DEFINE Gaps == {n - rank[i] : i \in M}
<1>1. Gaps \subseteq Nat /\ Gaps # {}
  <2>1. \A i \in M : n - rank[i] \in Nat
    OBVIOUS
  <2> QED
    BY <2>1
<1>2. PICK gap \in Gaps : \A other \in Gaps : gap <= other
  <2> HIDE DEF Gaps
  <2> QED
    BY <1>1, NatLeast
<1>3. PICK k \in M : gap = n - rank[k]
  BY <1>2
<1>4. \A j \in M : rank[k] >= rank[j]
  BY <1>2, <1>3
<1> DEFINE Top == {i \in M : rank[i] = rank[k]}
<1>5. Top \subseteq Nat /\ Top # {}
  OBVIOUS
<1>6. PICK i \in Top : \A j \in Top : i <= j
  <2> HIDE DEF Top
  <2> QED
    BY <1>5, NatLeast
<1> QED
  BY <1>4, <1>6

\* The stable sort by specificity finds the one target that none beats.
THEOREM ResolveBest ==
  ASSUME Typed
  PROVE  \A facts : \/ BestTargets(facts) = {} /\ Resolve(facts) = None
                    \/ Resolve(facts) \in targets /\ BestTargets(facts) = {Resolve(facts)}
<1> TAKE facts
<1> DEFINE s == ActiveTargets
           M == {i \in DOMAIN s : Matches(s[i].selector, facts)}
           rank == [i \in M |-> Specificity(s[i].selector)]
           First(i) == \A j \in M :
                         \/ Specificity(s[i].selector) > Specificity(s[j].selector)
                         \/ (Specificity(s[i].selector) = Specificity(s[j].selector) /\ i <= j)
           matching == {t \in targets : Matches(t.selector, facts)}
<1>1. /\ \A i \in DOMAIN s : i \in Nat /\ s[i] \in targets
      /\ \A t \in targets : \E i \in DOMAIN s : s[i] = t
      /\ \A i, j \in DOMAIN s : i < j => s[i].loaded_at > s[j].loaded_at
  BY TargetsSorted
<1>2. \A t \in targets : t.loaded_at \in Nat /\ IsSelector(t.selector)
  BY ConstantsAssumption DEF Typed
<1>3. PICK n \in Nat : \A selector : IsSelector(selector) => Specificity(selector) \in 0..n
  BY SpecificityBounded
<1>4. Resolve(facts) = IF M = {} THEN None ELSE s[CHOOSE i \in M : First(i)]
  BY DEF Resolve
<1> HIDE DEF s
<1>5. /\ \A i \in M : i \in Nat /\ s[i] \in matching /\ rank[i] \in 0..n
      /\ \A t \in matching : \E i \in M : s[i] = t
      /\ M \subseteq DOMAIN s
  BY <1>1, <1>2, <1>3
<1>6. BestTargets(facts) = {t \in matching : ~ \E u \in matching : Beaten(t, u)}
  BY DEF BestTargets
<1>7. \A i, j \in M : Beaten(s[i], s[j]) <=>
                        \/ rank[j] > rank[i]
                        \/ rank[j] = rank[i] /\ s[j].loaded_at > s[i].loaded_at
  BY DEF Beaten
<1>8. \A i \in M : First(i) <=> \A j \in M : rank[i] > rank[j] \/ (rank[i] = rank[j] /\ i <= j)
  OBVIOUS
<1> HIDE DEF First, rank, matching, M
<1>9. CASE M = {}
  BY <1>4, <1>5, <1>6, <1>9
<1>10. CASE M # {}
  <2> DEFINE i == CHOOSE i \in M : First(i)
  <2>1. \E k \in M : First(k)
    <3>1. M \subseteq Nat /\ \A k \in M : rank[k] \in 0..n
      BY <1>5
    <3>2. \E k \in M : \A j \in M : rank[k] > rank[j] \/ (rank[k] = rank[j] /\ k <= j)
      BY <1>10, <3>1, FirstOfGreatest
    <3> QED
      BY <1>8, <3>2
  <2>2. i \in M /\ First(i)
    BY <2>1
  <2>3. Resolve(facts) = s[i]
    BY <1>4, <1>10
  <2> HIDE DEF i
  <2>4. s[i] \in matching /\ s[i] \in targets
    BY <1>5, <2>2 DEF matching
  <2>5. ASSUME NEW j \in M
        PROVE  /\ ~ Beaten(s[i], s[j])
               /\ j # i => Beaten(s[j], s[i])
    <3>1. /\ i \in DOMAIN s /\ j \in DOMAIN s /\ i \in Nat /\ j \in Nat
          /\ rank[i] \in 0..n /\ rank[j] \in 0..n
          /\ s[i].loaded_at \in Nat /\ s[j].loaded_at \in Nat
      BY <1>1, <1>2, <1>5, <2>2
    <3>2. rank[i] > rank[j] \/ (rank[i] = rank[j] /\ i <= j)
      BY <1>8, <2>2
    <3>3. j # i /\ i <= j => s[i].loaded_at > s[j].loaded_at
      BY <1>1, <3>1
    <3> QED
      BY <1>7, <2>2, <3>1, <3>2, <3>3
  <2>6. s[i] \in BestTargets(facts)
    BY <1>5, <1>6, <2>4, <2>5
  <2>7. ASSUME NEW t \in BestTargets(facts)
        PROVE  t = s[i]
    <3>1. PICK j \in M : s[j] = t
      BY <1>5, <1>6
    <3>2. ~ Beaten(s[j], s[i])
      BY <1>6, <2>4, <3>1
    <3> QED
      BY <2>5, <3>1, <3>2
  <2> QED
    BY <2>3, <2>4, <2>6, <2>7
<1> QED
  BY <1>9, <1>10

---------------------------------------------------------------------------
(* A reload's evaluation, as DeviceEvaluation has it.                      *)

Seen == [firmware |-> obs.newest, on |-> 0]
Row3 == Pipeline!ComplianceRow(Summary("outside_target"), Seen, 0)

\* The state of the row of a reload, and what it is found from, for a target that is the
\* same at all lifecycle states.
Lifeless == ~ \E t \in targets : TestsLifecycle(t.selector)

LEMMA BestAtAny ==
  ASSUME Typed, Lifeless
  PROVE  \A state : BestTargets(Facts(state)) = BestTargets(Facts("outside_target"))
<1> TAKE state
<1>1. \A key \in DOMAIN FactOfKey : FactOfKey[key] = "lifecycle_state" => key = "not_in_state"
  BY DEF FactOfKey
<1>2. \A t \in targets : IsSelector(t.selector) /\ ~ Asks(t.selector, "lifecycle_state")
  BY <1>1, ConstantsAssumption DEF Typed, Lifeless, TestsLifecycle, Asks, IsSelector
<1>3. SameBut("lifecycle_state", Facts("outside_target"), Facts(state))
  BY DEF SameBut, Facts, FactNames, DeviceFacts
<1>4. \A t \in targets : Matches(t.selector, Facts(state)) <=> Matches(t.selector, Facts("outside_target"))
  BY <1>2, <1>3, SelectorBlind
<1> QED
  BY <1>4 DEF BestTargets

LEMMA ViewOfTarget ==
  ASSUME Typed, Lifeless, NEW state
  PROVE  LET view == Summary("outside_target")
             winner == Resolve(Facts(state))
         IN /\ view.live <=> targets # {}
            /\ Pipeline!Resolved(view) <=> winner # None
            /\ winner # None => /\ winner \in targets /\ view.version = winner.version
                                /\ winner.version \in Versions /\ winner.version # None
<1> DEFINE view == Summary("outside_target")
           winner == Resolve(Facts(state))
           best == BestTargets(Facts("outside_target"))
<1>1. \/ best = {} /\ winner = None
      \/ winner \in targets /\ best = {winner}
  BY BestAtAny, ResolveBest
<1>2. \A t \in targets : t # None /\ t.version \in Versions /\ t.version # None
  BY ConstantsAssumption DEF Typed
<1>3. /\ view.live = (targets # {}) /\ view.covers = (best # {})
      /\ view.version = IF best = {} THEN None ELSE (CHOOSE t \in best : TRUE).version
  BY DEF Summary
<1> HIDE DEF view, winner, best
<1>4. CASE best = {} /\ winner = None
  BY <1>3, <1>4 DEF Pipeline!Resolved, view, winner
<1>5. CASE winner \in targets /\ best = {winner}
  <2>1. view.version = winner.version
    BY <1>3, <1>5
  <2> QED
    BY <1>2, <1>3, <1>5, <2>1 DEF Pipeline!Resolved, view, winner
<1> QED
  BY <1>1, <1>4, <1>5

\* The verdict of F3 and what it was found from.
LEMMA ComplianceAgrees ==
  ASSUME Typed, Lifeless, NEW state
  PROVE  LET c == Compliance(state)
         IN /\ <<c.state, c.target, c.observed>> = <<Row3.state, Row3.target, Row3.observed>>
            /\ c.state \in {"classified", "unknown", "compliant", "outside_target"}
            /\ c.observed = obs.newest
            /\ c.state = "classified" <=> Resolve(Facts(state)) = None
            /\ c.state = "outside_target" =>
                 /\ c.target = Summary("outside_target").version
                 /\ c.target # None /\ c.observed # None /\ c.target # c.observed
<1> DEFINE view == Summary("outside_target")
           winner == Resolve(Facts(state))
           c == Compliance(state)
<1>1. /\ Pipeline!Resolved(view) <=> winner # None
      /\ winner # None => view.version = winner.version /\ winner.version # None
  BY ViewOfTarget
<1>2. /\ Row3.state = Pipeline!F2Verdict(view, Seen) /\ Row3.target = Pipeline!TargetVersion(view)
      /\ Row3.observed = obs.newest
  BY DEF Row3, Pipeline!ComplianceRow, Seen
<1>3. Seen.firmware = obs.newest
  BY DEF Seen
<1> HIDE DEF view
<1>4. CASE winner = None
  <2>1. c = [state |-> "classified", target |-> None, observed |-> obs.newest]
    BY <1>4 DEF Compliance
  <2>2. Row3.state = "classified" /\ Row3.target = None
    BY <1>1, <1>2, <1>4 DEF Pipeline!F2Verdict, Pipeline!TargetVersion
  <2> QED
    BY <1>2, <1>4, <2>1, <2>2
<1>5. CASE winner # None
  <2>1. /\ c.state = IF obs.newest = None THEN "unknown"
                     ELSE IF obs.newest = winner.version THEN "compliant" ELSE "outside_target"
        /\ c.target = winner.version /\ c.observed = obs.newest
    BY <1>5 DEF Compliance
  <2>2. /\ Row3.state = IF obs.newest = None THEN "unknown"
                        ELSE IF obs.newest = winner.version THEN "compliant" ELSE "outside_target"
        /\ Row3.target = winner.version
    BY <1>1, <1>2, <1>3, <1>5 DEF Pipeline!F2Verdict, Pipeline!TargetVersion
  <2> QED
    BY <1>1, <1>2, <1>5, <2>1, <2>2 DEF view
<1> QED
  BY <1>4, <1>5

\* The reasons, and the drifts of a compliant device.
LEMMA ReasonsAgree ==
  ASSUME Typed, Lifeless, NEW state
  PROVE  LET c == Compliance(state)
             reasons == {pair[2] : pair \in DriftReasons(c)}
         IN /\ reasons \cap Pipeline!DriftReasons = Row3.drift
            /\ c.state = "compliant" => DriftReasons(c) \subseteq SoftDrift \X reasons
<1> DEFINE c == Compliance(state)
           view == Summary("outside_target")
           empty == IF targets = {} THEN "empty_catalog" ELSE "no_target_matched"
           reasons == {pair[2] : pair \in DriftReasons(c)}
           fires(pair) == \/ pair = <<"catalog_drift", empty>> /\ c.state = "classified"
                          \/ pair = <<"rule_drift", "missing_upgrade_path">>
                               /\ c.state = "outside_target" /\ ~ EdgeReaches(c)
                          \/ pair = <<"package_drift", "package_not_built">>
                               /\ c.state = "outside_target" /\ ~ PackageBuilt(c)
                          \/ pair = <<"target_drift", "version_mismatch">> /\ c.state = "outside_target"
                          \/ pair = <<"discovery_drift", "missing_observation">> /\ c.observed = None
                          \/ pair = <<"evidence_drift", "stale_observation">> /\ c.state = "compliant"
<1>1. /\ c.state = Row3.state /\ c.observed = obs.newest
      /\ c.state = "outside_target" => c.target = view.version
  BY ComplianceAgrees
<1>2. Row3.drift = Pipeline!DriftOf(view, Seen) /\ Row3.state = Pipeline!F2Verdict(view, Seen)
  BY DEF Row3, Pipeline!ComplianceRow
<1>3. /\ view.live <=> targets # {}
      /\ view.reached = {e.to_version : e \in PlatformEdges(device["platform_family"])}
  BY DEF Summary
<1>4. c.state = "outside_target" => (EdgeReaches(c) <=> view.version \in view.reached)
  BY <1>1, <1>3 DEF EdgeReaches
<1>5. Seen.firmware = obs.newest
  BY DEF Seen
<1> HIDE DEF c, view
<1>6. \A pair : pair \in DriftReasons(c) <=> fires(pair)
  BY DEF DriftReasons
<1>7. \A reason : reason \in reasons <=> \E pair : fires(pair) /\ pair[2] = reason
  BY <1>6
<1>8. \A reason : reason \in reasons <=>
        \/ reason = empty /\ c.state = "classified"
        \/ reason = "missing_upgrade_path" /\ c.state = "outside_target" /\ ~ EdgeReaches(c)
        \/ reason = "package_not_built" /\ c.state = "outside_target" /\ ~ PackageBuilt(c)
        \/ reason = "version_mismatch" /\ c.state = "outside_target"
        \/ reason = "missing_observation" /\ c.observed = None
        \/ reason = "stale_observation" /\ c.state = "compliant"
  <2>1. \A d, reason : fires(<<d, reason>>) => reason \in reasons
    <3> TAKE d, reason
    <3>1. <<d, reason>>[2] = reason
      OBVIOUS
    <3> HIDE DEF fires, reasons
    <3> QED
      BY <1>7, <3>1
  <2>2. \A reason : \/ fires(<<"catalog_drift", reason>>) \/ fires(<<"rule_drift", reason>>)
                    \/ fires(<<"package_drift", reason>>) \/ fires(<<"target_drift", reason>>)
                    \/ fires(<<"discovery_drift", reason>>) \/ fires(<<"evidence_drift", reason>>)
                    => reason \in reasons
    <3> HIDE DEF fires, reasons
    <3> QED
      BY <2>1
  <2> HIDE DEF reasons
  <2> QED
    BY <1>7, <2>2
<1>9. \A reason : reason \in Row3.drift <=>
        /\ reason \in Pipeline!DriftReasons
        /\ \/ reason = "empty_catalog" /\ c.state = "classified" /\ ~ view.live
           \/ reason = "no_target_matched" /\ c.state = "classified" /\ view.live
           \/ reason = "missing_upgrade_path" /\ c.state = "outside_target"
                /\ view.version \notin view.reached
           \/ reason = "missing_observation" /\ obs.newest = None
  BY <1>1, <1>2, <1>5 DEF Pipeline!DriftOf
<1>10. reasons \cap Pipeline!DriftReasons = Row3.drift
  <2> HIDE DEF reasons
  <2> QED
    BY <1>1, <1>3, <1>4, <1>8, <1>9 DEF Pipeline!DriftReasons
<1>11. ASSUME c.state = "compliant", NEW pair \in DriftReasons(c)
       PROVE  pair \in SoftDrift \X reasons
  <2>1. \/ pair = <<"discovery_drift", "missing_observation">>
        \/ pair = <<"evidence_drift", "stale_observation">>
    BY <1>6, <1>11
  <2>2. pair[2] \in reasons
    OBVIOUS
  <2>3. pair[1] \in SoftDrift /\ pair = <<pair[1], pair[2]>>
    BY <2>1 DEF SoftDrift
  <2> QED
    BY <2>2, <2>3
<1> QED
  BY <1>10, <1>11 DEF c, reasons

\* A row with a target has an upgrade path if the view of the catalogue has one.
LEMMA PathAgrees ==
  ASSUME Typed, NEW row, row.target # None, row.observed # None, row.target # row.observed
  PROVE  UpgradePathExists(row) <=> <<row.observed, row.target>> \in Summary("outside_target").paths
<1> DEFINE graph == PlatformEdges(device["platform_family"])
           cap == ReadinessUpgradeWeightCap
           walk == <<row.observed, row.target>> \in WalksWithin(graph, cap)
<1>1. UpgradePathExists(row) <=> PathFound(row)
  BY PathMeans
<1>2. PathFound(row) <=> device["platform_family"] # None /\ walk
  BY DEF PathFound
<1>3. <<row.observed, row.target>> \in Summary("outside_target").paths <=> walk
  <2>1. Summary("outside_target").paths = WalksWithin(graph, cap) \ {<<v, v>> : v \in Versions}
    BY DEF Summary
  <2> HIDE DEF graph
  <2> QED
    BY <2>1
<1>4. device["platform_family"] = None => ~ walk
  <2> SUFFICES ASSUME device["platform_family"] = None
               PROVE  ~ walk
    OBVIOUS
  <2>1. graph = {} /\ Weighed(graph) /\ cap \in Nat
    BY EdgesWeighed, ConstantsAssumption
  <2>2. walk <=> \/ row.observed = row.target /\ row.observed \in Versions
                 \/ FirstEdge(graph, cap, row.observed, row.target)
    BY <2>1, WalksUnfold
  <2>3. ~ FirstEdge(graph, cap, row.observed, row.target)
    BY <2>1 DEF FirstEdge
  <2> QED
    BY <2>2, <2>3
<1> QED
  BY <1>1, <1>2, <1>3, <1>4

\* The required blockers of a row, and the first of its blockers.
LEMMA RequiredFirst ==
  ASSUME NEW S, S \subseteq Blocker, IsFiniteSet(S), NEW row, row.blockers = SortBlockers(S)
  PROVE  /\ RequiredBlockers(row) = {b \in S : b.severity = "required"}
         /\ RequiredBlockers(row) # {} => row.blockers[1] \in RequiredBlockers(row)
<1> DEFINE s == SortBlockers(S)
<1>1. /\ DOMAIN s = 1..Cardinality(S) /\ Cardinality(S) \in Nat
      /\ \A i \in DOMAIN s : s[i] \in S
      /\ \A b \in S : \E i \in DOMAIN s : s[i] = b
      /\ \A i, j \in DOMAIN s : i < j => SortsBefore(s[i], s[j])
  BY BlockersSorted
<1> HIDE DEF s
<1>2. RequiredBlockers(row) = {s[i] : i \in {j \in DOMAIN s : s[j].severity = "required"}}
  BY DEF s, RequiredBlockers
<1>3. RequiredBlockers(row) = {b \in S : b.severity = "required"}
  BY <1>1, <1>2
<1>4. ASSUME NEW b \in RequiredBlockers(row)
      PROVE  s[1] \in RequiredBlockers(row)
  <2>1. PICK i \in DOMAIN s : s[i].severity = "required"
    BY <1>2, <1>4
  <2>2. 1 \in DOMAIN s /\ (i = 1 \/ 1 < i)
    BY <1>1
  <2>3. s[1].severity = "required"
    BY <1>1, <2>1, <2>2 DEF SortsBefore
  <2> QED
    BY <1>1, <1>3, <2>2, <2>3
<1> QED
  BY <1>3, <1>4 DEF s

\* The row of F4, its required blockers and the first of its blockers.
LEMMA ReadinessAgrees ==
  ASSUME Typed, Lifeless, NEW state
  PROVE  LET c == Compliance(state)
             judged == Judge(c.state, ComplianceRow(c))
             row4 == Pipeline!ReadinessRow(Row3, Summary("outside_target"))
             required == RequiredBlockers(judged)
         IN /\ <<judged.state, judged.applicable>> = <<row4.state, row4.applicable>>
            /\ {IF b.rule_id = 0 THEN Pipeline!PathBlocker ELSE ToString(b.rule_id) : b \in required}
                 = row4.blockers
            /\ required # {} => judged.blockers[1] \in required
<1> DEFINE c == Compliance(state)
           view == Summary("outside_target")
           row == ComplianceRow(c)
           judged == Judge(c.state, row)
           row4 == Pipeline!ReadinessRow(Row3, view)
           required == RequiredBlockers(judged)
           names == {IF b.rule_id = 0 THEN Pipeline!PathBlocker ELSE ToString(b.rule_id) : b \in required}
<1>1. /\ c.state = Row3.state /\ c.target = Row3.target /\ c.observed = Row3.observed
      /\ c.state \in {"classified", "unknown", "compliant", "outside_target"}
      /\ c.state = "outside_target" =>
           c.target # None /\ c.observed # None /\ c.target # c.observed
  BY ComplianceAgrees
<1>2. row.state = c.state /\ row.target = c.target /\ row.observed = c.observed
  BY DEF ComplianceRow
<1>3. row # NoRow
  BY <1>1, <1>2 DEF NoRow
<1>4. Row3 # None
  <2>1. Row3 = [state |-> Row3.state, target |-> Row3.target, observed |-> Row3.observed,
                drift |-> Row3.drift, age |-> 0, on |-> 0]
    BY DEF Row3, Pipeline!ComplianceRow, Pipeline!StaleAge, Seen
  <2>2. /\ Row3.drift \subseteq Pipeline!DriftReasons
    BY DEF Row3, Pipeline!ComplianceRow, Pipeline!DriftOf
  <2>3. /\ Row3.target \in Versions \cup {None} /\ Row3.observed \in Versions \cup {None}
    <3>1. c.observed \in Versions \cup {None}
      BY ComplianceAgrees DEF Typed
    <3>2. c.target \in Versions \cup {None}
      BY ViewOfTarget DEF Compliance
    <3> QED
      BY <1>1, <3>1, <3>2
  <2>4. Row3 \in Pipeline!Row3
    BY <1>1, <2>1, <2>2, <2>3
       DEF Pipeline!Row3, Pipeline!F2States, Pipeline!Firmware, Pipeline!Days
  <2> QED
    BY <2>4, NoneIsNoRow
<1>5. CASE c.state # "outside_target"
  <2>1. judged = NotApplicable(c.state)
    BY <1>2, <1>3, <1>5 DEF Judge
  <2>2. row4 = Pipeline!NotApplicable(c.state)
    BY <1>1, <1>4, <1>5 DEF Pipeline!ReadinessRow
  <2>3. judged.state = "not_applicable" /\ judged.applicable = 0 /\ judged.blockers = <<>>
    BY <2>1 DEF NotApplicable
  <2>4. row4.state = "not_applicable" /\ row4.applicable = 0 /\ row4.blockers = {}
    BY <2>2 DEF Pipeline!NotApplicable
  <2>5. required = {}
    BY <2>3 DEF RequiredBlockers
  <2> HIDE DEF judged, row4, required
  <2> QED
    BY <2>3, <2>4, <2>5 DEF judged, row4, required
<1>6. CASE c.state = "outside_target"
  <2> DEFINE R == MatchingRules("outside_target")
             facts == Facts("outside_target")
             found == RowBlockers("outside_target", row)
             path == UpgradePathExists(row)
             verdict == IF HasRequired(SortBlockers(found)) THEN "blocked" ELSE "ready_for_uplift"
             Blocking(r) == \E b \in EvaluateRule(r, facts) : b.severity = "required"
  <2>1. /\ judged.applicable = Cardinality(R) /\ judged.blockers = SortBlockers(found)
        /\ judged.state = verdict
    BY <1>2, <1>3, <1>6 DEF Judge, RowBlockers, Fired
  <2>2. found \subseteq Blocker /\ IsFiniteSet(found)
    BY RowBlockersFinite
  <2>3. HasRequired(SortBlockers(found)) <=> \E b \in found : b.severity = "required"
    BY <2>2, RequiredSorted
  <2>4. /\ required = {b \in found : b.severity = "required"}
        /\ required # {} => judged.blockers[1] \in required
    <3> HIDE DEF judged, found
    <3> QED
      BY <2>2, <2>1, RequiredFirst
  <2>5. path <=> <<Row3.observed, Row3.target>> \in view.paths
    BY <1>1, <1>2, <1>6, PathAgrees
  <2>6. view.failing = {ToString(r.id) : r \in {x \in R : Blocking(x)}} /\ view.applicable = Cardinality(R)
    BY DEF Summary
  <2>7. /\ row4.state = IF row4.blockers = {} THEN "ready_for_uplift" ELSE "blocked"
        /\ row4.applicable = Cardinality(R)
        /\ row4.blockers = view.failing \cup (IF path THEN {} ELSE {Pipeline!PathBlocker})
    <3>1. row4 = [state |-> IF Pipeline!BlockersOf(Row3, view) = {} THEN "ready_for_uplift" ELSE "blocked",
                  because |-> "", applicable |-> view.applicable, blockers |-> Pipeline!BlockersOf(Row3, view),
                  target |-> Row3.target, observed |-> Row3.observed]
      BY <1>1, <1>4, <1>6 DEF Pipeline!ReadinessRow
    <3>2. Pipeline!BlockersOf(Row3, view) = view.failing \cup (IF path THEN {} ELSE {Pipeline!PathBlocker})
      BY <2>5 DEF Pipeline!BlockersOf
    <3> HIDE DEF view, row4, path
    <3> QED
      BY <2>6, <3>1, <3>2
  <2>8. names = row4.blockers
    <3>1. \A r \in R : /\ r.id \in Nat \ {0}
                       /\ \A b \in EvaluateRule(r, facts) : b.rule_id = r.id
      BY RulesMatching, RuleFires DEF IsRule
    <3>2. PathBlockers(row) =
            IF path THEN {}
            ELSE {[rule_id |-> 0, predicate_kind |-> "missing_upgrade_path", severity |-> "required"]}
      BY <1>1, <1>2, <1>6 DEF PathBlockers
    <3>3. \A b : b \in required <=>
            /\ b.severity = "required"
            /\ b \in PathBlockers(row) \/ \E r \in R : b \in EvaluateRule(r, facts)
      BY <2>4 DEF RowBlockers, Fired
    <3>4. \A name : name \in names <=>
            \E b \in required : name = IF b.rule_id = 0 THEN Pipeline!PathBlocker ELSE ToString(b.rule_id)
      OBVIOUS
    <3>5. \A name : name \in row4.blockers <=>
            \/ \E r \in R : Blocking(r) /\ name = ToString(r.id)
            \/ ~ path /\ name = Pipeline!PathBlocker
      BY <2>6, <2>7
    <3> HIDE DEF names, required, row4, R, facts, path
    <3>6. ASSUME NEW name \in names
          PROVE  name \in row4.blockers
      <4>1. PICK b \in required : name = IF b.rule_id = 0 THEN Pipeline!PathBlocker ELSE ToString(b.rule_id)
        BY <3>4
      <4>2. CASE b \in PathBlockers(row)
        BY <3>2, <3>5, <4>1, <4>2
      <4>3. CASE \E r \in R : b \in EvaluateRule(r, facts)
        BY <3>1, <3>3, <3>5, <4>1, <4>3
      <4> QED
        BY <3>3, <4>2, <4>3
    <3>7. ASSUME NEW name \in row4.blockers
          PROVE  name \in names
      <4>1. CASE ~ path /\ name = Pipeline!PathBlocker
        <5> DEFINE b == [rule_id |-> 0, predicate_kind |-> "missing_upgrade_path", severity |-> "required"]
        <5>1. b \in required /\ b.rule_id = 0
          BY <3>2, <3>3, <4>1
        <5> QED
          BY <3>4, <4>1, <5>1
      <4>2. ASSUME NEW r \in R, Blocking(r), name = ToString(r.id)
            PROVE  name \in names
        <5>1. PICK b \in EvaluateRule(r, facts) : b.severity = "required"
          BY <4>2
        <5>2. b \in required /\ b.rule_id = r.id /\ r.id # 0
          BY <3>1, <3>3, <5>1
        <5> QED
          BY <3>4, <4>2, <5>2
      <4> QED
        BY <3>5, <4>1, <4>2
    <3> QED
      BY <3>6, <3>7
  <2>9. judged.state = row4.state
    <3>1. (\E b \in found : b.severity = "required") <=> required # {}
      BY <2>4
    <3>2. required # {} <=> names # {}
      OBVIOUS
    <3> HIDE DEF judged, row4, names, required, found
    <3> QED
      BY <2>1, <2>3, <2>7, <2>8, <3>1, <3>2
  <2> HIDE DEF judged, row4, names, required, R
  <2> QED
    BY <2>1, <2>4, <2>7, <2>8, <2>9 DEF judged, row4, names, required
<1> QED
  BY <1>5, <1>6

\* PassAgreesWithPipeline: what DeviceEvaluation takes of a catalogue is what its rules come to.
THEOREM PassAgrees == Spec => PassAgreesWithPipeline
<1> DEFINE Agrees(out) ==
             LET view == Summary("outside_target")
                 o == [firmware |-> obs.newest, on |-> 0]
                 row3 == Pipeline!ComplianceRow(view, o, 0)
                 row4 == Pipeline!ReadinessRow(row3, view)
                 required == RequiredBlockers(out.f4)
             IN /\ <<out.f3.state, out.f3.target, out.f3.observed>>
                     = <<row3.state, row3.target, row3.observed>>
                /\ out.f3.reasons \cap Pipeline!DriftReasons = row3.drift
                /\ out.f3.state = "compliant" => DriftReasons(out.f3) \subseteq SoftDrift \X out.f3.reasons
                /\ <<out.f4.state, out.f4.applicable>> = <<row4.state, row4.applicable>>
                /\ {IF b.rule_id = 0 THEN Pipeline!PathBlocker ELSE ToString(b.rule_id) : b \in required}
                     = row4.blockers
                /\ required # {} => out.f4.blockers[1] \in required
<1>1. ASSUME Typed, Lifeless
      PROVE  Agrees(FullPass(ev))
  <2> DEFINE one == F2(ev)
             c == Compliance(one.life)
             row == ComplianceRow(c)
             out == FullPass(ev)
  <2>1. DOMAIN one = {"life", "f3", "f4"}
    BY <1>1 DEF Typed, F2
  <2>2. F3(one) = [one EXCEPT !.life = c.state, !.f3 = row]
    BY DEF F3
  <2>3. /\ F3(one).life = c.state /\ F3(one).f3 = row
        /\ DOMAIN F3(one) = {"life", "f3", "f4"}
    <3> HIDE DEF one, c, row
    <3> QED
      BY <2>1, <2>2
  <2>4. out.f3 = row /\ out.f4 = Judge(c.state, row)
    <3> HIDE DEF one, c, row
    <3> QED
      BY <2>3 DEF FullPass, F4, one
  <2>5. Row3 = Pipeline!ComplianceRow(Summary("outside_target"), [firmware |-> obs.newest, on |-> 0], 0)
    BY DEF Row3, Seen
  <2>6. /\ row.state = c.state /\ row.target = c.target /\ row.observed = c.observed
        /\ row.reasons = {pair[2] : pair \in DriftReasons(c)}
        /\ DriftReasons(row) = DriftReasons(c)
    <3>1. /\ row.state = c.state /\ row.target = c.target /\ row.observed = c.observed
          /\ row.reasons = {pair[2] : pair \in DriftReasons(c)}
      BY DEF ComplianceRow
    <3> HIDE DEF row, c
    <3>2. (EdgeReaches(row) <=> EdgeReaches(c)) /\ (PackageBuilt(row) <=> PackageBuilt(c))
      BY <3>1 DEF EdgeReaches, PackageBuilt
    <3>3. DriftReasons(row) = DriftReasons(c)
      BY <3>1, <3>2 DEF DriftReasons
    <3> QED
      BY <3>1, <3>3
  <2>7. <<c.state, c.target, c.observed>> = <<Row3.state, Row3.target, Row3.observed>>
    BY <1>1, ComplianceAgrees
  <2>8. /\ row.reasons \cap Pipeline!DriftReasons = Row3.drift
        /\ c.state = "compliant" => DriftReasons(row) \subseteq SoftDrift \X row.reasons
    BY <1>1, <2>6, ReasonsAgree
  <2>9. LET judged == Judge(c.state, row)
            row4 == Pipeline!ReadinessRow(Row3, Summary("outside_target"))
            required == RequiredBlockers(judged)
        IN /\ <<judged.state, judged.applicable>> = <<row4.state, row4.applicable>>
           /\ {IF b.rule_id = 0 THEN Pipeline!PathBlocker ELSE ToString(b.rule_id) : b \in required}
                = row4.blockers
           /\ required # {} => judged.blockers[1] \in required
    BY <1>1, ReadinessAgrees
  <2> HIDE DEF c, row, out
  <2> QED
    BY <2>4, <2>5, <2>6, <2>7, <2>8, <2>9 DEF out
<1>2. Typed /\ ReloadPass /\ ~ (\E t \in targets : TestsLifecycle(t.selector)) => Agrees(ev')
  BY <1>1 DEF ReloadPass, Evaluate, Lifeless
<1>3. Typed =>
        [(ReloadPass /\ ~ \E t \in targets : TestsLifecycle(t.selector)) =>
         LET view == Summary("outside_target")
             o == [firmware |-> obs.newest, on |-> 0]
             row3 == Pipeline!ComplianceRow(view, o, 0)
             row4 == Pipeline!ReadinessRow(row3, view)
             required == RequiredBlockers(ev'.f4)
         IN /\ <<ev'.f3.state, ev'.f3.target, ev'.f3.observed>>
                 = <<row3.state, row3.target, row3.observed>>
            /\ ev'.f3.reasons \cap Pipeline!DriftReasons = row3.drift
            /\ ev'.f3.state = "compliant" => DriftReasons(ev'.f3) \subseteq SoftDrift \X ev'.f3.reasons
            /\ <<ev'.f4.state, ev'.f4.applicable>> = <<row4.state, row4.applicable>>
            /\ {IF b.rule_id = 0 THEN Pipeline!PathBlocker ELSE ToString(b.rule_id) : b \in required}
                 = row4.blockers
            /\ required # {} => ev'.f4.blockers[1] \in required]_vars
  BY <1>2
<1> QED
  BY <1>3, Invariance, PTL DEF PassAgreesWithPipeline
====================================================================================
