------------------------- MODULE DagResolver_proofs -------------------------
(***************************************************************************)
(* Proofs about DagResolver, for templates of any size.                    *)
(*                                                                         *)
(* The functions of the resolver are defined by recursion over the nodes   *)
(* and the edges.  "Recursion" says, of any step given as a function, that *)
(* such a definition defines something, and "Induction" carries a fact     *)
(* along it; both speak of sets and functions only, and rest on the least  *)
(* element of a set of naturals.                                           *)
(***************************************************************************)
EXTENDS DagResolver, FiniteSetTheorems, TLAPS

LEMMA Least ==
  ASSUME NEW K, K \subseteq Nat, K # {}
  PROVE  \E k \in K : \A l \in K : k <= l
  <1>1. PICK k \in K : \A l \in K : ~(<<l, k>> \in OpToRel(<, Nat))
    BY WFMin, NatLessThanWellFounded, Zenon
  <1>2. ASSUME NEW l \in K PROVE k <= l
    <2>1. l \in Nat /\ k \in Nat
      OBVIOUS
    <2>2. ~(<<l, k>> \in OpToRel(<, Nat))
      BY <1>1, Zenon
    <2>3. ~(l < k)
      BY <2>1, <2>2, Zenon DEF OpToRel
    <2> QED
      BY <2>1, <2>3
  <1> QED
    BY <1>2

LEMMA Induction ==
  ASSUME NEW N \in Nat, NEW K, 0 \in K, \A k \in 1..N : k - 1 \in K => k \in K
  PROVE  \A k \in 0..N : k \in K
  <1> SUFFICES ASSUME NEW b \in 0..N, b \notin K PROVE FALSE
    OBVIOUS
  <1> DEFINE Bad == {k \in 0..N : k \notin K}
  <1>1. PICK k \in Bad : \A l \in Bad : k <= l
    <2>1. Bad # {} /\ Bad \subseteq Nat
      OBVIOUS
    <2> HIDE DEF Bad
    <2> QED
      BY <2>1, Least
  <1>2. k # 0 /\ k \in 1..N
    OBVIOUS
  <1>3. k - 1 \in 0..N /\ ~(k <= k - 1)
    BY <1>2
  <1>4. k - 1 \in K
    BY <1>1, <1>3
  <1> QED
    BY <1>2, <1>4

\* f begins with v and goes on by F.
Recurs(N, v, F, f) == f[0] = v /\ \A k \in 1..N : f[k] = F[<<k, f[k-1]>>]

LEMMA Recursion ==
  ASSUME NEW N \in Nat, NEW V, NEW v \in V, NEW F \in [(1..N) \X V -> V]
  PROVE  \E f \in [0..N -> V] : Recurs(N, v, F, f)
  <1> DEFINE Upto(m, f) == f[0] = v /\ \A k \in 1..m : f[k] = F[<<k, f[k-1]>>]
             K == {m \in 0..N : \E f \in [0..m -> V] : Upto(m, f)}
  <1>1. 0 \in K
    <2> DEFINE h == [k \in 0..0 |-> v]
    <2>1. h \in [0..0 -> V] /\ Upto(0, h)
      OBVIOUS
    <2> HIDE DEF h
    <2> QED
      BY <2>1
  <1>2. ASSUME NEW m \in 1..N, m - 1 \in K PROVE m \in K
    <2>1. PICK f \in [0..(m-1) -> V] : Upto(m - 1, f)
      BY <1>2
    <2> DEFINE h == [k \in 0..m |-> IF k = m THEN F[<<m, f[m-1]>>] ELSE f[k]]
    <2>2. f[m-1] \in V
      BY <2>1
    <2>3. h \in [0..m -> V]
      BY <2>2
    <2>4. h[0] = v
      BY <2>1
    <2>5. ASSUME NEW k \in 1..m PROVE h[k] = F[<<k, h[k-1]>>]
      <3>1. h[k-1] = f[k-1]
        OBVIOUS
      <3>2. CASE k = m
        <4>1. h[m] = F[<<m, f[m-1]>>]
          OBVIOUS
        <4> QED
          BY <3>1, <3>2, <4>1
      <3>3. CASE k # m
        <4>1. k \in 1..(m-1) /\ h[k] = f[k]
          BY <3>3
        <4> QED
          BY <2>1, <3>1, <4>1
      <3> QED
        BY <3>2, <3>3
    <2> HIDE DEF h
    <2> QED
      BY <2>3, <2>4, <2>5
  <1>3. N \in K
    <2> HIDE DEF K
    <2> QED
      BY <1>1, <1>2, Induction
  <1> QED
    BY <1>3 DEF Recurs

-----------------------------------------------------------------------------
(* Filtering a sequence.                                                   *)

LEMMA SiftedSteps ==
  ASSUME NEW S, NEW s \in Seq(S), NEW T
  PROVE  /\ Sifted(s, T)[0] = <<>>
         /\ \A k \in 1..Len(s) : Sifted(s, T)[k] =
               IF s[k] \in T THEN Append(Sifted(s, T)[k-1], s[k]) ELSE Sifted(s, T)[k-1]
  <1> DEFINE N == Len(s)
             F == [p \in (1..N) \X Seq(S) |-> IF s[p[1]] \in T THEN Append(p[2], s[p[1]]) ELSE p[2]]
             Is(h) == h = [i \in 0..N |-> IF i = 0 THEN <<>>
                                          ELSE IF s[i] \in T THEN Append(h[i-1], s[i]) ELSE h[i-1]]
  <1>1. N \in Nat /\ \A i \in 1..N : s[i] \in S
    OBVIOUS
  <1>2. F \in [(1..N) \X Seq(S) -> Seq(S)]
    BY <1>1
  <1>3. <<>> \in Seq(S)
    OBVIOUS
  <1>4. ASSUME NEW k \in 1..N, NEW r \in Seq(S)
        PROVE  F[<<k, r>>] = IF s[k] \in T THEN Append(r, s[k]) ELSE r
    OBVIOUS
  <1> HIDE DEF F
  <1>5. \A i \in 1..N : i - 1 \in 0..N /\ i # 0 /\ i \in 0..N
    BY <1>1
  <1> HIDE DEF N
  <1>6. PICK f \in [0..N -> Seq(S)] : Recurs(N, <<>>, F, f)
    BY <1>1, <1>2, <1>3, Recursion, Zenon
  <1>7. ASSUME NEW i \in 0..N
        PROVE  f[i] = IF i = 0 THEN <<>>
                      ELSE IF s[i] \in T THEN Append(f[i-1], s[i]) ELSE f[i-1]
    <2>1. CASE i = 0
      BY <1>6, <2>1 DEF Recurs
    <2>2. CASE i # 0
      <3>1. i \in 1..N
        BY <1>1, <2>2
      <3>2. f[i-1] \in Seq(S)
        BY <1>5, <3>1
      <3>3. f[i] = F[<<i, f[i-1]>>]
        BY <1>6, <3>1 DEF Recurs
      <3> QED
        BY <1>4, <2>2, <3>1, <3>2, <3>3
    <2> QED
      BY <2>1, <2>2
  <1>8. Is(f)
    BY <1>7
  <1>9. Sifted(s, T) = CHOOSE h : Is(h)
    BY Zenon DEF Sifted, N
  <1>10. Is(Sifted(s, T))
    <2> HIDE DEF Is
    <2> QED
      BY <1>8, <1>9
  <1>11. 0 \in 0..N
    BY <1>1
  <1> QED
    BY <1>1, <1>5, <1>10, <1>11 DEF N

\* r is what is in T of the first k elements of s, in their order.
Sifts(s, T, k, r) ==
    /\ \A i \in 1..Len(r) : \E p \in 1..k : r[i] = s[p] /\ s[p] \in T
    /\ \A p \in 1..k : s[p] \in T => \E i \in 1..Len(r) : r[i] = s[p]
    /\ \A i, j \in 1..Len(r) : i < j => \E p, q \in 1..k : p < q /\ r[i] = s[p] /\ r[j] = s[q]

LEMMA SiftsMore ==
  ASSUME NEW S, NEW s \in Seq(S), NEW T, NEW k \in 1..Len(s), NEW r \in Seq(S),
         Sifts(s, T, k - 1, r)
  PROVE  /\ s[k] \notin T => Sifts(s, T, k, r)
         /\ s[k] \in T => Append(r, s[k]) \in Seq(S) /\ Sifts(s, T, k, Append(r, s[k]))
  <1>1. Len(r) \in Nat /\ Len(s) \in Nat /\ s[k] \in S /\ \A p \in 1..(k-1) : p \in 1..k
    OBVIOUS
  <1>2. \A p \in 1..k : p = k \/ p \in 1..(k-1)
    OBVIOUS
  <1>3. ASSUME s[k] \notin T PROVE Sifts(s, T, k, r)
    BY <1>1, <1>2, <1>3 DEF Sifts
  <1>4. ASSUME s[k] \in T PROVE Append(r, s[k]) \in Seq(S) /\ Sifts(s, T, k, Append(r, s[k]))
    <2> DEFINE t == Append(r, s[k])
    <2>1. /\ t \in Seq(S) /\ Len(t) = Len(r) + 1 /\ t[Len(r) + 1] = s[k]
          /\ \A i \in 1..Len(r) : t[i] = r[i]
      BY <1>1
    <2> HIDE DEF t
    <2>2. \A i \in 1..Len(t) : i = Len(r) + 1 \/ i \in 1..Len(r)
      BY <1>1, <2>1
    <2>3. ASSUME NEW i \in 1..Len(t) PROVE \E p \in 1..k : t[i] = s[p] /\ s[p] \in T
      <3>1. CASE i = Len(r) + 1
        <4>1. k \in 1..k
          BY <1>1
        <4> QED
          BY <1>4, <2>1, <3>1, <4>1
      <3>2. CASE i \in 1..Len(r)
        <4>1. PICK p \in 1..(k-1) : r[i] = s[p] /\ s[p] \in T
          BY <3>2 DEF Sifts
        <4> QED
          BY <1>1, <2>1, <3>2, <4>1
      <3> QED
        BY <2>2, <3>1, <3>2
    <2>4. ASSUME NEW p \in 1..k, s[p] \in T PROVE \E i \in 1..Len(t) : t[i] = s[p]
      <3>1. CASE p = k
        <4>1. Len(r) + 1 \in 1..Len(t)
          BY <1>1, <2>1
        <4> QED
          BY <2>1, <3>1, <4>1
      <3>2. CASE p \in 1..(k-1)
        <4>1. PICK i \in 1..Len(r) : r[i] = s[p]
          BY <2>4, <3>2 DEF Sifts
        <4>2. i \in 1..Len(t) /\ t[i] = r[i]
          BY <1>1, <2>1
        <4> QED
          BY <4>1, <4>2
      <3> QED
        BY <1>2, <3>1, <3>2
    <2>5. ASSUME NEW i \in 1..Len(t), NEW j \in 1..Len(t), i < j
          PROVE  \E p, q \in 1..k : p < q /\ t[i] = s[p] /\ t[j] = s[q]
      <3>1. i \in 1..Len(r) /\ t[i] = r[i]
        BY <1>1, <2>1, <2>5
      <3>2. CASE j = Len(r) + 1
        <4>1. PICK p \in 1..(k-1) : r[i] = s[p]
          BY <3>1 DEF Sifts
        <4>2. p < k /\ p \in 1..k /\ k \in 1..k
          BY <1>1
        <4> QED
          BY <2>1, <3>1, <3>2, <4>1, <4>2
      <3>3. CASE j \in 1..Len(r)
        <4>1. PICK p, q \in 1..(k-1) : p < q /\ r[i] = s[p] /\ r[j] = s[q]
          BY <2>5, <3>1, <3>3 DEF Sifts
        <4> QED
          BY <1>1, <2>1, <3>1, <3>3, <4>1
      <3> QED
        BY <2>2, <3>2, <3>3
    <2>6. Sifts(s, T, k, t)
      BY <2>3, <2>4, <2>5 DEF Sifts
    <2> QED
      BY <2>1, <2>6 DEF t
  <1> QED
    BY <1>3, <1>4

\* Among keeps what is in T, in its order.
LEMMA AmongIs ==
  ASSUME NEW S, NEW s \in Seq(S), NEW T
  PROVE  /\ Among(s, T) \in Seq(S)
         /\ ToSet(Among(s, T)) = ToSet(s) \cap T
         /\ \A i, j \in DOMAIN Among(s, T) : i < j =>
               \E p, q \in DOMAIN s : p < q /\ Among(s, T)[i] = s[p] /\ Among(s, T)[j] = s[q]
  <1> DEFINE K == {m \in 0..Len(s) : Sifted(s, T)[m] \in Seq(S) /\ Sifts(s, T, m, Sifted(s, T)[m])}
  <1>1. Len(s) \in Nat /\ DOMAIN s = 1..Len(s)
    OBVIOUS
  <1>2. 0 \in K
    <2>1. Sifts(s, T, 0, <<>>) /\ <<>> \in Seq(S)
      BY DEF Sifts
    <2>2. Sifted(s, T)[0] = <<>> /\ 0 \in 0..Len(s)
      BY <1>1, SiftedSteps
    <2> QED
      BY <2>1, <2>2
  <1>3. ASSUME NEW k \in 1..Len(s), k - 1 \in K PROVE k \in K
    <2>1. k \in 0..Len(s) /\ Sifted(s, T)[k-1] \in Seq(S) /\ Sifts(s, T, k - 1, Sifted(s, T)[k-1])
      BY <1>1, <1>3
    <2>2. CASE s[k] \in T
      <3>1. Sifted(s, T)[k] = Append(Sifted(s, T)[k-1], s[k])
        BY <2>2, SiftedSteps
      <3> QED
        BY <2>1, <2>2, <3>1, SiftsMore
    <2>3. CASE s[k] \notin T
      <3>1. Sifted(s, T)[k] = Sifted(s, T)[k-1]
        BY <2>3, SiftedSteps
      <3> QED
        BY <2>1, <2>3, <3>1, SiftsMore
    <2> QED
      BY <2>2, <2>3
  <1>4. Len(s) \in K
    <2> HIDE DEF K
    <2>1. \A k \in 0..Len(s) : k \in K
      BY <1>1, <1>2, <1>3, Induction
    <2> QED
      BY <1>1, <2>1
  <1> DEFINE r == Among(s, T)
  <1>5. r \in Seq(S) /\ Sifts(s, T, Len(s), r)
    BY <1>4 DEF Among
  <1> HIDE DEF r, K
  <1>6. DOMAIN r = 1..Len(r)
    BY <1>5
  <1>7. ToSet(r) = ToSet(s) \cap T
    <2>1. ASSUME NEW x \in ToSet(r) PROVE x \in ToSet(s) \cap T
      <3>1. PICK i \in 1..Len(r) : x = r[i]
        BY <1>6 DEF ToSet
      <3>2. PICK p \in 1..Len(s) : r[i] = s[p] /\ s[p] \in T
        BY <1>5, <3>1 DEF Sifts
      <3> QED
        BY <1>1, <3>1, <3>2 DEF ToSet
    <2>2. ASSUME NEW x \in ToSet(s) \cap T PROVE x \in ToSet(r)
      <3>1. PICK p \in 1..Len(s) : x = s[p]
        BY <1>1 DEF ToSet
      <3>2. PICK i \in 1..Len(r) : r[i] = s[p]
        BY <1>5, <3>1 DEF Sifts
      <3> QED
        BY <1>6, <3>1, <3>2 DEF ToSet
    <2> QED
      BY <2>1, <2>2
  <1>8. ASSUME NEW i \in DOMAIN r, NEW j \in DOMAIN r, i < j
        PROVE  \E p, q \in DOMAIN s : p < q /\ r[i] = s[p] /\ r[j] = s[q]
    <2>1. i \in 1..Len(r) /\ j \in 1..Len(r)
      BY <1>6
    <2>2. PICK p, q \in 1..Len(s) : p < q /\ r[i] = s[p] /\ r[j] = s[q]
      BY <1>5, <1>8, <2>1 DEF Sifts
    <2> QED
      BY <1>1, <2>2
  <1> QED
    BY <1>5, <1>7, <1>8 DEF r

\* ... without repetition, when there is none.
LEMMA AmongInjective ==
  ASSUME NEW S, NEW s \in Seq(S), NEW T, IsInjective(s)
  PROVE  IsInjective(Among(s, T))
  <1> DEFINE r == Among(s, T)
  <1>1. /\ r \in Seq(S)
        /\ \A i, j \in DOMAIN r : i < j =>
              \E p, q \in DOMAIN s : p < q /\ r[i] = s[p] /\ r[j] = s[q]
    BY AmongIs
  <1> HIDE DEF r
  <1>2. ASSUME NEW i \in DOMAIN r, NEW j \in DOMAIN r, i < j PROVE r[i] # r[j]
    BY <1>1, <1>2 DEF IsInjective
  <1>3. ASSUME NEW i \in DOMAIN r, NEW j \in DOMAIN r, r[i] = r[j] PROVE i = j
    <2>1. i \in Int /\ j \in Int
      BY <1>1
    <2>2. ~(i < j) /\ ~(j < i)
      BY <1>2, <1>3
    <2> QED
      BY <2>1, <2>2
  <1>4. IsInjective(r)
    BY <1>3 DEF IsInjective
  <1> QED
    BY <1>4 DEF r

-----------------------------------------------------------------------------
(* Sequences without repetition, and templates.                            *)

LEMMA CountInjective ==
  ASSUME NEW S, NEW s \in Seq(S), IsInjective(s)
  PROVE  IsFiniteSet(ToSet(s)) /\ Cardinality(ToSet(s)) = Len(s)
  <1>1. DOMAIN s = 1..Len(s) /\ Len(s) \in Nat
    OBVIOUS
  <1>2. s \in [1..Len(s) -> ToSet(s)]
    BY <1>1 DEF ToSet
  <1>3. \A t \in ToSet(s) : \E i \in 1..Len(s) : s[i] = t
    BY <1>1 DEF ToSet
  <1>4. s \in Injection(1..Len(s), ToSet(s)) /\ s \in Surjection(1..Len(s), ToSet(s))
    BY <1>2, <1>3 DEF Injection, Surjection
  <1>5. IsFiniteSet(1..Len(s)) /\ Cardinality(1..Len(s)) = Len(s)
    BY <1>1, FS_Interval
  <1> QED
    BY <1>4, <1>5, FS_Surjection

\* It is no longer than the set it comes from, and as long only when it has all of it.
LEMMA WithinSet ==
  ASSUME NEW S, IsFiniteSet(S), NEW s \in Seq(S), IsInjective(s)
  PROVE  Len(s) <= Cardinality(S) /\ (Len(s) = Cardinality(S) <=> ToSet(s) = S)
  <1>1. ToSet(s) \subseteq S
    BY DEF ToSet
  <1> QED
    BY <1>1, CountInjective, FS_Subset

\* A template that can be sorted: every edge has both its ends.
Sortable(g) == IsTemplate(g) /\ ~HasDangling(g)

LEMMA NodeFacts ==
  ASSUME NEW g, IsTemplate(g)
  PROVE  /\ g.nodes \in Seq(Ids(g)) /\ Len(g.nodes) \in Nat
         /\ IsFiniteSet(Ids(g)) /\ Cardinality(Ids(g)) = Len(g.nodes)
         /\ g.edges \in Seq(Edges(g)) /\ Len(g.edges) \in Nat /\ DOMAIN g.edges = 1..Len(g.edges)
  <1>1. g.nodes \in Seq(Ids(g)) /\ g.edges \in Seq(Edges(g)) /\ IsInjective(g.nodes)
    BY DEF IsTemplate
  <1> QED
    BY <1>1, CountInjective DEF Ids

LEMMA EdgeFacts ==
  ASSUME NEW g, Sortable(g)
  PROVE  /\ \A i \in 1..Len(g.edges) : g.edges[i][1] \in Ids(g) /\ g.edges[i][2] \in Ids(g)
         /\ \A i \in 1..Len(g.edges) : g.edges[i] \in Edges(g)
         /\ \A m, n : <<m, n>> \in Edges(g) <=>
               \E i \in 1..Len(g.edges) : g.edges[i][1] = m /\ g.edges[i][2] = n
         /\ \A m, n : m \in NodeParents(g, n) <=> <<m, n>> \in Edges(g)
         /\ \A m, n : n \in NodeChildren(g, m) <=> <<m, n>> \in Edges(g)
         /\ \A e \in Edges(g) : e = <<e[1], e[2]>> /\ e[1] \in Ids(g) /\ e[2] \in Ids(g)
  <1>1. DOMAIN g.edges = 1..Len(g.edges) /\ \A e \in Edges(g) : e = <<e[1], e[2]>>
    BY NodeFacts DEF Sortable, IsTemplate
  <1>2. \A e \in Edges(g) : e[1] \in Ids(g) /\ e[2] \in Ids(g)
    BY DEF Sortable, HasDangling
  <1>3. \A i \in 1..Len(g.edges) : g.edges[i] \in Edges(g)
    BY <1>1 DEF Edges, ToSet
  <1>4. \A e \in Edges(g) : \E i \in 1..Len(g.edges) : g.edges[i] = e
    BY <1>1 DEF Edges, ToSet
  <1>5. ASSUME NEW m, NEW n
        PROVE  <<m, n>> \in Edges(g) <=>
                  \E i \in 1..Len(g.edges) : g.edges[i][1] = m /\ g.edges[i][2] = n
    <2>1. ASSUME <<m, n>> \in Edges(g)
          PROVE  \E i \in 1..Len(g.edges) : g.edges[i][1] = m /\ g.edges[i][2] = n
      BY <1>4, <2>1
    <2>2. ASSUME NEW i \in 1..Len(g.edges), g.edges[i][1] = m, g.edges[i][2] = n
          PROVE  <<m, n>> \in Edges(g)
      BY <1>1, <1>3, <2>2
    <2> QED
      BY <2>1, <2>2
  <1>6. ASSUME NEW m, NEW n PROVE m \in NodeParents(g, n) <=> <<m, n>> \in Edges(g)
    BY <1>1 DEF NodeParents
  <1>7. ASSUME NEW m, NEW n PROVE n \in NodeChildren(g, m) <=> <<m, n>> \in Edges(g)
    BY <1>1 DEF NodeChildren
  <1> QED
    BY <1>1, <1>2, <1>3, <1>5, <1>6, <1>7

-----------------------------------------------------------------------------
(* Kahn's algorithm.                                                       *)

State(g) == [degree : [Ids(g) -> Int], line : Seq(Ids(g))]

LEMMA ReleaseType ==
  ASSUME NEW g, NEW s \in State(g), NEW c \in Ids(g)
  PROVE  Release(s, c) \in State(g)
  <1>1. s.degree \in [Ids(g) -> Int] /\ s.line \in Seq(Ids(g)) /\ s.degree[c] \in Int
    BY DEF State
  <1>2. [s.degree EXCEPT ![c] = @ - 1] \in [Ids(g) -> Int]
    BY <1>1
  <1>3. (IF s.degree[c] = 1 THEN Append(s.line, c) ELSE s.line) \in Seq(Ids(g))
    BY <1>1
  <1> QED
    BY <1>2, <1>3 DEF Release, State

LEMMA ReleasesSteps ==
  ASSUME NEW g, Sortable(g), NEW s \in State(g), NEW node
  PROVE  /\ Releases(g, s, node)[0] = s
         /\ \A k \in 1..Len(g.edges) : Releases(g, s, node)[k] =
               IF g.edges[k][1] = node THEN Release(Releases(g, s, node)[k-1], g.edges[k][2])
               ELSE Releases(g, s, node)[k-1]
         /\ \A k \in 0..Len(g.edges) : Releases(g, s, node)[k] \in State(g)
  <1> DEFINE N == Len(g.edges)
             V == State(g)
             F == [p \in (1..N) \X V |-> IF g.edges[p[1]][1] = node
                                         THEN Release(p[2], g.edges[p[1]][2]) ELSE p[2]]
             Is(h) == h = [i \in 0..N |-> IF i = 0 THEN s
                                          ELSE IF g.edges[i][1] = node
                                               THEN Release(h[i-1], g.edges[i][2]) ELSE h[i-1]]
  <1>1. N \in Nat /\ \A i \in 1..N : g.edges[i][2] \in Ids(g)
    BY NodeFacts, EdgeFacts DEF Sortable
  <1>2. F \in [(1..N) \X V -> V]
    BY <1>1, ReleaseType
  <1>3. s \in V
    OBVIOUS
  <1>4. ASSUME NEW k \in 1..N, NEW r \in V
        PROVE  F[<<k, r>>] = IF g.edges[k][1] = node THEN Release(r, g.edges[k][2]) ELSE r
    OBVIOUS
  <1> HIDE DEF F
  <1>5. \A i \in 1..N : i - 1 \in 0..N /\ i # 0 /\ i \in 0..N
    BY <1>1
  <1> HIDE DEF N, V
  <1>6. PICK f \in [0..N -> V] : Recurs(N, s, F, f)
    BY <1>1, <1>2, <1>3, Recursion, Zenon
  <1>7. ASSUME NEW i \in 0..N
        PROVE  f[i] = IF i = 0 THEN s
                      ELSE IF g.edges[i][1] = node
                           THEN Release(f[i-1], g.edges[i][2]) ELSE f[i-1]
    <2>1. CASE i = 0
      BY <1>6, <2>1 DEF Recurs
    <2>2. CASE i # 0
      <3>1. i \in 1..N
        BY <1>1, <2>2
      <3>2. f[i-1] \in V
        BY <1>5, <3>1
      <3>3. f[i] = F[<<i, f[i-1]>>]
        BY <1>6, <3>1 DEF Recurs
      <3> QED
        BY <1>4, <2>2, <3>1, <3>2, <3>3
    <2> QED
      BY <2>1, <2>2
  <1>8. Is(f)
    BY <1>7
  <1>9. Releases(g, s, node) = CHOOSE h : Is(h)
    BY Zenon DEF Releases, N
  <1>10. Is(Releases(g, s, node))
    <2> HIDE DEF Is
    <2> QED
      BY <1>8, <1>9
  <1>11. 0 \in 0..N
    BY <1>1
  <1> DEFINE h == Releases(g, s, node)
  <1>12. /\ h[0] = s
         /\ \A k \in 1..N : h[k] = IF g.edges[k][1] = node
                                   THEN Release(h[k-1], g.edges[k][2]) ELSE h[k-1]
    BY <1>5, <1>10, <1>11
  <1> HIDE DEF h
  <1>13. \A k \in 0..N : h[k] \in V
    <2> DEFINE K == {k \in 0..N : h[k] \in V}
    <2>1. 0 \in K
      BY <1>3, <1>11, <1>12
    <2>2. ASSUME NEW k \in 1..N, k - 1 \in K PROVE k \in K
      BY <1>1, <1>5, <1>12, <2>2, ReleaseType DEF V
    <2> HIDE DEF K
    <2>3. \A k \in 0..N : k \in K
      BY <1>1, <2>1, <2>2, Induction
    <2> QED
      BY <2>3 DEF K
  <1> QED
    BY <1>12, <1>13 DEF N, V, h


\* Each node of the line comes after all of its parents.
Sorted(g, line) ==
    \A j \in 1..Len(line) : \A m : <<m, line[j]>> \in Edges(g) =>
        \E i \in 1..(j-1) : line[i] = m

\* The edges at the places in R have been removed; what is free of the others
\* has entered the line.
Right(g, s, R) ==
    /\ s \in State(g)
    /\ R \subseteq 1..Len(g.edges)
    /\ \A i \in R : g.edges[i][1] \in ToSet(s.line)
    /\ \A n \in Ids(g) : s.degree[n] = Cardinality(Arrivals(g, n) \ R)
    /\ \A n \in Ids(g) : n \in ToSet(s.line) <=> Arrivals(g, n) \ R = {}
    /\ IsInjective(s.line)
    /\ Sorted(g, s.line)

Begins(line, longer) ==
    Len(line) <= Len(longer) /\ \A j \in 1..Len(line) : longer[j] = line[j]

LEMMA ArrivalsFinite ==
  ASSUME NEW g, IsTemplate(g), NEW n, NEW R
  PROVE  IsFiniteSet(Arrivals(g, n) \ R) /\ Arrivals(g, n) \subseteq 1..Len(g.edges)
  <1>1. Arrivals(g, n) \subseteq 1..Len(g.edges) /\ Len(g.edges) \in Nat
    BY NodeFacts DEF Arrivals
  <1>2. IsFiniteSet(1..Len(g.edges))
    BY <1>1, FS_Interval
  <1>3. Arrivals(g, n) \ R \subseteq 1..Len(g.edges)
    BY <1>1
  <1> QED
    BY <1>1, <1>2, <1>3, FS_Subset

LEMMA AppendSorted ==
  ASSUME NEW g, NEW L \in Seq(Ids(g)), NEW c \in Ids(g), IsInjective(L), Sorted(g, L),
         c \notin ToSet(L), \A m : <<m, c>> \in Edges(g) => m \in ToSet(L)
  PROVE  /\ Append(L, c) \in Seq(Ids(g))
         /\ ToSet(Append(L, c)) = ToSet(L) \cup {c}
         /\ IsInjective(Append(L, c))
         /\ Sorted(g, Append(L, c))
         /\ Begins(L, Append(L, c))
  <1> DEFINE t == Append(L, c)
  <1>1. /\ t \in Seq(Ids(g)) /\ Len(t) = Len(L) + 1 /\ t[Len(L) + 1] = c
        /\ \A i \in 1..Len(L) : t[i] = L[i]
        /\ Len(L) \in Nat /\ DOMAIN L = 1..Len(L) /\ DOMAIN t = 1..Len(t)
    OBVIOUS
  <1> HIDE DEF t
  <1>2. \A i \in 1..Len(t) : i = Len(L) + 1 \/ i \in 1..Len(L)
    BY <1>1
  <1>3. \A i \in 1..Len(L) : i \in 1..Len(t) /\ Len(L) + 1 \in 1..Len(t)
    BY <1>1
  <1>4. ToSet(t) = ToSet(L) \cup {c}
    <2>1. ASSUME NEW x \in ToSet(t) PROVE x \in ToSet(L) \cup {c}
      <3>1. PICK i \in 1..Len(t) : x = t[i]
        BY <1>1 DEF ToSet
      <3> QED
        BY <1>1, <1>2, <3>1 DEF ToSet
    <2>2. ASSUME NEW x \in ToSet(L) PROVE x \in ToSet(t)
      <3>1. PICK i \in 1..Len(L) : x = L[i]
        BY <1>1 DEF ToSet
      <3> QED
        BY <1>1, <1>3, <3>1 DEF ToSet
    <2>3. c \in ToSet(t)
      <3>1. Len(L) + 1 \in DOMAIN t
        BY <1>1
      <3> QED
        BY <1>1, <3>1 DEF ToSet
    <2> QED
      BY <2>1, <2>2, <2>3
  <1>5. IsInjective(t)
    <2>1. \A i \in 1..Len(L) : L[i] # c
      BY <1>1 DEF ToSet
    <2>2. \A i, j \in 1..Len(L) : L[i] = L[j] => i = j
      BY <1>1 DEF IsInjective
    <2>3. ASSUME NEW i \in 1..Len(t), NEW j \in 1..Len(t), t[i] = t[j] PROVE i = j
      BY <1>1, <1>2, <2>1, <2>2, <2>3
    <2> QED
      BY <1>1, <2>3 DEF IsInjective
  <1>6. Sorted(g, t)
    <2>1. ASSUME NEW j \in 1..Len(t), NEW m, <<m, t[j]>> \in Edges(g)
          PROVE  \E i \in 1..(j-1) : t[i] = m
      <3>1. CASE j = Len(L) + 1
        <4>1. PICK i \in 1..Len(L) : L[i] = m
          <5>1. m \in ToSet(L)
            BY <1>1, <2>1, <3>1
          <5> QED
            BY <1>1, <5>1 DEF ToSet
        <4>2. i \in 1..(j-1)
          BY <1>1, <3>1
        <4> QED
          BY <1>1, <4>1, <4>2
      <3>2. CASE j \in 1..Len(L)
        <4>1. PICK i \in 1..(j-1) : L[i] = m
          BY <1>1, <2>1, <3>2 DEF Sorted
        <4>2. i \in 1..Len(L)
          BY <1>1, <3>2
        <4> QED
          BY <1>1, <4>1, <4>2
      <3> QED
        BY <1>2, <3>1, <3>2
    <2> QED
      BY <2>1 DEF Sorted
  <1>7. Begins(L, t)
    BY <1>1 DEF Begins
  <1> QED
    BY <1>1, <1>4, <1>5, <1>6, <1>7 DEF t

\* One more edge is removed, out of a node of the line.
LEMMA ReleaseKeeps ==
  ASSUME NEW g, Sortable(g), NEW s, NEW R, Right(g, s, R),
         NEW i \in 1..Len(g.edges), i \notin R, g.edges[i][1] \in ToSet(s.line)
  PROVE  /\ Right(g, Release(s, g.edges[i][2]), R \cup {i})
         /\ Begins(s.line, Release(s, g.edges[i][2]).line)
  <1> DEFINE c == g.edges[i][2]
             t == Release(s, c)
             Q == R \cup {i}
  <1>1. /\ s \in State(g) /\ c \in Ids(g) /\ t \in State(g) /\ s.line \in Seq(Ids(g))
        /\ s.degree \in [Ids(g) -> Int]
    BY EdgeFacts, ReleaseType DEF Right, State
  <1>2. DOMAIN g.edges = 1..Len(g.edges) /\ IsTemplate(g)
    BY NodeFacts DEF Sortable
  <1>3. i \in Arrivals(g, c) \ R
    BY <1>2 DEF Arrivals
  <1>4. c \notin ToSet(s.line)
    BY <1>1, <1>3 DEF Right
  <1>5. ASSUME NEW n \in Ids(g), n # c PROVE Arrivals(g, n) \ Q = Arrivals(g, n) \ R
    <2>1. i \notin Arrivals(g, n)
      BY <1>5 DEF Arrivals
    <2> QED
      BY <2>1
  <1>6. /\ Cardinality(Arrivals(g, c) \ Q) = Cardinality(Arrivals(g, c) \ R) - 1
        /\ IsFiniteSet(Arrivals(g, c) \ Q)
        /\ Cardinality(Arrivals(g, c) \ R) \in Nat
    <2> DEFINE A == Arrivals(g, c) \ R
    <2>1. Arrivals(g, c) \ Q = A \ {i} /\ i \in A
      BY <1>3
    <2>2. IsFiniteSet(A)
      BY <1>2, ArrivalsFinite
    <2> HIDE DEF A
    <2>3. IsFiniteSet(A \ {i}) /\ Cardinality(A \ {i}) = Cardinality(A) - 1
      BY <2>1, <2>2, FS_RemoveElement
    <2>4. Cardinality(A) \in Nat
      BY <2>2, FS_CardinalityType
    <2>5. Cardinality(Arrivals(g, c) \ Q) = Cardinality(A) - 1 /\ IsFiniteSet(Arrivals(g, c) \ Q)
      BY <2>1, <2>3, Zenon
    <2> QED
      BY <2>4, <2>5 DEF A
  <1>7. s.degree[c] = Cardinality(Arrivals(g, c) \ R)
    BY <1>1 DEF Right
  <1>8. s.degree[c] = 1 <=> Arrivals(g, c) \ Q = {}
    <2>1. Cardinality(Arrivals(g, c) \ Q) = 0 <=> Arrivals(g, c) \ Q = {}
      BY <1>6, FS_EmptySet
    <2> QED
      BY <1>6, <1>7, <2>1
  <1>9. /\ t.degree = [s.degree EXCEPT ![c] = @ - 1]
        /\ t.line = IF s.degree[c] = 1 THEN Append(s.line, c) ELSE s.line
    BY DEF Release
  <1>10. \A n \in Ids(g) : t.degree[n] = Cardinality(Arrivals(g, n) \ Q)
    <2>1. t.degree[c] = s.degree[c] - 1
      BY <1>1, <1>9
    <2>2. \A n \in Ids(g) : n # c => t.degree[n] = s.degree[n]
      BY <1>1, <1>9
    <2>3. \A n \in Ids(g) : n # c => s.degree[n] = Cardinality(Arrivals(g, n) \ R)
      BY DEF Right
    <2> HIDE DEF c, t, Q
    <2> QED
      BY <1>5, <1>6, <1>7, <2>1, <2>2, <2>3
  <1>11. Q \subseteq 1..Len(g.edges)
    BY DEF Right
  <1>12. \A k \in Q : g.edges[k][1] \in ToSet(s.line)
    BY DEF Right
  <1>13. CASE s.degree[c] = 1
    <2>1. ASSUME NEW m, <<m, c>> \in Edges(g) PROVE m \in ToSet(s.line)
      <3>1. PICK k \in 1..Len(g.edges) : g.edges[k][1] = m /\ g.edges[k][2] = c
        BY <2>1, EdgeFacts
      <3>2. k \in Arrivals(g, c)
        BY <1>2, <3>1 DEF Arrivals
      <3>3. k \in Q
        BY <1>8, <1>13, <3>2
      <3> QED
        BY <1>12, <3>1, <3>3
    <2>2. t.line = Append(s.line, c)
      BY <1>9, <1>13
    <2>3. IsInjective(s.line) /\ Sorted(g, s.line)
      BY DEF Right
    <2> HIDE DEF c, t, Q
    <2>4. /\ ToSet(t.line) = ToSet(s.line) \cup {c}
          /\ IsInjective(t.line) /\ Sorted(g, t.line) /\ Begins(s.line, t.line)
      BY <1>1, <1>4, <2>1, <2>2, <2>3, AppendSorted
    <2>5. ASSUME NEW n \in Ids(g) PROVE n \in ToSet(t.line) <=> Arrivals(g, n) \ Q = {}
      <3>1. CASE n = c
        BY <1>8, <1>13, <2>4, <3>1
      <3>2. CASE n # c
        <4>1. n \in ToSet(s.line) <=> Arrivals(g, n) \ R = {}
          BY DEF Right
        <4> QED
          BY <1>5, <2>4, <3>2, <4>1
      <3> QED
        BY <3>1, <3>2
    <2>6. \A k \in Q : g.edges[k][1] \in ToSet(t.line)
      BY <1>12, <2>4
    <2>7. Right(g, t, Q)
      BY <1>1, <1>10, <1>11, <2>4, <2>5, <2>6 DEF Right
    <2> QED
      BY <2>4, <2>7 DEF c, t, Q
  <1>14. CASE s.degree[c] # 1
    <2>1. t.line = s.line
      BY <1>9, <1>14
    <2>2. Begins(s.line, t.line)
      <3>1. Len(s.line) <= Len(s.line)
        BY <1>1
      <3> QED
        BY <2>1, <3>1 DEF Begins
    <2> HIDE DEF c, t, Q
    <2>3. ASSUME NEW n \in Ids(g) PROVE n \in ToSet(t.line) <=> Arrivals(g, n) \ Q = {}
      <3>1. CASE n = c
        BY <1>4, <1>8, <1>14, <2>1, <3>1
      <3>2. CASE n # c
        <4>1. n \in ToSet(s.line) <=> Arrivals(g, n) \ R = {}
          BY DEF Right
        <4> QED
          BY <1>5, <2>1, <3>2, <4>1
      <3> QED
        BY <3>1, <3>2
    <2>4. IsInjective(t.line) /\ Sorted(g, t.line) /\ \A k \in Q : g.edges[k][1] \in ToSet(t.line)
      BY <1>12, <2>1 DEF Right
    <2>5. Right(g, t, Q)
      BY <1>1, <1>10, <1>11, <2>3, <2>4 DEF Right
    <2> QED
      BY <2>2, <2>5 DEF c, t, Q
  <1> QED
    BY <1>13, <1>14

LEMMA BeginsOn ==
  ASSUME NEW S, NEW L \in Seq(S), NEW M \in Seq(S), NEW P \in Seq(S),
         Begins(L, M), Begins(M, P)
  PROVE  Begins(L, P) /\ ToSet(L) \subseteq ToSet(M)
  <1>1. Len(L) \in Nat /\ Len(M) \in Nat /\ Len(P) \in Nat
        /\ DOMAIN L = 1..Len(L) /\ DOMAIN M = 1..Len(M)
    OBVIOUS
  <1>2. \A j \in 1..Len(L) : j \in 1..Len(M) /\ M[j] = L[j]
    BY <1>1 DEF Begins
  <1>3. ToSet(L) \subseteq ToSet(M)
    <2>1. ASSUME NEW j \in 1..Len(L) PROVE L[j] \in ToSet(M)
      <3>1. j \in DOMAIN M /\ M[j] = L[j]
        BY <1>1, <1>2
      <3> QED
        BY <3>1 DEF ToSet
    <2> QED
      BY <1>1, <2>1 DEF ToSet
  <1>4. Begins(L, P)
    BY <1>1, <1>2 DEF Begins
  <1> QED
    BY <1>3, <1>4

LEMMA BeginsItself ==
  ASSUME NEW S, NEW L \in Seq(S)
  PROVE  Begins(L, L)
  BY DEF Begins

\* The places of the edges out of D.
Out(g, D) == {i \in 1..Len(g.edges) : g.edges[i][1] \in D}

LEMMA TurnKeeps ==
  ASSUME NEW g, Sortable(g), NEW s, NEW D, Right(g, s, Out(g, D)),
         NEW node \in ToSet(s.line), node \notin D
  PROVE  /\ Turn(g, s, node) \in State(g)
         /\ Right(g, Turn(g, s, node), Out(g, D \cup {node}))
         /\ Begins(s.line, Turn(g, s, node).line)
  <1> DEFINE N == Len(g.edges)
             h == Releases(g, s, node)
             Gone(k) == Out(g, D) \cup {i \in 1..k : g.edges[i][1] = node}
             K == {k \in 0..N : Right(g, h[k], Gone(k)) /\ Begins(s.line, h[k].line)}
  <1>1. s \in State(g) /\ s.line \in Seq(Ids(g))
    BY DEF Right, State
  <1>2. N \in Nat
    BY NodeFacts DEF Sortable
  <1>3. /\ h[0] = s
        /\ \A k \in 1..N : h[k] = IF g.edges[k][1] = node
                                  THEN Release(h[k-1], g.edges[k][2]) ELSE h[k-1]
        /\ \A k \in 0..N : h[k] \in State(g)
    BY <1>1, ReleasesSteps
  <1> HIDE DEF h
  <1>4. 0 \in K
    <2>1. Gone(0) = Out(g, D)
      OBVIOUS
    <2>2. Begins(s.line, h[0].line)
      BY <1>1, <1>3, BeginsItself
    <2>3. Right(g, h[0], Gone(0))
      BY <1>3, <2>1
    <2> QED
      BY <1>2, <2>2, <2>3
  <1>5. ASSUME NEW k \in 1..N, k - 1 \in K PROVE k \in K
    <2>1. Right(g, h[k-1], Gone(k-1)) /\ Begins(s.line, h[k-1].line)
      BY <1>5
    <2>2. h[k-1] \in State(g) /\ h[k] \in State(g) /\ k \in 0..N
      BY <1>2, <1>3
    <2>3. h[k-1].line \in Seq(Ids(g)) /\ h[k].line \in Seq(Ids(g))
      BY <2>2 DEF State
    <2>4. CASE g.edges[k][1] = node
      <3>1. h[k] = Release(h[k-1], g.edges[k][2])
        BY <1>3, <2>4
      <3>2. Gone(k) = Gone(k-1) \cup {k}
        <4>1. \A i \in 1..k : i = k \/ i \in 1..(k-1)
          BY <1>2
        <4>2. \A i \in 1..(k-1) : i \in 1..k
          BY <1>2
        <4>3. k \in 1..k
          BY <1>2
        <4> QED
          BY <2>4, <4>1, <4>2, <4>3
      <3>3. k \notin Gone(k-1)
        <4>1. k \notin 1..(k-1)
          BY <1>2
        <4>2. k \notin Out(g, D)
          BY <2>4 DEF Out
        <4> QED
          BY <4>1, <4>2
      <3>4. g.edges[k][1] \in ToSet(h[k-1].line)
        <4>1. ToSet(s.line) \subseteq ToSet(h[k-1].line)
          BY <1>1, <2>1, <2>3, BeginsItself, BeginsOn
        <4> QED
          BY <2>4, <4>1
      <3> HIDE DEF Gone
      <3>5. Right(g, h[k], Gone(k)) /\ Begins(h[k-1].line, h[k].line)
        <4> DEFINE before == h[k-1]
                   R == Gone(k-1)
        <4>1. Right(g, before, R) /\ k \notin R /\ g.edges[k][1] \in ToSet(before.line)
          BY <2>1, <3>3, <3>4
        <4> HIDE DEF before, R
        <4>2. /\ Right(g, Release(before, g.edges[k][2]), R \cup {k})
              /\ Begins(before.line, Release(before, g.edges[k][2]).line)
          BY <4>1, ReleaseKeeps
        <4> QED
          BY <3>1, <3>2, <4>2, Zenon DEF before, R
      <3>6. Begins(s.line, h[k].line)
        BY <1>1, <2>1, <2>3, <3>5, BeginsOn
      <3> QED
        BY <2>2, <3>5, <3>6
    <2>5. CASE g.edges[k][1] # node
      <3>1. h[k] = h[k-1]
        BY <1>3, <2>5
      <3>2. Gone(k) = Gone(k-1)
        <4>1. \A i \in 1..k : i = k \/ i \in 1..(k-1)
          BY <1>2
        <4>2. \A i \in 1..(k-1) : i \in 1..k
          BY <1>2
        <4> QED
          BY <2>5, <4>1, <4>2
      <3> HIDE DEF Gone
      <3> QED
        BY <2>1, <2>2, <3>1, <3>2
    <2> QED
      BY <2>4, <2>5
  <1>6. N \in K
    <2> HIDE DEF K
    <2>1. \A k \in 0..N : k \in K
      BY <1>2, <1>4, <1>5, Induction
    <2> QED
      BY <1>2, <2>1
  <1>7. Gone(N) = Out(g, D \cup {node})
    BY DEF Out
  <1>8. Turn(g, s, node) = h[N]
    BY DEF Turn, h
  <1>9. h[N] \in State(g)
    BY <1>2, <1>3
  <1>10. Right(g, h[N], Out(g, D \cup {node})) /\ Begins(s.line, h[N].line)
    <2> HIDE DEF Gone
    <2> QED
      BY <1>6, <1>7
  <1> HIDE DEF N
  <1> QED
    BY <1>8, <1>9, <1>10

LEMMA StartRight ==
  ASSUME NEW g, Sortable(g)
  PROVE  Start(g) \in State(g) /\ Right(g, Start(g), {})
  <1> DEFINE degree == [n \in Ids(g) |-> Cardinality(Arrivals(g, n))]
             T == {n \in Ids(g) : degree[n] = 0}
             L == Among(g.nodes, T)
  <1>1. Start(g) = [degree |-> degree, line |-> L]
    BY DEF Start
  <1>2. IsTemplate(g) /\ g.nodes \in Seq(Ids(g)) /\ IsInjective(g.nodes) /\ ToSet(g.nodes) = Ids(g)
    BY DEF Sortable, IsTemplate, Ids
  <1>3. /\ L \in Seq(Ids(g)) /\ IsInjective(L) /\ ToSet(L) = T
    <2>1. ToSet(L) = Ids(g) \cap T
      <3> HIDE DEF T
      <3> QED
        BY <1>2, AmongIs
    <2>2. L \in Seq(Ids(g)) /\ IsInjective(L)
      <3> HIDE DEF T
      <3> QED
        BY <1>2, AmongIs, AmongInjective
    <2> QED
      BY <2>1, <2>2
  <1>4. ASSUME NEW n \in Ids(g)
        PROVE  /\ degree[n] = Cardinality(Arrivals(g, n))
               /\ Cardinality(Arrivals(g, n)) \in Nat
               /\ n \in T <=> Arrivals(g, n) = {}
    <2>1. Arrivals(g, n) \ {} = Arrivals(g, n)
      OBVIOUS
    <2>2. IsFiniteSet(Arrivals(g, n))
      <3>1. IsFiniteSet(Arrivals(g, n) \ {})
        BY <1>2, ArrivalsFinite, Zenon
      <3> QED
        BY <2>1, <3>1, Zenon
    <2> QED
      BY <2>2, FS_EmptySet, FS_CardinalityType
  <1>5. degree \in [Ids(g) -> Int]
    BY <1>4
  <1> HIDE DEF L, T, degree
  <1>6. Start(g) \in State(g) /\ Start(g).degree = degree /\ Start(g).line = L
    BY <1>1, <1>3, <1>5 DEF State
  <1>7. Sorted(g, L)
    <2>1. ASSUME NEW j \in 1..Len(L), NEW m, <<m, L[j]>> \in Edges(g) PROVE FALSE
      <3>1. L[j] \in T /\ L[j] \in Ids(g)
        <4>1. j \in DOMAIN L
          BY <1>3
        <4> QED
          BY <1>3, <4>1 DEF ToSet
      <3>2. PICK k \in 1..Len(g.edges) : g.edges[k][1] = m /\ g.edges[k][2] = L[j]
        BY <2>1, EdgeFacts
      <3>3. k \in Arrivals(g, L[j])
        BY <1>2, <3>2, NodeFacts DEF Arrivals
      <3> QED
        BY <1>4, <3>1, <3>3
    <2> QED
      BY <2>1 DEF Sorted
  <1>8. \A n \in Ids(g) : Arrivals(g, n) \ {} = Arrivals(g, n)
    OBVIOUS
  <1>9. Right(g, Start(g), {})
    BY <1>3, <1>4, <1>6, <1>7, <1>8 DEF Right
  <1> QED
    BY <1>6, <1>9

\* The first k of the line, if there are as many.
FirstOf(line, k) == {line[j] : j \in {i \in 1..Len(line) : i <= k}}

TurnOrNot(g, s, k) == IF k > Len(s.line) THEN s ELSE Turn(g, s, s.line[k])

LEMMA TurnType ==
  ASSUME NEW g, Sortable(g), NEW s \in State(g), NEW node
  PROVE  Turn(g, s, node) \in State(g)
  <1>1. Len(g.edges) \in 0..Len(g.edges)
    BY NodeFacts DEF Sortable
  <1> QED
    BY <1>1, ReleasesSteps DEF Turn

LEMMA TurnsSteps ==
  ASSUME NEW g, Sortable(g)
  PROVE  /\ Turns(g)[0] = Start(g)
         /\ \A k \in 1..Len(g.nodes) : Turns(g)[k] = TurnOrNot(g, Turns(g)[k-1], k)
  <1> DEFINE N == Len(g.nodes)
             V == State(g)
             F == [p \in (1..N) \X V |-> TurnOrNot(g, p[2], p[1])]
             Is(h) == h = [i \in 0..N |-> IF i = 0 THEN Start(g)
                                          ELSE IF i > Len(h[i-1].line) THEN h[i-1]
                                               ELSE Turn(g, h[i-1], h[i-1].line[i])]
  <1>1. N \in Nat
    BY NodeFacts DEF Sortable
  <1>2. \A p \in (1..N) \X V : TurnOrNot(g, p[2], p[1]) \in V
    <2>1. ASSUME NEW p \in (1..N) \X V PROVE TurnOrNot(g, p[2], p[1]) \in V
      <3>1. p[2] \in V
        OBVIOUS
      <3>2. Turn(g, p[2], p[2].line[p[1]]) \in V
        BY <3>1, TurnType
      <3> QED
        BY <3>1, <3>2 DEF TurnOrNot
    <2> QED
      BY <2>1
  <1>3. F \in [(1..N) \X V -> V]
    BY <1>2
  <1>4. Start(g) \in V
    BY StartRight
  <1>5. ASSUME NEW k \in 1..N, NEW r \in V
        PROVE  F[<<k, r>>] = TurnOrNot(g, r, k)
    OBVIOUS
  <1> HIDE DEF F
  <1>6. \A i \in 1..N : i - 1 \in 0..N /\ i # 0 /\ i \in 0..N
    BY <1>1
  <1> HIDE DEF N, V
  <1>7. PICK f \in [0..N -> V] : Recurs(N, Start(g), F, f)
    BY <1>1, <1>3, <1>4, Recursion, Zenon
  <1>8. ASSUME NEW i \in 0..N
        PROVE  f[i] = IF i = 0 THEN Start(g)
                      ELSE IF i > Len(f[i-1].line) THEN f[i-1]
                           ELSE Turn(g, f[i-1], f[i-1].line[i])
    <2>1. CASE i = 0
      BY <1>7, <2>1 DEF Recurs
    <2>2. CASE i # 0
      <3>1. i \in 1..N
        BY <1>1, <2>2
      <3>2. f[i-1] \in V
        BY <1>6, <3>1
      <3>3. f[i] = F[<<i, f[i-1]>>]
        BY <1>7, <3>1 DEF Recurs
      <3>4. f[i] = TurnOrNot(g, f[i-1], i)
        BY <1>5, <3>1, <3>2, <3>3
      <3> QED
        BY <2>2, <3>4, Zenon DEF TurnOrNot
    <2> QED
      BY <2>1, <2>2
  <1>9. Is(f)
    BY <1>8
  <1>10. Turns(g) = CHOOSE h : Is(h)
    BY Zenon DEF Turns, N
  <1>11. Is(Turns(g))
    <2> HIDE DEF Is
    <2> QED
      BY <1>9, <1>10
  <1>12. 0 \in 0..N
    BY <1>1
  <1> DEFINE h == Turns(g)
  <1>13. h[0] = Start(g)
    BY <1>11, <1>12
  <1>14. ASSUME NEW k \in 1..N PROVE h[k] = TurnOrNot(g, h[k-1], k)
    <2>1. k \in 0..N /\ k # 0
      BY <1>6
    <2>2. h[k] = IF k > Len(h[k-1].line) THEN h[k-1] ELSE Turn(g, h[k-1], h[k-1].line[k])
      BY <1>11, <2>1
    <2> HIDE DEF h
    <2> QED
      BY <2>2, Zenon DEF TurnOrNot
  <1> QED
    BY <1>13, <1>14 DEF N

\* After k turns, the edges out of the first k of the line have been removed.
LEMMA TurnsRight ==
  ASSUME NEW g, Sortable(g)
  PROVE  \A k \in 0..Len(g.nodes) :
            Right(g, Turns(g)[k], Out(g, FirstOf(Turns(g)[k].line, k)))
  <1> DEFINE N == Len(g.nodes)
             h == Turns(g)
             K == {k \in 0..N : Right(g, h[k], Out(g, FirstOf(h[k].line, k)))}
  <1>1. N \in Nat
    BY NodeFacts DEF Sortable
  <1>2. h[0] = Start(g) /\ \A k \in 1..N : h[k] = TurnOrNot(g, h[k-1], k)
    BY TurnsSteps
  <1> HIDE DEF h
  <1>3. 0 \in K
    <2>1. FirstOf(h[0].line, 0) = {}
      BY DEF FirstOf
    <2>2. Out(g, FirstOf(h[0].line, 0)) = {}
      BY <2>1 DEF Out
    <2>3. Right(g, h[0], Out(g, FirstOf(h[0].line, 0)))
      BY <1>2, <2>2, StartRight
    <2> QED
      BY <1>1, <2>3
  <1>4. ASSUME NEW k \in 1..N, k - 1 \in K PROVE k \in K
    <2> DEFINE s == h[k-1]
               D == FirstOf(s.line, k - 1)
    <2>1. Right(g, s, Out(g, D)) /\ k \in 0..N /\ k \in Nat
      BY <1>1, <1>4
    <2>2. h[k] = TurnOrNot(g, s, k)
      BY <1>2
    <2> HIDE DEF s
    <2>3. s \in State(g) /\ s.line \in Seq(Ids(g)) /\ IsInjective(s.line)
      BY <2>1 DEF Right, State
    <2>4. Len(s.line) \in Nat /\ DOMAIN s.line = 1..Len(s.line)
      BY <2>3
    <2>5. CASE k > Len(s.line)
      <3>1. h[k] = s
        BY <2>2, <2>5 DEF TurnOrNot
      <3>2. FirstOf(s.line, k) = D
        <4>1. \A i \in 1..Len(s.line) : i <= k /\ i <= k - 1
          BY <2>1, <2>4, <2>5
        <4> QED
          BY <4>1 DEF FirstOf
      <3> QED
        BY <2>1, <3>1, <3>2
    <2>6. CASE ~(k > Len(s.line))
      <3> DEFINE node == s.line[k]
                 t == Turn(g, s, node)
      <3>1. h[k] = t
        BY <2>2, <2>6 DEF TurnOrNot
      <3>2. k \in 1..Len(s.line)
        BY <2>1, <2>4, <2>6
      <3>3. node \in ToSet(s.line)
        BY <2>4, <3>2 DEF ToSet
      <3>4. node \notin D
        BY <2>3, <2>4, <3>2 DEF FirstOf, IsInjective
      <3>5. D \cup {node} = FirstOf(s.line, k)
        <4>1. \A i \in 1..Len(s.line) : i <= k <=> i <= k - 1 \/ i = k
          BY <2>1, <2>4
        <4> QED
          BY <3>2, <4>1 DEF FirstOf
      <3>6. /\ t \in State(g) /\ Right(g, t, Out(g, D \cup {node})) /\ Begins(s.line, t.line)
        <4> HIDE DEF D, node
        <4> QED
          BY <2>1, <3>3, <3>4, TurnKeeps
      <3> HIDE DEF t, node, D
      <3>7. FirstOf(t.line, k) = FirstOf(s.line, k)
        <4>1. t.line \in Seq(Ids(g))
          BY <3>6 DEF State
        <4>2. Len(t.line) \in Nat /\ Len(s.line) <= Len(t.line)
          BY <3>6, <4>1 DEF Begins
        <4>3. \A i \in 1..Len(s.line) : t.line[i] = s.line[i]
          BY <3>6 DEF Begins
        <4>4. {i \in 1..Len(t.line) : i <= k} = {i \in 1..Len(s.line) : i <= k}
          BY <2>4, <3>2, <4>2
        <4> QED
          BY <4>3, <4>4 DEF FirstOf
      <3>8. Right(g, t, Out(g, FirstOf(t.line, k)))
        BY <3>5, <3>6, <3>7, Zenon
      <3> QED
        BY <2>1, <3>1, <3>8
    <2> QED
      BY <2>5, <2>6
  <1> HIDE DEF K
  <1>5. \A k \in 0..N : k \in K
    BY <1>1, <1>3, <1>4, Induction
  <1> QED
    BY <1>5 DEF K, h

\* The order is of the nodes whose parents are all in it, each after its parents.
LEMMA KahnFacts ==
  ASSUME NEW g, Sortable(g)
  PROVE  /\ KahnOrder(g) \in Seq(Ids(g))
         /\ IsInjective(KahnOrder(g))
         /\ Sorted(g, KahnOrder(g))
         /\ \A n \in Ids(g) :
               n \in ToSet(KahnOrder(g)) <=> NodeParents(g, n) \subseteq ToSet(KahnOrder(g))
         /\ LeftOver(g) <=> ToSet(KahnOrder(g)) # Ids(g)
  <1> DEFINE N == Len(g.nodes)
             s == Turns(g)[N]
             L == s.line
  <1>1. N \in Nat /\ N \in 0..N /\ IsFiniteSet(Ids(g)) /\ Cardinality(Ids(g)) = N
    BY NodeFacts DEF Sortable
  <1>2. Right(g, s, Out(g, FirstOf(L, N)))
    BY <1>1, TurnsRight
  <1> HIDE DEF s, N
  <1>3. s \in State(g) /\ L \in Seq(Ids(g)) /\ IsInjective(L) /\ Sorted(g, L)
    BY <1>2 DEF Right, State
  <1> HIDE DEF L
  <1>4. Len(L) <= N /\ (Len(L) = N <=> ToSet(L) = Ids(g)) /\ Len(L) \in Nat /\ DOMAIN L = 1..Len(L)
    BY <1>1, <1>3, WithinSet
  <1>5. FirstOf(L, N) = ToSet(L)
    BY <1>1, <1>4 DEF FirstOf, ToSet
  <1>6. ASSUME NEW n \in Ids(g)
        PROVE  n \in ToSet(L) <=> NodeParents(g, n) \subseteq ToSet(L)
    <2>1. n \in ToSet(L) <=> Arrivals(g, n) \ Out(g, ToSet(L)) = {}
      BY <1>2, <1>5 DEF Right, L
    <2>2. \A i \in Arrivals(g, n) : i \in 1..Len(g.edges) /\ g.edges[i][2] = n
      BY NodeFacts DEF Arrivals, Sortable
    <2>3. ASSUME Arrivals(g, n) \ Out(g, ToSet(L)) = {}, NEW m \in NodeParents(g, n)
          PROVE  m \in ToSet(L)
      <3>0. <<m, n>> \in Edges(g)
        BY EdgeFacts, Zenon
      <3>1. PICK i \in 1..Len(g.edges) : g.edges[i][1] = m /\ g.edges[i][2] = n
        BY <3>0, EdgeFacts
      <3>2. i \in Arrivals(g, n)
        BY <3>1, NodeFacts DEF Arrivals, Sortable
      <3> QED
        BY <2>3, <3>1, <3>2 DEF Out
    <2>4. ASSUME NodeParents(g, n) \subseteq ToSet(L), NEW i \in Arrivals(g, n)
          PROVE  i \in Out(g, ToSet(L))
      <3>1. i \in 1..Len(g.edges) /\ g.edges[i][2] = n
        BY <2>2
      <3>2. g.edges[i][1] \in NodeParents(g, n)
        BY <3>1, EdgeFacts
      <3> QED
        BY <2>4, <3>1, <3>2 DEF Out
    <2> QED
      BY <2>1, <2>3, <2>4
  <1>7. KahnOrder(g) = L
    BY DEF KahnOrder, L, s, N
  <1>8. LeftOver(g) <=> ToSet(L) # Ids(g)
    BY <1>4, <1>7 DEF LeftOver, N
  <1> QED
    BY <1>3, <1>6, <1>7, <1>8

LEMMA CycleIsLeftOver ==
  ASSUME NEW g, Sortable(g)
  PROVE  LeftOver(g) <=> Cyclic(g)
  <1> DEFINE L == KahnOrder(g)
  <1>1. /\ L \in Seq(Ids(g)) /\ Sorted(g, L)
        /\ \A n \in Ids(g) : n \in ToSet(L) <=> NodeParents(g, n) \subseteq ToSet(L)
        /\ LeftOver(g) <=> ToSet(L) # Ids(g)
    BY KahnFacts
  <1> HIDE DEF L
  <1>2. DOMAIN L = 1..Len(L) /\ Len(L) \in Nat
    BY <1>1
  <1>3. ASSUME LeftOver(g) PROVE Cyclic(g)
    <2> DEFINE S == Ids(g) \ ToSet(L)
    <2>1. S \in (SUBSET Ids(g)) \ {{}}
      <3>1. ToSet(L) \subseteq Ids(g)
        BY <1>1, <1>2 DEF ToSet
      <3>2. ToSet(L) # Ids(g)
        BY <1>1, <1>3, Zenon
      <3> QED
        BY <3>1, <3>2
    <2>2. ASSUME NEW n \in S PROVE \E m \in S : <<m, n>> \in Edges(g)
      <3>1. PICK m \in NodeParents(g, n) : m \notin ToSet(L)
        BY <1>1
      <3>2. <<m, n>> \in Edges(g)
        BY EdgeFacts
      <3>3. m \in Ids(g)
        <4>1. PICK i \in 1..Len(g.edges) : g.edges[i][1] = m
          BY <3>2, EdgeFacts
        <4> QED
          BY <4>1, EdgeFacts
      <3> QED
        BY <3>1, <3>2, <3>3
    <2> HIDE DEF S
    <2> QED
      BY <2>1, <2>2 DEF Cyclic
  <1>4. ASSUME Cyclic(g), ToSet(L) = Ids(g) PROVE FALSE
    <2>1. PICK S \in (SUBSET Ids(g)) \ {{}} : \A n \in S : \E m \in S : <<m, n>> \in Edges(g)
      BY <1>4 DEF Cyclic
    <2> DEFINE J == {j \in 1..Len(L) : L[j] \in S}
    <2>2. J \subseteq Nat /\ J # {}
      <3>0. S # {}
        OBVIOUS
      <3>1. PICK n \in S : TRUE
        BY <3>0
      <3>2. n \in ToSet(L)
        BY <1>4, <2>1
      <3> QED
        BY <1>2, <3>2 DEF ToSet
    <2>3. PICK j \in J : \A i \in J : j <= i
      <3> HIDE DEF J
      <3> QED
        BY <2>2, Least
    <2>4. PICK m \in S : <<m, L[j]>> \in Edges(g)
      BY <2>1
    <2>5. PICK i \in 1..(j-1) : L[i] = m
      BY <1>1, <2>4 DEF Sorted
    <2>6. i \in J /\ ~(j <= i)
      BY <1>2, <2>5
    <2> QED
      BY <2>3, <2>6
  <1> QED
    BY <1>1, <1>3, <1>4

-----------------------------------------------------------------------------
(* The search for orphans.                                                 *)

Children(g, S) == S \cup UNION {NodeChildren(g, n) : n \in S}

LEMMA ChildrenType ==
  ASSUME NEW g, Sortable(g), NEW S \in SUBSET Ids(g)
  PROVE  /\ Children(g, S) \in SUBSET Ids(g)
         /\ S \subseteq Children(g, S)
         /\ Closed(g, S) <=> Children(g, S) = S
  <1>1. \A n \in S : NodeChildren(g, n) \subseteq Ids(g)
    BY EdgeFacts DEF NodeChildren
  <1>2. ASSUME Closed(g, S), NEW n \in S, NEW c \in NodeChildren(g, n) PROVE c \in S
    <2>1. PICK e \in Edges(g) : e[1] = n /\ e[2] = c
      BY <1>2 DEF NodeChildren
    <2> QED
      BY <1>2, <2>1 DEF Closed
  <1>3. ASSUME Children(g, S) = S, NEW e \in Edges(g), e[1] \in S PROVE e[2] \in S
    <2>1. e[2] \in NodeChildren(g, e[1])
      BY DEF NodeChildren
    <2>2. e[2] \in Children(g, S)
      BY <1>3, <2>1 DEF Children
    <2> QED
      BY <1>3, <2>2
  <1> QED
    BY <1>1, <1>2, <1>3 DEF Children, Closed

LEMMA FrontiersSteps ==
  ASSUME NEW g, Sortable(g), NEW start \in Ids(g)
  PROVE  /\ Frontiers(g, start)[0] = {start}
         /\ \A k \in 1..Len(g.nodes) :
               Frontiers(g, start)[k] = Children(g, Frontiers(g, start)[k-1])
         /\ \A k \in 0..Len(g.nodes) : Frontiers(g, start)[k] \in SUBSET Ids(g)
  <1> DEFINE N == Len(g.nodes)
             V == SUBSET Ids(g)
             F == [p \in (1..N) \X V |-> Children(g, p[2])]
             Is(h) == h = [k \in 0..N |-> IF k = 0 THEN {start}
                                ELSE h[k-1] \cup UNION {NodeChildren(g, n) : n \in h[k-1]}]
             Step(h) == h = [k \in 0..N |-> IF k = 0 THEN {start} ELSE Children(g, h[k-1])]
  <1>1. N \in Nat
    BY NodeFacts DEF Sortable
  <1>2. \A p \in (1..N) \X V : Children(g, p[2]) \in V
    <2>1. ASSUME NEW p \in (1..N) \X V PROVE Children(g, p[2]) \in V
      <3>1. p[2] \in V
        OBVIOUS
      <3> QED
        BY <3>1, ChildrenType
    <2> QED
      BY <2>1
  <1>3. F \in [(1..N) \X V -> V]
    BY <1>2
  <1>4. {start} \in V
    OBVIOUS
  <1>5. ASSUME NEW k \in 1..N, NEW r \in V PROVE F[<<k, r>>] = Children(g, r)
    OBVIOUS
  <1> HIDE DEF F
  <1>6. \A i \in 1..N : i - 1 \in 0..N /\ i # 0 /\ i \in 0..N
    BY <1>1
  <1> HIDE DEF N, V
  <1>7. PICK f \in [0..N -> V] : Recurs(N, {start}, F, f)
    BY <1>1, <1>3, <1>4, Recursion, Zenon
  <1>8. ASSUME NEW i \in 0..N
        PROVE  f[i] = IF i = 0 THEN {start}
                      ELSE Children(g, f[i-1])
    <2>1. CASE i = 0
      BY <1>7, <2>1 DEF Recurs
    <2>2. CASE i # 0
      <3>1. i \in 1..N
        BY <1>1, <2>2
      <3>2. f[i-1] \in V
        BY <1>6, <3>1
      <3>3. f[i] = F[<<i, f[i-1]>>]
        BY <1>7, <3>1 DEF Recurs
      <3>4. f[i] = Children(g, f[i-1])
        BY <1>5, <3>1, <3>2, <3>3
      <3> QED
        BY <2>2, <3>4
    <2> QED
      BY <2>1, <2>2
  <1>9. Step(f)
    BY <1>8
  <1>10. Frontiers(g, start) = CHOOSE h : Is(h)
    BY Zenon DEF Frontiers, N
  <1>11. Step(Frontiers(g, start))
    <2>1. \A h : Is(h) <=> Step(h)
      BY Zenon DEF Children
    <2> HIDE DEF Is, Step
    <2> QED
      BY <1>9, <1>10, <2>1
  <1>12. 0 \in 0..N
    BY <1>1
  <1> DEFINE h == Frontiers(g, start)
  <1>13. h[0] = {start}
    BY <1>11, <1>12
  <1>14. ASSUME NEW k \in 1..N PROVE h[k] = Children(g, h[k-1])
    <2>1. k \in 0..N /\ k # 0
      BY <1>6
    <2> QED
      BY <1>11, <2>1
  <1> HIDE DEF h
  <1>15. \A k \in 0..N : h[k] \in V
    <2> DEFINE K == {k \in 0..N : h[k] \in V}
    <2>1. 0 \in K
      BY <1>4, <1>12, <1>13
    <2>2. ASSUME NEW k \in 1..N, k - 1 \in K PROVE k \in K
      BY <1>6, <1>14, <2>2, ChildrenType DEF V
    <2> HIDE DEF K
    <2>3. \A k \in 0..N : k \in K
      BY <1>1, <2>1, <2>2, Induction
    <2> QED
      BY <2>3 DEF K
  <1> QED
    BY <1>13, <1>14, <1>15 DEF N, V, h

\* Reachable is the least set that is closed under edges and holds start.
LEMMA ReachableIs ==
  ASSUME NEW g, Sortable(g), NEW start \in Ids(g)
  PROVE  /\ Reachable(g, start) \subseteq Ids(g)
         /\ start \in Reachable(g, start)
         /\ Closed(g, Reachable(g, start))
         /\ \A S : start \in S /\ Closed(g, S) => Reachable(g, start) \subseteq S
  <1> DEFINE N == Len(g.nodes)
             h == Frontiers(g, start)
             Within(T) == start \in T /\ \A S : start \in S /\ Closed(g, S) => T \subseteq S
             K == {k \in 0..N : /\ Within(h[k])
                                /\ Closed(g, h[k]) \/ Cardinality(h[k]) > k}
  <1>1. N \in Nat /\ IsFiniteSet(Ids(g)) /\ Cardinality(Ids(g)) = N
    BY NodeFacts DEF Sortable
  <1>2. /\ h[0] = {start}
        /\ \A k \in 1..N : h[k] = Children(g, h[k-1])
        /\ \A k \in 0..N : h[k] \in SUBSET Ids(g)
    BY FrontiersSteps
  <1> HIDE DEF h
  <1>3. \A k \in 0..N : IsFiniteSet(h[k]) /\ Cardinality(h[k]) \in Nat /\ Cardinality(h[k]) <= N
    BY <1>1, <1>2, FS_Subset, FS_CardinalityType
  <1>4. 0 \in K
    <2>1. Cardinality({start}) = 1
      BY FS_Singleton
    <2>2. 0 \in 0..N
      BY <1>1
    <2>3. Within(h[0])
      BY <1>2
    <2>4. Cardinality(h[0]) > 0
      BY <1>2, <2>1
    <2> HIDE DEF Within
    <2> QED
      BY <2>2, <2>3, <2>4
  <1>5. ASSUME NEW k \in 1..N, k - 1 \in K PROVE k \in K
    <2>1. /\ k \in 0..N /\ k - 1 \in 0..N /\ Within(h[k-1])
          /\ Closed(g, h[k-1]) \/ Cardinality(h[k-1]) > k - 1
      BY <1>1, <1>5
    <2> DEFINE A == h[k-1]
               B == h[k]
    <2>2. /\ A \in SUBSET Ids(g) /\ B \in SUBSET Ids(g) /\ B = Children(g, A)
          /\ A \subseteq B
          /\ Closed(g, A) <=> B = A
      BY <1>2, <2>1, ChildrenType
    <2>3. /\ IsFiniteSet(A) /\ Cardinality(A) \in Nat
          /\ IsFiniteSet(B) /\ Cardinality(B) \in Nat
      BY <1>3, <2>1
    <2>4. Within(A) /\ (Closed(g, A) \/ Cardinality(A) > k - 1)
      BY <2>1
    <2> HIDE DEF A, B
    <2>5. Within(B)
      <3>1. ASSUME NEW S, start \in S, Closed(g, S), NEW c \in B PROVE c \in S
        <4>1. A \subseteq S
          BY <2>4, <3>1
        <4>2. CASE c \in A
          BY <4>1, <4>2
        <4>3. CASE c \notin A
          <5>1. PICK n \in A : c \in NodeChildren(g, n)
            BY <2>2, <3>1, <4>3 DEF Children
          <5>2. PICK e \in Edges(g) : e[1] = n /\ e[2] = c
            BY <5>1 DEF NodeChildren
          <5> QED
            BY <3>1, <4>1, <5>1, <5>2 DEF Closed
        <4> QED
          BY <4>2, <4>3
      <3>2. start \in B
        BY <2>2, <2>4
      <3> QED
        BY <3>1, <3>2
    <2>6. Closed(g, B) \/ Cardinality(B) > k
      <3>1. CASE Closed(g, A)
        BY <2>2, <3>1
      <3>2. CASE ~Closed(g, A)
        <4>1. Cardinality(A) <= Cardinality(B) /\ Cardinality(A) # Cardinality(B)
          BY <2>2, <2>3, <3>2, FS_Subset
        <4> QED
          BY <2>3, <2>4, <3>2, <4>1
      <3> QED
        BY <3>1, <3>2
    <2> HIDE DEF Within
    <2> QED
      BY <2>1, <2>5, <2>6 DEF B
  <1>6. N \in K
    <2> HIDE DEF K
    <2>1. \A k \in 0..N : k \in K
      BY <1>1, <1>4, <1>5, Induction
    <2> QED
      BY <1>1, <2>1
  <1>7. Within(h[N]) /\ (Closed(g, h[N]) \/ Cardinality(h[N]) > N)
    <2> HIDE DEF Within
    <2> QED
      BY <1>6
  <1>8. Reachable(g, start) = h[N]
    BY DEF Reachable, h, N
  <1>9. h[N] \in SUBSET Ids(g) /\ ~(Cardinality(h[N]) > N)
    BY <1>1, <1>2, <1>3
  <1> QED
    BY <1>7, <1>8, <1>9

-----------------------------------------------------------------------------
(* What validate() reports.                                                *)

LEMMA ErrorsAre ==
  ASSUME NEW g
  PROVE  /\ "input" \in Errors(g) <=> Cardinality(OfKind(g, "input")) # 1
         /\ "output" \in Errors(g) <=> Cardinality(OfKind(g, "output")) # 1
         /\ "dangling" \in Errors(g) <=> HasDangling(g)
         /\ "cycle" \in Errors(g) <=> ~HasDangling(g) /\ LeftOver(g)
         /\ "orphan" \in Errors(g) <=>
               /\ Among(g.nodes, OfKind(g, "input")) # <<>>
               /\ ~HasDangling(g) /\ ~LeftOver(g)
               /\ \E n \in Ids(g) \ Reachable(g, Head(Among(g.nodes, OfKind(g, "input")))) :
                     g.enabled[n]
  <1> DEFINE a == Cardinality(OfKind(g, "input")) # 1
             b == Cardinality(OfKind(g, "output")) # 1
             c == HasDangling(g)
             d == ~HasDangling(g) /\ LeftOver(g)
             e == /\ Among(g.nodes, OfKind(g, "input")) # <<>>
                  /\ ~HasDangling(g) /\ ~LeftOver(g)
                  /\ \E n \in Ids(g) \ Reachable(g, Head(Among(g.nodes, OfKind(g, "input")))) :
                        g.enabled[n]
  <1> DEFINE d0 == ~HasDangling(g) /\ ~(~HasDangling(g) /\ ~LeftOver(g))
  <1>1. Errors(g) = UNION {Failing("input", a), Failing("output", b), Failing("dangling", c),
                           Failing("cycle", d0), Failing("orphan", e)}
    BY Zenon DEF Errors
  <1>2. d0 <=> d
    OBVIOUS
  <1> HIDE DEF a, b, c, d, d0, e
  <1>3. \A x : x \in Errors(g) <=>
           \/ x = "input" /\ a
           \/ x = "output" /\ b
           \/ x = "dangling" /\ c
           \/ x = "cycle" /\ d
           \/ x = "orphan" /\ e
    <2>1. /\ \A x : x \in Failing("input", a) <=> x = "input" /\ a
          /\ \A x : x \in Failing("output", b) <=> x = "output" /\ b
          /\ \A x : x \in Failing("dangling", c) <=> x = "dangling" /\ c
          /\ \A x : x \in Failing("cycle", d0) <=> x = "cycle" /\ d0
          /\ \A x : x \in Failing("orphan", e) <=> x = "orphan" /\ e
      BY Zenon DEF Failing
    <2>2. \A x : x \in Errors(g) <=>
             \/ x \in Failing("input", a) \/ x \in Failing("output", b)
             \/ x \in Failing("dangling", c) \/ x \in Failing("cycle", d0)
             \/ x \in Failing("orphan", e)
      BY <1>1, Zenon
    <2> QED
      BY <1>2, <2>1, <2>2, Zenon
  <1>4. /\ "input" \in Errors(g) <=> a
        /\ "output" \in Errors(g) <=> b
        /\ "dangling" \in Errors(g) <=> c
        /\ "cycle" \in Errors(g) <=> d
        /\ "orphan" \in Errors(g) <=> e
    BY <1>3
  <1> QED
    BY <1>4 DEF a, b, c, d, e

LEMMA CycleVerdictHolds ==
  ASSUME NEW g, IsTemplate(g), "dangling" \notin Errors(g)
  PROVE  "cycle" \in Errors(g) <=> Cyclic(g)
  <1>1. Sortable(g)
    BY ErrorsAre DEF Sortable
  <1> QED
    BY <1>1, ErrorsAre, CycleIsLeftOver DEF Sortable

\* The node that the search for orphans begins with.
LEMMA TheInput ==
  ASSUME NEW g, IsTemplate(g), "input" \notin Errors(g)
  PROVE  /\ Among(g.nodes, OfKind(g, "input")) # <<>>
         /\ Head(Among(g.nodes, OfKind(g, "input"))) \in Ids(g)
         /\ OfKind(g, "input") = {Head(Among(g.nodes, OfKind(g, "input")))}
  <1> DEFINE I == OfKind(g, "input")
             r == Among(g.nodes, I)
  <1>1. Cardinality(I) = 1
    BY ErrorsAre
  <1>2. I \subseteq Ids(g)
    BY DEF OfKind
  <1> HIDE DEF I
  <1>3. IsFiniteSet(I)
    BY <1>2, NodeFacts, FS_Subset
  <1>4. PICK h : I = {h}
    BY <1>1, <1>3, FS_Singleton
  <1>5. g.nodes \in Seq(Ids(g)) /\ ToSet(g.nodes) = Ids(g)
    BY NodeFacts DEF Ids
  <1>6. r \in Seq(Ids(g)) /\ ToSet(r) = ToSet(g.nodes) \cap I
    BY <1>5, AmongIs
  <1>7. ToSet(r) = {h}
    BY <1>2, <1>4, <1>5, <1>6
  <1> HIDE DEF r
  <1>8. DOMAIN r = 1..Len(r) /\ Len(r) \in Nat
    BY <1>6
  <1>9. r # <<>>
    <2>1. PICK j \in DOMAIN r : r[j] = h
      BY <1>7 DEF ToSet
    <2> QED
      BY <2>1
  <1>10. Head(r) = r[1] /\ 1 \in DOMAIN r
    BY <1>6, <1>8, <1>9
  <1>11. Head(r) = h
    BY <1>7, <1>10 DEF ToSet
  <1> QED
    BY <1>2, <1>4, <1>9, <1>11 DEF I, r

LEMMA OrphanVerdictHolds ==
  ASSUME NEW g, IsTemplate(g), Errors(g) \subseteq {"orphan"}
  PROVE  "orphan" \in Errors(g) <=>
            \E S \in SUBSET Ids(g) :
                OfKind(g, "input") \subseteq S /\ Closed(g, S) /\ Enabled(g) \ S # {}
  <1>1. "input" \notin Errors(g) /\ "dangling" \notin Errors(g) /\ "cycle" \notin Errors(g)
    OBVIOUS
  <1>2. ~HasDangling(g) /\ ~LeftOver(g) /\ Sortable(g)
    BY <1>1, ErrorsAre DEF Sortable
  <1> DEFINE h == Head(Among(g.nodes, OfKind(g, "input")))
  <1>3. OfKind(g, "input") = {h} /\ h \in Ids(g)
    BY <1>1, TheInput
  <1>4. "orphan" \in Errors(g) <=> \E n \in Ids(g) \ Reachable(g, h) : g.enabled[n]
    BY <1>1, <1>2, ErrorsAre, TheInput
  <1> HIDE DEF h
  <1> DEFINE R == Reachable(g, h)
  <1>5. /\ R \subseteq Ids(g) /\ h \in R /\ Closed(g, R)
        /\ \A S : h \in S /\ Closed(g, S) => R \subseteq S
    BY <1>2, <1>3, ReachableIs
  <1> HIDE DEF R
  <1>6. "orphan" \in Errors(g) <=> Enabled(g) \ R # {}
    <2>1. (\E n \in Ids(g) \ R : g.enabled[n]) <=> Enabled(g) \ R # {}
      BY DEF Enabled
    <2> QED
      BY <1>4, <2>1 DEF R
  <1>7. ASSUME Enabled(g) \ R # {}
        PROVE  \E S \in SUBSET Ids(g) :
                  OfKind(g, "input") \subseteq S /\ Closed(g, S) /\ Enabled(g) \ S # {}
    <2>1. R \in SUBSET Ids(g) /\ OfKind(g, "input") \subseteq R
      BY <1>3, <1>5
    <2> QED
      BY <1>5, <1>7, <2>1
  <1>8. ASSUME NEW S \in SUBSET Ids(g), OfKind(g, "input") \subseteq S, Closed(g, S),
               Enabled(g) \ S # {}
        PROVE  Enabled(g) \ R # {}
    <2>1. R \subseteq S
      BY <1>3, <1>5, <1>8
    <2> QED
      BY <1>8, <2>1
  <1> QED
    BY <1>6, <1>7, <1>8

-----------------------------------------------------------------------------
(* Depths.                                                                 *)

LEMMA MaxIs ==
  ASSUME NEW S, S \subseteq Nat, S # {}, NEW B \in Nat, \A x \in S : x <= B
  PROVE  Max(S) \in S /\ \A x \in S : x <= Max(S)
  <1> DEFINE Over == {b \in Nat : \A x \in S : x <= b}
  <1>1. PICK b \in Over : \A c \in Over : b <= c
    <2>1. Over \subseteq Nat /\ B \in Over
      OBVIOUS
    <2> HIDE DEF Over
    <2> QED
      BY <2>1, Least
  <1>2. b \in Nat /\ \A x \in S : x \in Nat /\ x <= b
    OBVIOUS
  <1>3. b \in S
    <2> SUFFICES ASSUME b \notin S PROVE FALSE
      OBVIOUS
    <2>1. \A x \in S : x <= b - 1
      BY <1>2
    <2>2. PICK x \in S : TRUE
      OBVIOUS
    <2>3. b - 1 \in Over
      BY <1>2, <2>1, <2>2
    <2> QED
      BY <1>1, <1>2, <2>3
  <1>4. Max(S) = CHOOSE x \in S : \A y \in S : x >= y
    BY Zenon DEF Max
  <1>5. \A y \in S : b >= y
    BY <1>2
  <1>6. Max(S) \in S /\ \A y \in S : Max(S) >= y
    BY <1>3, <1>4, <1>5, Zenon
  <1> QED
    BY <1>2, <1>6

\* A table of naturals over the nodes has a bound.
LEMMA TableBounded ==
  ASSUME NEW g, IsTemplate(g), NEW r \in [Ids(g) -> Nat]
  PROVE  \E b \in Nat : \A n \in Ids(g) : r[n] <= b
  <1> DEFINE N == Len(g.nodes)
             K == {k \in 0..N : \E b \in Nat : \A i \in 1..k : r[g.nodes[i]] <= b}
  <1>1. g.nodes \in Seq(Ids(g)) /\ N \in Nat /\ DOMAIN g.nodes = 1..N
    BY NodeFacts
  <1>2. 0 \in K
    <2>1. 0 \in 0..N /\ 0 \in Nat /\ \A i \in 1..0 : FALSE
      BY <1>1
    <2> QED
      BY <2>1
  <1>3. ASSUME NEW k \in 1..N, k - 1 \in K PROVE k \in K
    <2>1. PICK b \in Nat : \A i \in 1..(k-1) : r[g.nodes[i]] <= b
      BY <1>3
    <2>2. \A i \in 1..k : r[g.nodes[i]] \in Nat
      BY <1>1
    <2>3. k \in 1..k /\ k \in 0..N
      BY <1>1
    <2> DEFINE c == b + r[g.nodes[k]]
    <2>4. c \in Nat /\ b <= c /\ r[g.nodes[k]] <= c
      BY <2>2, <2>3
    <2> HIDE DEF c
    <2>5. \A i \in 1..k : r[g.nodes[i]] <= c
      <3>1. ASSUME NEW i \in 1..k PROVE r[g.nodes[i]] <= c
        <4>1. CASE i = k
          BY <2>4, <4>1
        <4>2. CASE i # k
          <5>1. i \in 1..(k-1)
            BY <1>1, <4>2
          <5> QED
            BY <2>1, <2>2, <2>4, <5>1
        <4> QED
          BY <4>1, <4>2
      <3> QED
        BY <3>1
    <2> QED
      BY <2>3, <2>4, <2>5
  <1>4. N \in K
    <2> HIDE DEF K
    <2>1. \A k \in 0..N : k \in K
      BY <1>1, <1>2, <1>3, Induction
    <2> QED
      BY <1>1, <2>1
  <1>5. PICK b \in Nat : \A i \in 1..N : r[g.nodes[i]] <= b
    BY <1>4
  <1>6. \A n \in Ids(g) : \E i \in 1..N : g.nodes[i] = n
    BY <1>1 DEF Ids, ToSet
  <1> QED
    BY <1>5, <1>6

\* What the table r makes of the depth of n.
DepthBy(g, r, n) ==
    LET parents == NodeParents(g, n) IN
    IF parents = {} THEN 0 ELSE Max({r[p] : p \in parents}) + 1

LEMMA DepthByIs ==
  ASSUME NEW g, Sortable(g), NEW r \in [Ids(g) -> Nat], NEW n
  PROVE  /\ DepthBy(g, r, n) \in Nat
         /\ \A m \in NodeParents(g, n) : m \in Ids(g) /\ r[m] < DepthBy(g, r, n)
         /\ DepthBy(g, r, n) > 0 =>
               \E m \in NodeParents(g, n) : r[m] = DepthBy(g, r, n) - 1
  <1> DEFINE P == NodeParents(g, n)
             S == {r[p] : p \in P}
  <1>1. P \subseteq Ids(g)
    BY EdgeFacts DEF NodeParents
  <1>2. CASE P = {}
    BY <1>2 DEF DepthBy
  <1>3. CASE P # {}
    <2>1. PICK b \in Nat : \A m \in Ids(g) : r[m] <= b
      BY TableBounded DEF Sortable
    <2>2. S \subseteq Nat /\ S # {} /\ \A x \in S : x <= b
      BY <1>1, <1>3, <2>1
    <2>3. \A m \in P : r[m] \in S
      OBVIOUS
    <2>4. \A x \in S : \E m \in P : r[m] = x
      OBVIOUS
    <2>5. DepthBy(g, r, n) = Max(S) + 1
      BY <1>3, Zenon DEF DepthBy
    <2> HIDE DEF S, P
    <2>6. Max(S) \in S /\ \A x \in S : x <= Max(S)
      BY <2>2, MaxIs
    <2>7. DepthBy(g, r, n) \in Nat /\ Max(S) = DepthBy(g, r, n) - 1 /\ Max(S) \in Nat
      <3>1. Max(S) \in Nat
        BY <2>2, <2>6
      <3> QED
        BY <2>5, <3>1
    <2>8. \A m \in P : m \in Ids(g) /\ r[m] < DepthBy(g, r, n)
      <3>1. ASSUME NEW m \in P PROVE m \in Ids(g) /\ r[m] < DepthBy(g, r, n)
        <4>1. m \in Ids(g) /\ r[m] \in Nat /\ r[m] <= Max(S)
          BY <1>1, <2>3, <2>6
        <4> QED
          BY <2>5, <2>7, <4>1
      <3> QED
        BY <3>1
    <2>9. \E m \in P : r[m] = DepthBy(g, r, n) - 1
      BY <2>4, <2>6, <2>7
    <2> QED
      BY <2>7, <2>8, <2>9 DEF P
  <1> QED
    BY <1>2, <1>3

LEMMA DepthBySame ==
  ASSUME NEW g, NEW n, NEW r, NEW q, \A p \in NodeParents(g, n) : r[p] = q[p]
  PROVE  DepthBy(g, r, n) = DepthBy(g, q, n)
  <1>1. {r[p] : p \in NodeParents(g, n)} = {q[p] : p \in NodeParents(g, n)}
    OBVIOUS
  <1> QED
    BY <1>1, Zenon DEF DepthBy

LEMMA DepthsSteps ==
  ASSUME NEW g, Sortable(g)
  PROVE  /\ \A k \in 0..Len(KahnOrder(g)) : Depths(g)[k] \in [Ids(g) -> Nat]
         /\ \A k \in 1..Len(KahnOrder(g)) : Depths(g)[k] =
               [Depths(g)[k-1] EXCEPT
                  ![KahnOrder(g)[k]] = DepthBy(g, Depths(g)[k-1], KahnOrder(g)[k])]
  <1> DEFINE L == KahnOrder(g)
             N == Len(L)
             V == [Ids(g) -> Nat]
             Deepened(r, k) == [r EXCEPT ![L[k]] = DepthBy(g, r, L[k])]
             F == [p \in (1..N) \X V |-> Deepened(p[2], p[1])]
             Flat == [n \in Ids(g) |-> 0]
             Is(h) == h = [k \in 0..N |->
                             IF k = 0 THEN [n \in Ids(g) |-> 0]
                             ELSE LET before  == h[k-1]
                                      parents == NodeParents(g, L[k]) IN
                                  [before EXCEPT ![L[k]] =
                                     IF parents = {} THEN 0
                                     ELSE Max({before[p] : p \in parents}) + 1]]
  <1>1. L \in Seq(Ids(g))
    BY KahnFacts
  <1>2. Depths(g) = CHOOSE h : Is(h)
    BY Zenon DEF Depths
  <1> HIDE DEF L
  <1>3. N \in Nat /\ \A k \in 1..N : L[k] \in Ids(g)
    BY <1>1
  <1>4. \A k \in 1..N, r \in V : Deepened(r, k) \in V
    <2>1. ASSUME NEW k \in 1..N, NEW r \in V PROVE Deepened(r, k) \in V
      <3>1. DepthBy(g, r, L[k]) \in Nat
        BY DepthByIs
      <3> QED
        BY <3>1
    <2> QED
      BY <2>1
  <1>5. ASSUME NEW h, NEW k
        PROVE  (LET before  == h[k-1]
                    parents == NodeParents(g, L[k]) IN
                [before EXCEPT ![L[k]] =
                   IF parents = {} THEN 0
                   ELSE Max({before[p] : p \in parents}) + 1]) = Deepened(h[k-1], k)
    BY Zenon DEF DepthBy
  <1> HIDE DEF Deepened
  <1>6. F \in [(1..N) \X V -> V]
    <2>1. \A p \in (1..N) \X V : p[1] \in 1..N /\ p[2] \in V
      OBVIOUS
    <2> HIDE DEF V, N
    <2> QED
      BY <1>4, <2>1
  <1>7. Flat \in V
    OBVIOUS
  <1>8. ASSUME NEW k \in 1..N, NEW r \in V PROVE F[<<k, r>>] = Deepened(r, k)
    OBVIOUS
  <1> HIDE DEF F
  <1>9. \A i \in 1..N : i - 1 \in 0..N /\ i # 0 /\ i \in 0..N
    BY <1>3
  <1> HIDE DEF N, V, Flat
  <1>10. PICK f \in [0..N -> V] : Recurs(N, Flat, F, f)
    BY <1>3, <1>6, <1>7, Recursion, Zenon
  <1> DEFINE Step(h) == h = [k \in 0..N |-> IF k = 0 THEN Flat ELSE Deepened(h[k-1], k)]
  <1>11. \A h : Is(h) <=> Step(h)
    <2>1. ASSUME NEW h PROVE Is(h) <=> Step(h)
      <3> DEFINE one(k) == IF k = 0 THEN [n \in Ids(g) |-> 0]
                           ELSE LET before  == h[k-1]
                                    parents == NodeParents(g, L[k]) IN
                                [before EXCEPT ![L[k]] =
                                   IF parents = {} THEN 0
                                   ELSE Max({before[p] : p \in parents}) + 1]
                 other(k) == IF k = 0 THEN Flat ELSE Deepened(h[k-1], k)
      <3>1. \A k : one(k) = other(k)
        BY <1>5, Zenon DEF Flat
      <3> HIDE DEF one, other
      <3>2. [k \in 0..N |-> one(k)] = [k \in 0..N |-> other(k)]
        BY <3>1
      <3> QED
        BY <3>2, Zenon DEF one, other
    <2> QED
      BY <2>1, Zenon
  <1>12. ASSUME NEW i \in 0..N
         PROVE  f[i] = IF i = 0 THEN Flat ELSE Deepened(f[i-1], i)
    <2>1. CASE i = 0
      BY <1>10, <2>1 DEF Recurs
    <2>2. CASE i # 0
      <3>1. i \in 1..N
        BY <1>3, <2>2
      <3>2. f[i-1] \in V
        BY <1>9, <3>1
      <3>3. f[i] = F[<<i, f[i-1]>>]
        BY <1>10, <3>1 DEF Recurs
      <3> QED
        BY <1>8, <2>2, <3>1, <3>2, <3>3
    <2> QED
      BY <2>1, <2>2
  <1>13. Step(f)
    BY <1>12
  <1>14. Step(Depths(g))
    <2> HIDE DEF Is, Step
    <2> QED
      BY <1>2, <1>11, <1>13
  <1>15. 0 \in 0..N
    BY <1>3
  <1> DEFINE h == Depths(g)
  <1>16. h[0] = Flat
    BY <1>14, <1>15
  <1>17. ASSUME NEW k \in 1..N PROVE h[k] = Deepened(h[k-1], k)
    <2>1. k \in 0..N /\ k # 0
      BY <1>9
    <2> QED
      BY <1>14, <2>1
  <1> HIDE DEF h, Step
  <1>18. \A k \in 0..N : h[k] \in V
    <2> DEFINE K == {k \in 0..N : h[k] \in V}
    <2>1. 0 \in K
      BY <1>7, <1>15, <1>16
    <2>2. ASSUME NEW k \in 1..N, k - 1 \in K PROVE k \in K
      BY <1>4, <1>9, <1>17, <2>2
    <2> HIDE DEF K
    <2>3. \A k \in 0..N : k \in K
      BY <1>3, <2>1, <2>2, Induction
    <2> QED
      BY <2>3 DEF K
  <1> QED
    BY <1>17, <1>18 DEF L, N, V, h, Deepened

\* After k steps the depth of the first k nodes is what the table makes of it.
LEMMA DepthsSettled ==
  ASSUME NEW g, Sortable(g)
  PROVE  \A k \in 0..Len(KahnOrder(g)) : \A j \in 1..k :
            Depths(g)[k][KahnOrder(g)[j]] = DepthBy(g, Depths(g)[k], KahnOrder(g)[j])
  <1> DEFINE L == KahnOrder(g)
             N == Len(L)
             D == Depths(g)
             K == {k \in 0..N : \A j \in 1..k : D[k][L[j]] = DepthBy(g, D[k], L[j])}
  <1>1. L \in Seq(Ids(g)) /\ IsInjective(L) /\ Sorted(g, L)
    BY KahnFacts
  <1>2. /\ \A k \in 0..N : D[k] \in [Ids(g) -> Nat]
        /\ \A k \in 1..N : D[k] = [D[k-1] EXCEPT ![L[k]] = DepthBy(g, D[k-1], L[k])]
    BY DepthsSteps
  <1> HIDE DEF L, D
  <1>3. N \in Nat /\ DOMAIN L = 1..N /\ \A k \in 1..N : L[k] \in Ids(g)
    BY <1>1
  <1>4. 0 \in K
    <2>1. 0 \in 0..N /\ \A j \in 1..0 : FALSE
      BY <1>3
    <2> QED
      BY <2>1
  <1>5. ASSUME NEW k \in 1..N, k - 1 \in K PROVE k \in K
    <2> DEFINE r == D[k-1]
               q == D[k]
    <2>1. k \in 0..N /\ k - 1 \in 0..N
      BY <1>3
    <2>2. /\ r \in [Ids(g) -> Nat] /\ q \in [Ids(g) -> Nat]
          /\ q = [r EXCEPT ![L[k]] = DepthBy(g, r, L[k])]
      BY <1>2, <2>1
    <2>3. \A j \in 1..(k-1) : r[L[j]] = DepthBy(g, r, L[j])
      BY <1>5
    <2> HIDE DEF r, q
    <2>4. ASSUME NEW j \in 1..k PROVE q[L[j]] = DepthBy(g, q, L[j])
      <3>1. j \in 1..N
        BY <1>3
      <3>2. ASSUME NEW p \in NodeParents(g, L[j]) PROVE r[p] = q[p]
        <4>1. <<p, L[j]>> \in Edges(g) /\ p \in Ids(g)
          <5>1. <<p, L[j]>> \in Edges(g)
            BY <3>2, EdgeFacts, Zenon
          <5>2. PICK i \in 1..Len(g.edges) : g.edges[i][1] = p
            BY <5>1, EdgeFacts
          <5> QED
            BY <5>1, <5>2, EdgeFacts
        <4>2. PICK i \in 1..(j-1) : L[i] = p
          BY <1>1, <3>1, <4>1 DEF Sorted
        <4>3. i \in 1..N /\ i # k
          BY <1>3, <3>1
        <4>4. p # L[k]
          BY <1>1, <1>3, <4>2, <4>3 DEF IsInjective
        <4> QED
          BY <2>2, <4>1, <4>4
      <3>3. DepthBy(g, r, L[j]) = DepthBy(g, q, L[j])
        BY <3>2, DepthBySame
      <3>4. q[L[j]] = DepthBy(g, r, L[j])
        <4>1. CASE j = k
          <5>1. L[k] \in Ids(g)
            BY <1>3
          <5> QED
            BY <2>2, <4>1, <5>1
        <4>2. CASE j # k
          <5>1. j \in 1..(k-1)
            BY <1>3, <4>2
          <5>2. L[j] # L[k] /\ L[j] \in Ids(g)
            BY <1>1, <1>3, <3>1, <4>2 DEF IsInjective
          <5>3. q[L[j]] = r[L[j]]
            BY <2>2, <5>2
          <5> QED
            BY <2>3, <5>1, <5>3
        <4> QED
          BY <4>1, <4>2
      <3> QED
        BY <3>3, <3>4
    <2> QED
      BY <2>1, <2>4 DEF q
  <1> HIDE DEF K
  <1>6. \A k \in 0..N : k \in K
    BY <1>3, <1>4, <1>5, Induction
  <1> QED
    BY <1>6 DEF K, N, L, D

\* The depth of a node is one more than that of its deepest parent.
LEMMA DepthFacts ==
  ASSUME NEW g, Sortable(g), ~LeftOver(g)
  PROVE  /\ Depth(g) \in [Ids(g) -> Nat]
         /\ \A m, n \in Ids(g) : <<m, n>> \in Edges(g) => Depth(g)[m] < Depth(g)[n]
         /\ \A n \in Ids(g) : Depth(g)[n] > 0 =>
               \E m \in Ids(g) : <<m, n>> \in Edges(g) /\ Depth(g)[m] = Depth(g)[n] - 1
  <1> DEFINE L == KahnOrder(g)
             r == Depth(g)
  <1>1. L \in Seq(Ids(g)) /\ ToSet(L) = Ids(g)
    BY KahnFacts
  <1>2. Len(L) \in 0..Len(L) /\ DOMAIN L = 1..Len(L)
    BY <1>1
  <1>3. r \in [Ids(g) -> Nat]
    BY <1>2, DepthsSteps DEF Depth
  <1>4. \A j \in 1..Len(L) : r[L[j]] = DepthBy(g, r, L[j])
    BY <1>2, DepthsSettled DEF Depth
  <1> HIDE DEF L, r
  <1>5. \A n \in Ids(g) : r[n] = DepthBy(g, r, n)
    <2>1. \A n \in Ids(g) : \E j \in 1..Len(L) : L[j] = n
      BY <1>1, <1>2 DEF ToSet
    <2> QED
      BY <1>4, <2>1
  <1>6. ASSUME NEW m \in Ids(g), NEW n \in Ids(g), <<m, n>> \in Edges(g) PROVE r[m] < r[n]
    <2>1. m \in NodeParents(g, n)
      BY <1>6, EdgeFacts, Zenon
    <2>2. r[m] < DepthBy(g, r, n)
      BY <1>3, <2>1, DepthByIs
    <2> QED
      BY <1>5, <2>2
  <1>7. ASSUME NEW n \in Ids(g), r[n] > 0
        PROVE  \E m \in Ids(g) : <<m, n>> \in Edges(g) /\ r[m] = r[n] - 1
    <2>1. DepthBy(g, r, n) > 0
      BY <1>5, <1>7
    <2>2. PICK m \in NodeParents(g, n) : m \in Ids(g) /\ r[m] = DepthBy(g, r, n) - 1
      BY <1>3, <2>1, DepthByIs
    <2>3. <<m, n>> \in Edges(g)
      BY <2>2, EdgeFacts, Zenon
    <2> QED
      BY <1>5, <2>2, <2>3
  <1> QED
    BY <1>3, <1>6, <1>7 DEF r

\* A node that follows another is deeper.
LEMMA FollowsDeeper ==
  ASSUME NEW g, Sortable(g), ~LeftOver(g), NEW m \in Ids(g), NEW n \in Ids(g), m # n,
         Follows(g, m, n)
  PROVE  Depth(g)[m] < Depth(g)[n]
  <1> DEFINE r == Depth(g)
             S == {m} \cup {x \in Ids(g) : r[m] < r[x]}
  <1>1. /\ r \in [Ids(g) -> Nat]
        /\ \A x, y \in Ids(g) : <<x, y>> \in Edges(g) => r[x] < r[y]
    BY DepthFacts
  <1> HIDE DEF r
  <1>2. ASSUME NEW e \in Edges(g), e[1] \in S PROVE e[2] \in S
    <2>1. e[1] \in Ids(g) /\ e[2] \in Ids(g) /\ <<e[1], e[2]>> \in Edges(g)
      BY EdgeFacts
    <2>2. r[e[1]] < r[e[2]] /\ r[e[1]] \in Nat /\ r[e[2]] \in Nat /\ r[m] \in Nat
      BY <1>1, <2>1
    <2>3. r[m] < r[e[2]]
      BY <1>2, <2>2
    <2> QED
      BY <2>1, <2>3
  <1>3. S \in SUBSET Ids(g) /\ m \in S /\ Closed(g, S)
    BY <1>2 DEF Closed
  <1> HIDE DEF S
  <1>4. n \in S
    BY <1>3 DEF Follows
  <1> QED
    BY <1>4 DEF S, r

-----------------------------------------------------------------------------
(* Layers.                                                                 *)

LEMMA BucketIs ==
  ASSUME NEW g, Sortable(g), ~LeftOver(g), NEW d
  PROVE  /\ Bucket(g, d) \in Seq(Ids(g))
         /\ IsInjective(Bucket(g, d))
         /\ ToSet(Bucket(g, d)) = {n \in Enabled(g) : Depth(g)[n] = d}
  <1> DEFINE T == {n \in Ids(g) : Depth(g)[n] = d /\ g.enabled[n]}
             L == KahnOrder(g)
  <1>1. L \in Seq(Ids(g)) /\ IsInjective(L) /\ ToSet(L) = Ids(g)
    BY KahnFacts
  <1>2. Bucket(g, d) = Among(L, T)
    BY Zenon DEF Bucket
  <1>3. T = {n \in Enabled(g) : Depth(g)[n] = d} /\ T \subseteq Ids(g)
    BY DEF Enabled
  <1> HIDE DEF T, L
  <1>4. /\ Among(L, T) \in Seq(Ids(g)) /\ IsInjective(Among(L, T))
        /\ ToSet(Among(L, T)) = Ids(g) \cap T
    BY <1>1, AmongIs, AmongInjective
  <1> QED
    BY <1>2, <1>3, <1>4

\* The layers are the buckets with a node in them, in order of depth.
LEMMA LayersAre ==
  ASSUME NEW g, Sortable(g), ~LeftOver(g)
  PROVE  /\ ExecutionLayers(g) \in Seq(Seq(Ids(g)))
         /\ \A i \in DOMAIN ExecutionLayers(g) :
               ExecutionLayers(g)[i] # <<>> /\ \E d \in Nat : ExecutionLayers(g)[i] = Bucket(g, d)
         /\ \A n \in Enabled(g) : \E i \in DOMAIN ExecutionLayers(g) :
               ExecutionLayers(g)[i] = Bucket(g, Depth(g)[n])
         /\ \A i, j \in DOMAIN ExecutionLayers(g) : i < j =>
               \E c, d \in Nat : /\ c < d
                                 /\ ExecutionLayers(g)[i] = Bucket(g, c)
                                 /\ ExecutionLayers(g)[j] = Bucket(g, d)
  <1> DEFINE N == Deepest(g) + 1
             buckets == [i \in 1..N |-> Bucket(g, i - 1)]
             T == ToSet(buckets) \ {<<>>}
             ls == Among(buckets, T)
             r == Depth(g)
  <1>1. ExecutionLayers(g) = ls
    BY DEF ExecutionLayers
  <1>2. r \in [Ids(g) -> Nat]
    BY DepthFacts
  <1>3. Deepest(g) \in Nat /\ \A n \in Ids(g) : r[n] <= Deepest(g)
    <2>1. PICK b \in Nat : \A n \in Ids(g) : r[n] <= b
      BY <1>2, TableBounded DEF Sortable
    <2> DEFINE S == {0} \cup {r[n] : n \in Ids(g)}
    <2>2. S \subseteq Nat /\ S # {} /\ \A x \in S : x <= b
      BY <1>2, <2>1
    <2>3. \A n \in Ids(g) : r[n] \in S
      OBVIOUS
    <2>4. Deepest(g) = Max(S)
      BY DEF Deepest
    <2> HIDE DEF S
    <2>5. Max(S) \in S /\ \A x \in S : x <= Max(S)
      BY <2>2, MaxIs
    <2> QED
      BY <2>2, <2>3, <2>4, <2>5
  <1> HIDE DEF r
  <1>4. N \in Nat
    BY <1>3
  <1>5. /\ buckets \in Seq(Seq(Ids(g))) /\ DOMAIN buckets = 1..N
        /\ \A i \in 1..N : buckets[i] = Bucket(g, i - 1)
    <2>1. \A i \in 1..N : Bucket(g, i - 1) \in Seq(Ids(g))
      BY BucketIs
    <2> QED
      BY <1>4, <2>1
  <1> HIDE DEF buckets, N
  <1>6. /\ ls \in Seq(Seq(Ids(g))) /\ ToSet(ls) = ToSet(buckets) \cap T
        /\ \A i, j \in DOMAIN ls : i < j =>
              \E p, q \in DOMAIN buckets : p < q /\ ls[i] = buckets[p] /\ ls[j] = buckets[q]
    <2> DEFINE V == Seq(Ids(g))
    <2>1. buckets \in Seq(V)
      BY <1>5
    <2> HIDE DEF T, V
    <2>2. ls \in Seq(V) /\ ToSet(ls) = ToSet(buckets) \cap T
      BY <2>1, AmongIs, Zenon
    <2>3. \A i, j \in DOMAIN ls : i < j =>
             \E p, q \in DOMAIN buckets : p < q /\ ls[i] = buckets[p] /\ ls[j] = buckets[q]
      BY <2>1, AmongIs
    <2> QED
      BY <2>2, <2>3, Zenon DEF V
  <1>7. ToSet(ls) = T
    BY <1>6
  <1> HIDE DEF ls
  <1>8. ASSUME NEW i \in DOMAIN ls
        PROVE  ls[i] # <<>> /\ \E d \in Nat : ls[i] = Bucket(g, d)
    <2>1. ls[i] \in T
      BY <1>7 DEF ToSet
    <2>2. PICK p \in 1..N : ls[i] = buckets[p]
      BY <1>5, <2>1 DEF ToSet
    <2>3. p - 1 \in Nat
      BY <1>4
    <2> QED
      BY <1>5, <2>1, <2>2, <2>3
  <1>9. ASSUME NEW n \in Enabled(g)
        PROVE  \E i \in DOMAIN ls : ls[i] = Bucket(g, r[n])
    <2>1. n \in Ids(g) /\ r[n] \in Nat /\ r[n] <= Deepest(g)
      BY <1>2, <1>3 DEF Enabled
    <2>2. r[n] + 1 \in 1..N /\ (r[n] + 1) - 1 = r[n]
      BY <1>3, <2>1 DEF N
    <2>3. buckets[r[n] + 1] = Bucket(g, r[n])
      BY <1>5, <2>2
    <2>4. Bucket(g, r[n]) # <<>>
      <3>1. n \in ToSet(Bucket(g, r[n]))
        BY BucketIs DEF r
      <3>2. ToSet(<<>>) = {}
        BY DEF ToSet
      <3> QED
        BY <3>1, <3>2
    <2>5. Bucket(g, r[n]) \in T
      BY <1>5, <2>2, <2>3, <2>4 DEF ToSet
    <2> QED
      BY <1>7, <2>5 DEF ToSet
  <1>10. ASSUME NEW i \in DOMAIN ls, NEW j \in DOMAIN ls, i < j
         PROVE  \E c, d \in Nat : c < d /\ ls[i] = Bucket(g, c) /\ ls[j] = Bucket(g, d)
    <2>1. PICK p, q \in 1..N : p < q /\ ls[i] = buckets[p] /\ ls[j] = buckets[q]
      BY <1>5, <1>6, <1>10
    <2>2. p - 1 \in Nat /\ q - 1 \in Nat /\ p - 1 < q - 1
      BY <1>4, <2>1
    <2> QED
      BY <1>5, <2>1, <2>2
  <1> QED
    BY <1>1, <1>6, <1>8, <1>9, <1>10 DEF r

\* Where a node is, and what the place of a layer says of the depths in it.
LEMMA LayerFacts ==
  ASSUME NEW g, Sortable(g), ~LeftOver(g), NEW ls, ls = ExecutionLayers(g)
  PROVE  /\ \A i \in DOMAIN ls :
               /\ ls[i] \in Seq(Ids(g)) /\ IsInjective(ls[i]) /\ ToSet(ls[i]) # {}
               /\ \A n \in ToSet(ls[i]) : /\ n \in Enabled(g)
                                          /\ ls[i] = Bucket(g, Depth(g)[n])
                                          /\ \A m \in ToSet(ls[i]) : Depth(g)[m] = Depth(g)[n]
         /\ \A i, j \in DOMAIN ls : i < j =>
               \A m \in ToSet(ls[i]), n \in ToSet(ls[j]) : Depth(g)[m] < Depth(g)[n]
         /\ \A n \in Enabled(g) : \E i \in DOMAIN ls : n \in ToSet(ls[i])
         /\ DOMAIN ls = 1..Len(ls) /\ Len(ls) \in Nat
  <1> DEFINE r == Depth(g)
  <1>1. /\ ls \in Seq(Seq(Ids(g)))
        /\ \A i \in DOMAIN ls : ls[i] # <<>> /\ \E d \in Nat : ls[i] = Bucket(g, d)
        /\ \A n \in Enabled(g) : \E i \in DOMAIN ls : ls[i] = Bucket(g, r[n])
        /\ \A i, j \in DOMAIN ls : i < j =>
              \E c, d \in Nat : c < d /\ ls[i] = Bucket(g, c) /\ ls[j] = Bucket(g, d)
    BY LayersAre
  <1> HIDE DEF r
  <1>2. \A d : /\ Bucket(g, d) \in Seq(Ids(g)) /\ IsInjective(Bucket(g, d))
               /\ \A n : n \in ToSet(Bucket(g, d)) <=> n \in Enabled(g) /\ r[n] = d
    BY BucketIs DEF r
  <1>3. ASSUME NEW i \in DOMAIN ls
        PROVE  /\ ls[i] \in Seq(Ids(g)) /\ IsInjective(ls[i]) /\ ToSet(ls[i]) # {}
               /\ \A n \in ToSet(ls[i]) : /\ n \in Enabled(g)
                                          /\ ls[i] = Bucket(g, r[n])
                                          /\ \A m \in ToSet(ls[i]) : r[m] = r[n]
    <2>1. PICK d \in Nat : ls[i] = Bucket(g, d)
      BY <1>1
    <2>2. ls[i] # <<>> /\ ls[i] \in Seq(Ids(g)) /\ IsInjective(ls[i])
      BY <1>1, <1>2, <2>1
    <2>3. ToSet(ls[i]) # {}
      <3> DEFINE b == ls[i]
      <3>1. b # <<>> /\ b \in Seq(Ids(g))
        BY <2>2
      <3> HIDE DEF b
      <3>2. 1 \in DOMAIN b
        BY <3>1
      <3> QED
        BY <3>2 DEF ToSet, b
    <2>4. \A n \in ToSet(ls[i]) : n \in Enabled(g) /\ r[n] = d
      BY <1>2, <2>1
    <2> QED
      BY <2>1, <2>2, <2>3, <2>4
  <1>4. ASSUME NEW i \in DOMAIN ls, NEW j \in DOMAIN ls, i < j,
               NEW m \in ToSet(ls[i]), NEW n \in ToSet(ls[j])
        PROVE  r[m] < r[n]
    <2>1. PICK c, d \in Nat : c < d /\ ls[i] = Bucket(g, c) /\ ls[j] = Bucket(g, d)
      BY <1>1, <1>4
    <2>2. r[m] = c /\ r[n] = d
      BY <1>2, <2>1
    <2> QED
      BY <2>1, <2>2
  <1>5. ASSUME NEW n \in Enabled(g) PROVE \E i \in DOMAIN ls : n \in ToSet(ls[i])
    BY <1>1, <1>2
  <1>6. DOMAIN ls = 1..Len(ls) /\ Len(ls) \in Nat
    BY <1>1
  <1> QED
    BY <1>3, <1>4, <1>5, <1>6 DEF r

\* A sequence without repetition that holds one thing only.
LEMMA OnlyOne ==
  ASSUME NEW S, NEW s \in Seq(S), IsInjective(s), NEW x, ToSet(s) = {x}
  PROVE  s = <<x>>
  <1>1. DOMAIN s = 1..Len(s) /\ Len(s) \in Nat
    OBVIOUS
  <1>2. \A i \in DOMAIN s : s[i] = x
    BY DEF ToSet
  <1>3. PICK i \in DOMAIN s : TRUE
    BY DEF ToSet
  <1>4. 1 \in DOMAIN s
    BY <1>1
  <1>5. Len(s) = 1
    <2>1. Len(s) \in DOMAIN s
      BY <1>1, <1>4
    <2>2. s[1] = s[Len(s)]
      BY <1>2, <1>4, <2>1
    <2> QED
      BY <1>4, <2>1, <2>2 DEF IsInjective
  <1> QED
    BY <1>2, <1>4, <1>5

\* What comes of a template without errors.
LEMMA ValidFacts ==
  ASSUME NEW g, IsTemplate(g), Errors(g) = {}
  PROVE  /\ Sortable(g) /\ ~LeftOver(g)
         /\ \E h \in Ids(g) : /\ OfKind(g, "input") = {h}
                              /\ \A n \in Enabled(g) : Follows(g, h, n)
  <1>1. "input" \notin Errors(g) /\ "dangling" \notin Errors(g)
        /\ "cycle" \notin Errors(g) /\ "orphan" \notin Errors(g)
    OBVIOUS
  <1>2. Sortable(g) /\ ~LeftOver(g)
    BY <1>1, ErrorsAre DEF Sortable
  <1> DEFINE h == Head(Among(g.nodes, OfKind(g, "input")))
  <1>3. OfKind(g, "input") = {h} /\ h \in Ids(g) /\ Among(g.nodes, OfKind(g, "input")) # <<>>
    BY <1>1, TheInput
  <1>4. ~ \E n \in Ids(g) \ Reachable(g, h) : g.enabled[n]
    BY <1>1, <1>2, <1>3, ErrorsAre DEF Sortable
  <1> HIDE DEF h
  <1>5. \A S : h \in S /\ Closed(g, S) => Reachable(g, h) \subseteq S
    BY <1>2, <1>3, ReachableIs
  <1>6. \A n \in Enabled(g) : n \in Reachable(g, h)
    BY <1>4 DEF Enabled
  <1>7. \A n \in Enabled(g) : Follows(g, h, n)
    BY <1>5, <1>6 DEF Follows
  <1> QED
    BY <1>2, <1>3, <1>7

\* INPUT shares its layer with nobody.
LEMMA InputAlone ==
  ASSUME NEW g, IsTemplate(g), Errors(g) = {}, NEW ls, ls = ExecutionLayers(g),
         NEW i \in DOMAIN ls, NEW n \in OfKind(g, "input") \cap ToSet(ls[i])
  PROVE  ls[i] = <<n>>
  <1>1. PICK h \in Ids(g) : OfKind(g, "input") = {h} /\ \A m \in Enabled(g) : Follows(g, h, m)
    BY ValidFacts
  <1>2. Sortable(g) /\ ~LeftOver(g) /\ n = h
    BY <1>1, ValidFacts
  <1>3. /\ ls[i] \in Seq(Ids(g)) /\ IsInjective(ls[i])
        /\ \A m \in ToSet(ls[i]) : m \in Enabled(g) /\ Depth(g)[m] = Depth(g)[n]
    BY <1>2, LayerFacts
  <1>4. ASSUME NEW m \in ToSet(ls[i]), m # n PROVE FALSE
    <2>1. m \in Ids(g) /\ n \in Ids(g) /\ m \in Enabled(g) /\ n \in Enabled(g)
      BY <1>3 DEF Enabled
    <2>2. Depth(g)[n] < Depth(g)[m]
      BY <1>1, <1>2, <1>4, <2>1, FollowsDeeper
    <2>3. Depth(g)[n] \in Nat /\ Depth(g)[m] \in Nat
      BY <1>2, <2>1, DepthFacts
    <2> QED
      BY <1>3, <2>2, <2>3
  <1>5. ToSet(ls[i]) = {n}
    BY <1>4
  <1> QED
    BY <1>3, <1>5, OnlyOne

\* Whatever follows a node is in a later layer.
LEMMA LaterLayer ==
  ASSUME NEW g, IsTemplate(g), Errors(g) = {}, NEW ls, ls = ExecutionLayers(g),
         NEW i \in DOMAIN ls, NEW j \in DOMAIN ls, NEW m \in ToSet(ls[i]), NEW n \in ToSet(ls[j]),
         Depth(g)[m] < Depth(g)[n]
  PROVE  i < j
  <1>1. Sortable(g) /\ ~LeftOver(g)
    BY ValidFacts
  <1>2. m \in Ids(g) /\ n \in Ids(g)
    BY <1>1, LayerFacts DEF Enabled
  <1>3. Depth(g)[n] \in Nat /\ Depth(g)[m] \in Nat /\ i \in Nat /\ j \in Nat
    BY <1>1, <1>2, DepthFacts, LayerFacts
  <1>4. i # j
    BY <1>1, <1>3, LayerFacts
  <1>5. ~(j < i)
    BY <1>1, <1>3, LayerFacts
  <1> QED
    BY <1>3, <1>4, <1>5

LEMMA LayersHold ==
  ASSUME NEW g, IsTemplate(g), Errors(g) = {}, NEW ls, ls = ExecutionLayers(g),
         NEW n \in Ids(g)
  PROVE  Cardinality({i \in DOMAIN ls : n \in ToSet(ls[i])}) = (IF n \in Enabled(g) THEN 1 ELSE 0)
  <1> DEFINE P == {i \in DOMAIN ls : n \in ToSet(ls[i])}
  <1>1. Sortable(g) /\ ~LeftOver(g)
    BY ValidFacts
  <1>2. CASE n \in Enabled(g)
    <2>1. PICK i \in DOMAIN ls : n \in ToSet(ls[i])
      BY <1>1, <1>2, LayerFacts
    <2>2. ASSUME NEW j \in DOMAIN ls, n \in ToSet(ls[j]), j # i PROVE FALSE
      <3>1. i \in Nat /\ j \in Nat /\ Depth(g)[n] \in Nat
        BY <1>1, DepthFacts, LayerFacts
      <3>2. i < j \/ j < i
        BY <2>2, <3>1
      <3>3. Depth(g)[n] < Depth(g)[n]
        BY <1>1, <2>1, <2>2, <3>2, LayerFacts
      <3> QED
        BY <3>1, <3>3
    <2>3. P = {i}
      BY <2>1, <2>2
    <2> QED
      BY <1>2, <2>3, FS_Singleton
  <1>3. CASE n \notin Enabled(g)
    <2>1. P = {}
      BY <1>1, <1>3, LayerFacts
    <2> QED
      BY <1>3, <2>1, FS_EmptySet
  <1> QED
    BY <1>2, <1>3

\* Without disabled nodes, a node has a parent in the layer before its own.
LEMMA ParentInLayerBefore ==
  ASSUME NEW g, IsTemplate(g), Errors(g) = {}, NEW ls, ls = ExecutionLayers(g),
         Enabled(g) = Ids(g), NEW i \in DOMAIN ls, i > 1, NEW n \in ToSet(ls[i])
  PROVE  \E m \in ToSet(ls[i-1]) : <<m, n>> \in Edges(g)
  <1> DEFINE r == Depth(g)
  <1>1. Sortable(g) /\ ~LeftOver(g)
    BY ValidFacts
  <1>2. /\ r \in [Ids(g) -> Nat]
        /\ \A x \in Ids(g) : r[x] > 0 =>
              \E m \in Ids(g) : <<m, x>> \in Edges(g) /\ r[m] = r[x] - 1
    BY <1>1, DepthFacts
  <1>3. /\ DOMAIN ls = 1..Len(ls) /\ Len(ls) \in Nat
        /\ \A k \in DOMAIN ls : ToSet(ls[k]) \subseteq Ids(g)
    BY <1>1, LayerFacts DEF Enabled
  <1>4. i - 1 \in DOMAIN ls /\ i - 1 < i
    BY <1>3
  <1>5. PICK x \in ToSet(ls[i-1]) : TRUE
    BY <1>1, <1>4, LayerFacts
  <1>6. x \in Ids(g) /\ n \in Ids(g)
    BY <1>3, <1>4
  <1>7. r[x] < r[n] /\ r[x] \in Nat /\ r[n] \in Nat
    BY <1>1, <1>2, <1>4, <1>6, LayerFacts
  <1>8. PICK m \in Ids(g) : <<m, n>> \in Edges(g) /\ r[m] = r[n] - 1
    BY <1>2, <1>6, <1>7
  <1>9. PICK k \in DOMAIN ls : m \in ToSet(ls[k])
    BY <1>1, LayerFacts
  <1>10. r[m] < r[n] /\ r[m] \in Nat
    BY <1>2, <1>7, <1>8
  <1>11. k < i
    BY <1>9, <1>10, LaterLayer
  <1>12. ~(k < i - 1)
    <2>1. k < i - 1 => r[m] < r[x]
      BY <1>1, <1>4, <1>5, <1>9, LayerFacts
    <2> QED
      BY <1>7, <1>8, <1>10, <2>1
  <1>13. k = i - 1
    BY <1>3, <1>4, <1>11, <1>12
  <1> QED
    BY <1>8, <1>9, <1>13

-----------------------------------------------------------------------------
(* The two calls.                                                          *)

DInv ==
    /\ template \in Templates
    /\ stage \in {"drawn", "rejected", "valid", "layered"}
    /\ stage # "drawn" => errors = Errors(template)
    /\ stage \in {"valid", "layered"} => errors = {}
    /\ stage = "layered" => layers = ExecutionLayers(template)

LEMMA DInvHolds == Spec => []DInv
  <1>1. Init => DInv
    BY DEF Init, DInv
  <1>2. DInv /\ [Next]_vars => DInv'
    <2> SUFFICES ASSUME DInv, [Next]_vars PROVE DInv'
      OBVIOUS
    <2>1. CASE Validate
      BY <2>1 DEF DInv, Validate
    <2>2. CASE ComputeLayers
      BY <2>2 DEF DInv, ComputeLayers
    <2>3. CASE UNCHANGED vars
      BY <2>3 DEF DInv, vars
    <2> QED
      BY <2>1, <2>2, <2>3 DEF Next
  <1> QED
    BY <1>1, <1>2, PTL DEF Spec

\* A template whose edges all have both their ends is told to have a cycle
\* exactly when it has one; one without another defect is told to have an orphan
\* exactly when a set of nodes that holds INPUT and is closed under edges misses
\* an enabled node.
THEOREM VerdictIsRight == Spec => []ValidationVerdict
  <1>1. DInv => ValidationVerdict
    <2> SUFFICES ASSUME DInv PROVE ValidationVerdict
      OBVIOUS
    <2>1. IsTemplate(template)
      BY TemplatesAssumption DEF DInv
    <2>2. stage # "drawn" => errors = Errors(template)
      BY DEF DInv
    <2>3. CycleVerdict
      BY <2>1, <2>2, CycleVerdictHolds DEF CycleVerdict
    <2>4. OrphanVerdict
      <3> SUFFICES ASSUME stage # "drawn", errors \subseteq {"orphan"}
                   PROVE  "orphan" \in errors <=>
                             \E S \in SUBSET Ids(template) :
                                 /\ OfKind(template, "input") \subseteq S
                                 /\ Closed(template, S)
                                 /\ Enabled(template) \ S # {}
        BY DEF OrphanVerdict
      <3>1. errors = Errors(template)
        BY <2>2
      <3> QED
        BY <2>1, <3>1, OrphanVerdictHolds
    <2> QED
      BY <2>3, <2>4 DEF ValidationVerdict
  <1> QED
    BY <1>1, DInvHolds, PTL

\* The layers of a valid template hold every enabled node once, INPUT by itself,
\* and what a node depends on, also through disabled nodes, before it; and no
\* later than that.
THEOREM LayersAreRight == Spec => []PlanRight
  <1>1. DInv => PlanRight
    <2> SUFFICES ASSUME DInv, stage = "layered" PROVE PlanSound /\ LayersTight
      BY DEF PlanRight, PlanSound, LayersTight
    <2>1. /\ IsTemplate(template) /\ Errors(template) = {}
          /\ layers = ExecutionLayers(template)
      BY TemplatesAssumption DEF DInv
    <2>2. Sortable(template) /\ ~LeftOver(template)
      BY <2>1, ValidFacts
    <2>3. ASSUME NEW n \in Ids(template)
          PROVE  Cardinality(LayerOf(n)) = (IF n \in Enabled(template) THEN 1 ELSE 0)
      BY <2>1, LayersHold, Zenon DEF LayerOf
    <2>4. ASSUME NEW i \in DOMAIN layers
          PROVE  /\ IsInjective(layers[i])
                 /\ \A n \in OfKind(template, "input") \cap ToSet(layers[i]) : layers[i] = <<n>>
      BY <2>1, <2>2, LayerFacts, InputAlone
    <2>5. ASSUME NEW m \in Enabled(template), NEW n \in Enabled(template), m # n,
                 Follows(template, m, n), NEW i \in LayerOf(m), NEW j \in LayerOf(n)
          PROVE  i < j
      <3>1. m \in Ids(template) /\ n \in Ids(template)
        BY DEF Enabled
      <3>2. Depth(template)[m] < Depth(template)[n]
        BY <2>2, <2>5, <3>1, FollowsDeeper
      <3>3. /\ i \in DOMAIN layers /\ m \in ToSet(layers[i])
            /\ j \in DOMAIN layers /\ n \in ToSet(layers[j])
        BY DEF LayerOf
      <3> QED
        BY <2>1, <3>2, <3>3, LaterLayer
    <2>6. PlanSound
      BY <2>3, <2>4, <2>5 DEF PlanSound
    <2>7. LayersTight
      BY <2>1, ParentInLayerBefore DEF LayersTight
    <2> QED
      BY <2>6, <2>7
  <1> QED
    BY <1>1, DInvHolds, PTL

\* PlanAssumption of PipelineRunner, of these nodes, layers and parents.
IsPlan(Node, Input, Output, Layers, Parents) ==
    LET LayerNodes(i) == {Layers[i][k] : k \in DOMAIN Layers[i]}
        Plan == UNION {LayerNodes(i) : i \in DOMAIN Layers}
    IN /\ Input \in Node
       /\ Output \in Node
       /\ Input # Output
       /\ Layers \in Seq(Seq(Node))
       /\ \A i \in DOMAIN Layers : Input \in LayerNodes(i) => Layers[i] = <<Input>>
       /\ Parents \in [Node -> SUBSET Node]
       /\ \A i \in DOMAIN Layers : \A n \in LayerNodes(i) :
             Parents[n] \cap Plan \subseteq UNION {LayerNodes(j) : j \in 1..(i-1)}
       /\ \A i, j \in DOMAIN Layers :
             i # j => LayerNodes(i) \cap LayerNodes(j) = {}
       /\ \A i \in DOMAIN Layers : \A k, l \in DOMAIN Layers[i] :
             k # l => Layers[i][k] # Layers[i][l]

\* PipelineRunner may assume what it does of its plan: the layers of every
\* template that validate() finds no error in are such a plan.
THEOREM ValidTemplateIsPlan ==
  ASSUME NEW g \in Templates, Errors(g) = {}
  PROVE  \E Input, Output \in Ids(g) :
            /\ OfKind(g, "input") = {Input}
            /\ OfKind(g, "output") = {Output}
            /\ IsPlan(Ids(g), Input, Output, ExecutionLayers(g),
                      [n \in Ids(g) |-> NodeParents(g, n)])
  <1> DEFINE ls == ExecutionLayers(g)
             parents == [n \in Ids(g) |-> NodeParents(g, n)]
             LayerNodes(i) == {ls[i][k] : k \in DOMAIN ls[i]}
             Plan == UNION {LayerNodes(i) : i \in DOMAIN ls}
  <1>1. IsTemplate(g)
    BY TemplatesAssumption
  <1>2. Sortable(g) /\ ~LeftOver(g)
    BY <1>1, ValidFacts
  <1>3. PICK h \in Ids(g) : OfKind(g, "input") = {h}
    BY <1>1, ValidFacts
  <1>4. PICK o \in Ids(g) : OfKind(g, "output") = {o}
    <2>1. Cardinality(OfKind(g, "output")) = 1
      BY ErrorsAre
    <2>2. OfKind(g, "output") \subseteq Ids(g)
      BY DEF OfKind
    <2>3. IsFiniteSet(OfKind(g, "output"))
      BY <1>1, <2>2, NodeFacts, FS_Subset
    <2>4. PICK x : OfKind(g, "output") = {x}
      BY <2>1, <2>3, FS_Singleton
    <2> QED
      BY <2>2, <2>4
  <1>5. h # o
    <2>1. g.kind[h] = "input" /\ g.kind[o] = "output"
      BY <1>3, <1>4 DEF OfKind
    <2> QED
      BY <2>1
  <1>6. ls \in Seq(Seq(Ids(g)))
    BY <1>2, LayersAre
  <1>7. \A i \in DOMAIN ls : LayerNodes(i) = ToSet(ls[i])
    BY DEF ToSet
  <1> HIDE DEF ls, LayerNodes
  <1>8. ASSUME NEW i \in DOMAIN ls, h \in LayerNodes(i) PROVE ls[i] = <<h>>
    BY <1>1, <1>3, <1>7, <1>8, InputAlone DEF ls
  <1>9. parents \in [Ids(g) -> SUBSET Ids(g)]
    BY <1>2, EdgeFacts DEF NodeParents
  <1>10. ASSUME NEW i \in DOMAIN ls, NEW n \in LayerNodes(i), NEW m \in parents[n] \cap Plan
         PROVE  m \in UNION {LayerNodes(j) : j \in 1..(i-1)}
    <2>1. PICK j \in DOMAIN ls : m \in LayerNodes(j)
      OBVIOUS
    <2>2. n \in ToSet(ls[i]) /\ m \in ToSet(ls[j])
      BY <1>7, <2>1
    <2>3. n \in Ids(g) /\ m \in Ids(g)
      BY <1>2, <2>2, LayerFacts DEF ls, Enabled
    <2>4. <<m, n>> \in Edges(g)
      <3>1. m \in NodeParents(g, n)
        BY <2>3
      <3> QED
        BY <1>2, <3>1, EdgeFacts, Zenon
    <2>5. Depth(g)[m] < Depth(g)[n]
      BY <1>2, <2>3, <2>4, DepthFacts
    <2>6. j < i
      BY <1>1, <2>2, <2>5, LaterLayer DEF ls
    <2>7. DOMAIN ls = 1..Len(ls) /\ Len(ls) \in Nat
      BY <1>6
    <2>8. j \in 1..(i-1)
      BY <2>6, <2>7
    <2> QED
      BY <2>1, <2>8
  <1>11. ASSUME NEW i \in DOMAIN ls, NEW j \in DOMAIN ls, i # j,
                NEW n \in LayerNodes(i) \cap LayerNodes(j)
         PROVE  FALSE
    <2>1. n \in ToSet(ls[i]) /\ n \in ToSet(ls[j])
      BY <1>7
    <2>2. n \in Ids(g)
      BY <1>2, <2>1, LayerFacts DEF ls, Enabled
    <2>3. i \in Nat /\ j \in Nat /\ Depth(g)[n] \in Nat
      BY <1>2, <1>6, <2>2, DepthFacts
    <2>4. i < j \/ j < i
      BY <1>11, <2>3
    <2>5. Depth(g)[n] < Depth(g)[n]
      BY <1>2, <2>1, <2>4, LayerFacts DEF ls
    <2> QED
      BY <2>3, <2>5
  <1>12. ASSUME NEW i \in DOMAIN ls, NEW k \in DOMAIN ls[i], NEW l \in DOMAIN ls[i], k # l
         PROVE  ls[i][k] # ls[i][l]
    <2>1. IsInjective(ls[i])
      BY <1>2, LayerFacts DEF ls
    <2> QED
      BY <1>12, <2>1 DEF IsInjective
  <1> HIDE DEF parents, Plan
  <1>13. IsPlan(Ids(g), h, o, ls, parents)
    BY <1>5, <1>6, <1>8, <1>9, <1>10, <1>11, <1>12 DEF IsPlan, LayerNodes, Plan
  <1> QED
    BY <1>3, <1>4, <1>13 DEF ls, parents

=============================================================================
