--------------------------- MODULE AlgorithmsProofs ---------------------------
(***************************************************************************)
(* Proofs about Algorithms: that the killers reach the tree of a process,  *)
(* that files arrive whole and that units run as configured, for listings, *)
(* files, archives and environments of any length.                         *)
(***************************************************************************)
EXTENDS Algorithms, FiniteSetTheorems, SequenceTheorems, TLAPS

-------------------------------------------------------------------------------
(* Numbers, induction and recursion. An induction is over a set of numbers *)
(* that holds the first one and with a number the next; a recursive        *)
(* function is built up along a measure.                                   *)

\* Every nonempty set of numbers has a least one.
LEMMA LeastNumber ==
    ASSUME NEW T, T \subseteq Nat, T # {}
    PROVE  \E x \in T : \A y \in T : x <= y
<1> DEFINE R == OpToRel(<, Nat)
<1>1. IsWellFoundedOn(R, Nat)
  BY NatLessThanWellFounded
<1>2. \A x, y \in Nat : x < y => <<x, y>> \in R
  BY DEF OpToRel
<1> HIDE DEF R
<1>3. PICK x \in T : \A y \in T : <<y, x>> \notin R
  BY <1>1, WFMin
<1>4. ASSUME NEW y \in T
      PROVE  x <= y
  <2>1. x \in Nat /\ y \in Nat /\ <<y, x>> \notin R
    BY <1>3
  <2>2. ~(y < x)
    BY <1>2, <2>1
  <2>3. QED BY <2>1, <2>2
<1>5. QED BY <1>4

\* A set that holds 0, and with a number the next, holds all numbers.
LEMMA Induction ==
    ASSUME NEW P, 0 \in P, \A n \in Nat : n \in P => n + 1 \in P
    PROVE  \A n \in Nat : n \in P
<1> DEFINE Bad == {n \in Nat : n \notin P}
<1>1. SUFFICES ASSUME Bad # {}
               PROVE  FALSE
  OBVIOUS
<1>2. PICK n \in Bad : \A y \in Bad : n <= y
  <2>1. Bad \subseteq Nat
    OBVIOUS
  <2> HIDE DEF Bad
  <2>2. QED BY <1>1, <2>1, LeastNumber
<1>3. n \in Nat /\ n # 0 /\ n \notin P
  OBVIOUS
<1>4. n - 1 \in Nat /\ ~(n <= n - 1) /\ (n - 1) + 1 = n
  BY <1>3
<1>5. n - 1 \in P
  BY <1>2, <1>4
<1>6. (n - 1) + 1 \in P
  BY <1>4, <1>5
<1>7. QED BY <1>3, <1>4, <1>6

\* Recursion.
Looks(D, T, m, G) ==
    \A x \in D : \A g, h \in [D -> T] :
        (\A y \in D : m[y] < m[x] => g[y] = h[y]) => G[<<x, g>>] = G[<<x, h>>]

Solves(D, T, m, G, n, f) ==
    f \in [D -> T] /\ \A x \in D : m[x] < n => f[x] = G[<<x, f>>]

\* Two functions that follow G up to a measure agree up to there.
LEMMA SolutionsAgree ==
    ASSUME NEW D, NEW T, NEW m \in [D -> Nat], NEW G, Looks(D, T, m, G),
           NEW n \in Nat, NEW f, NEW g, Solves(D, T, m, G, n, f), Solves(D, T, m, G, n, g)
    PROVE  \A x \in D : m[x] < n => f[x] = g[x]
<1> DEFINE Bad == {m[x] : x \in {y \in D : m[y] < n /\ f[y] # g[y]}}
<1>1. SUFFICES ASSUME Bad # {}
               PROVE  FALSE
  OBVIOUS
<1>2. PICK k \in Bad : \A y \in Bad : k <= y
  <2>1. Bad \subseteq Nat
    OBVIOUS
  <2>2. QED BY <1>1, <2>1, LeastNumber
<1>3. PICK x \in D : m[x] = k /\ m[x] < n /\ f[x] # g[x]
  OBVIOUS
<1>4. ASSUME NEW y \in D, m[y] < m[x]
      PROVE  f[y] = g[y]
  <2>1. SUFFICES ASSUME f[y] # g[y]
                 PROVE  FALSE
    OBVIOUS
  <2>2. m[y] \in Nat /\ m[x] \in Nat
    OBVIOUS
  <2>3. m[y] < n
    BY <1>3, <1>4, <2>2
  <2>4. m[y] \in Bad
    BY <2>1, <2>3
  <2>5. k <= m[y]
    BY <1>2, <2>4
  <2>6. QED BY <1>3, <1>4, <2>2, <2>5
<1>5. G[<<x, f>>] = G[<<x, g>>]
  BY <1>4 DEF Looks, Solves
<1>6. QED BY <1>3, <1>5 DEF Solves

\* A set that holds 0, and with a number up to n the next, holds all up to n.
LEMMA InductionTo ==
    ASSUME NEW n \in Nat, NEW P, 0 \in P, \A i \in 1 .. n : i - 1 \in P => i \in P
    PROVE  \A i \in 0 .. n : i \in P
<1> DEFINE Q == {i \in Nat : i <= n => i \in P}
<1>1. 0 \in Q
  OBVIOUS
<1>2. ASSUME NEW i \in Nat, i \in Q
      PROVE  i + 1 \in Q
  <2>1. SUFFICES ASSUME i + 1 <= n
                 PROVE  i + 1 \in P
    OBVIOUS
  <2>2. i \in P /\ i + 1 \in 1 .. n /\ (i + 1) - 1 = i
    BY <1>2, <2>1
  <2>3. (i + 1) - 1 \in P
    BY <2>2
  <2>4. QED BY <2>2, <2>3
<1>3. \A i \in Nat : i \in Q
  <2> HIDE DEF Q
  <2>1. QED BY <1>1, <1>2, Induction
<1>4. QED BY <1>3

\* Everything there is to check of a recursive definition, and what it defines.
IsRecursion(D, T, m, G) ==
    T # {} /\ m \in [D -> Nat] /\ G \in [D \X [D -> T] -> T] /\ Looks(D, T, m, G)

Satisfies(D, T, G, f) == f \in [D -> T] /\ \A x \in D : f[x] = G[<<x, f>>]

\* A recursion along a measure has a solution.
LEMMA Recursion ==
    ASSUME NEW D, NEW T, NEW m, NEW G, IsRecursion(D, T, m, G)
    PROVE  \E f : Satisfies(D, T, G, f)
<1> USE DEF IsRecursion
<1> DEFINE P == {n \in Nat : \E f : Solves(D, T, m, G, n, f)}
<1>1. 0 \in P
  <2>1. PICK t \in T : TRUE
    OBVIOUS
  <2>2. Solves(D, T, m, G, 0, [x \in D |-> t])
    BY DEF Solves
  <2>3. QED BY <2>2
<1>2. ASSUME NEW n \in Nat, n \in P
      PROVE  n + 1 \in P
  <2>1. PICK f : Solves(D, T, m, G, n, f)
    BY <1>2
  <2> DEFINE g == [x \in D |-> IF m[x] = n THEN G[<<x, f>>] ELSE f[x]]
  <2>2. f \in [D -> T] /\ g \in [D -> T]
    BY <2>1 DEF Solves
  <2>3. ASSUME NEW x \in D, m[x] < n + 1
        PROVE  g[x] = G[<<x, g>>]
    <3>1. \A y \in D : m[y] < m[x] => f[y] = g[y]
      <4>1. m[x] \in Nat /\ \A y \in D : m[y] \in Nat
        OBVIOUS
      <4>2. QED BY <2>3, <4>1
    <3>2. G[<<x, f>>] = G[<<x, g>>]
      BY <2>2, <3>1 DEF Looks
    <3>3. CASE m[x] = n
      BY <3>2, <3>3
    <3>4. CASE m[x] # n
      <4>1. m[x] < n
        <5>1. m[x] \in Nat
          OBVIOUS
        <5>2. QED BY <2>3, <3>4, <5>1
      <4>2. QED BY <2>1, <3>2, <3>4, <4>1 DEF Solves
    <3>5. QED BY <3>3, <3>4
  <2>4. Solves(D, T, m, G, n + 1, g)
    BY <2>2, <2>3 DEF Solves
  <2>5. QED BY <2>4
<1>3. \A n \in Nat : \E f : Solves(D, T, m, G, n, f)
  <2>1. \A n \in Nat : n \in P
    <3> HIDE DEF P
    <3> QED BY <1>1, <1>2, Induction
  <2>2. QED BY <2>1
<1> DEFINE F == [n \in Nat |-> CHOOSE f : Solves(D, T, m, G, n, f)]
           h == [x \in D |-> F[m[x] + 1][x]]
<1>4. \A n \in Nat : Solves(D, T, m, G, n, F[n])
  BY <1>3
<1>5. h \in [D -> T]
  <2>1. ASSUME NEW x \in D
        PROVE  F[m[x] + 1][x] \in T
    <3>1. m[x] + 1 \in Nat
      <4>1. m[x] \in Nat
        OBVIOUS
      <4>2. QED BY <4>1
    <3> HIDE DEF F
    <3>2. QED BY <1>4, <3>1 DEF Solves
  <2> HIDE DEF F
  <2>2. QED BY <2>1
<1>6. ASSUME NEW x \in D
      PROVE  h[x] = G[<<x, h>>]
  <2> DEFINE f == F[m[x] + 1]
  <2>1. m[x] \in Nat /\ m[x] + 1 \in Nat /\ m[x] < m[x] + 1 /\ h[x] = f[x]
    <3>1. m[x] \in Nat
      OBVIOUS
    <3>2. h[x] = f[x]
      OBVIOUS
    <3> HIDE DEF h, f
    <3>3. QED BY <3>1, <3>2
  <2>2. Solves(D, T, m, G, m[x] + 1, f)
    BY <1>4, <2>1
  <2>3. ASSUME NEW y \in D, m[y] < m[x]
        PROVE  h[y] = f[y]
    <3>1. m[y] \in Nat /\ m[y] + 1 \in Nat /\ m[y] < m[y] + 1 /\ h[y] = F[m[y] + 1][y]
      <4>1. m[y] \in Nat
        OBVIOUS
      <4>2. h[y] = F[m[y] + 1][y]
        OBVIOUS
      <4> HIDE DEF F, h, f
      <4>3. QED BY <4>1, <4>2
    <3>2. Solves(D, T, m, G, m[y] + 1, F[m[y] + 1])
      BY <1>4, <3>1
    <3>3. Solves(D, T, m, G, m[y] + 1, f)
      <4>1. \A z \in D : m[z] \in Nat /\ (m[z] < m[y] + 1 => m[z] < m[x] + 1)
        BY <2>1, <2>3, <3>1
      <4>2. QED BY <2>2, <4>1 DEF Solves
    <3> HIDE DEF F, h, f
    <3>4. QED BY <3>1, <3>2, <3>3, SolutionsAgree
  <2> HIDE DEF F, h, f
  <2>4. f \in [D -> T]
    BY <2>2 DEF Solves
  <2>5. G[<<x, h>>] = G[<<x, f>>]
    BY <1>5, <2>3, <2>4 DEF Looks
  <2>6. QED BY <2>1, <2>2, <2>5 DEF Solves
<1>7. QED BY <1>5, <1>6 DEF Satisfies

\* A sequence of all the positions in S, in order.
Enumerates(at, n, S) ==
    /\ at \in [1 .. n -> S]
    /\ \A j, k \in 1 .. n : j < k => at[j] < at[k]
    /\ \A p \in S : \E k \in 1 .. n : at[k] = p

Rank(S, p) == Cardinality({q \in S : q <= p})

\* The ranks of n numbers are 1 .. n: no two are equal, so none is left out.
LEMMA Ranks ==
    ASSUME NEW S \in SUBSET Nat, IsFiniteSet(S)
    PROVE  /\ Cardinality(S) \in Nat
           /\ \A p \in S : Rank(S, p) \in 1 .. Cardinality(S)
           /\ \A p, q \in S : Rank(S, p) < Rank(S, q) <=> p < q
           /\ \A k \in 1 .. Cardinality(S) : \E p \in S : Rank(S, p) = k
<1> DEFINE n == Cardinality(S)
           UpTo(p) == {q \in S : q <= p}
<1>1. n \in Nat
  BY FS_CardinalityType
<1>2. ASSUME NEW p \in S
      PROVE  /\ IsFiniteSet(UpTo(p)) /\ Rank(S, p) \in 1 .. n
  <2>1. IsFiniteSet(UpTo(p)) /\ Cardinality(UpTo(p)) <= n
    BY FS_Subset
  <2>2. Cardinality(UpTo(p)) \in Nat
    BY <2>1, FS_CardinalityType
  <2>3. p \in UpTo(p)
    OBVIOUS
  <2>4. Cardinality(UpTo(p)) # 0
    BY <2>1, <2>3, FS_EmptySet
  <2>5. QED BY <1>1, <2>1, <2>2, <2>4 DEF Rank
<1>3. \A p \in S : p \in Nat /\ Rank(S, p) \in Nat
  <2>1. ASSUME NEW p \in S
        PROVE  Rank(S, p) \in Nat
    <3>1. Rank(S, p) \in 1 .. n
      BY <1>2
    <3> HIDE DEF n
    <3>2. QED BY <1>1, <3>1
  <2>2. QED BY <2>1
<1>4. ASSUME NEW p \in S, NEW q \in S, p < q
      PROVE  Rank(S, p) < Rank(S, q)
  <2>1. UpTo(p) \in SUBSET UpTo(q) /\ q \in UpTo(q) /\ q \notin UpTo(p)
    <3>1. p \in Nat /\ q \in Nat /\ ~(q <= p) /\ q <= q
      BY <1>4, <1>3
    <3>2. \A x \in Nat : x <= p => x <= q
      BY <1>4, <3>1
    <3>3. QED BY <3>1, <3>2
  <2>2. /\ Cardinality(UpTo(p)) <= Cardinality(UpTo(q))
        /\ Cardinality(UpTo(q)) # Cardinality(UpTo(p))
    BY <1>2, <2>1, FS_Subset
  <2>3. Rank(S, p) \in Nat /\ Rank(S, q) \in Nat
    BY <1>3
  <2>4. QED BY <2>2, <2>3 DEF Rank
<1>5. ASSUME NEW p \in S, NEW q \in S, Rank(S, p) < Rank(S, q)
      PROVE  p < q
  <2>1. p \in Nat /\ q \in Nat /\ Rank(S, p) \in Nat /\ Rank(S, q) \in Nat
    BY <1>3
  <2>2. CASE q < p
    <3>1. Rank(S, q) < Rank(S, p)
      BY <1>4, <2>2
    <3>2. QED BY <1>5, <2>1, <3>1
  <2>3. CASE q = p
    BY <1>5, <2>1, <2>3
  <2>4. QED BY <2>1, <2>2, <2>3
<1> DEFINE f == [p \in S |-> Rank(S, p)]
<1>6. f \in Injection(S, 1 .. n)
  <2>1. f \in [S -> 1 .. n]
    BY <1>2
  <2>2. ASSUME NEW p \in S, NEW q \in S, f[p] = f[q]
        PROVE  p = q
    <3>1. p \in Nat /\ q \in Nat /\ Rank(S, p) = Rank(S, q) /\ Rank(S, p) \in Nat
      BY <1>3, <2>2
    <3>2. ~(p < q) /\ ~(q < p)
      BY <1>4, <3>1
    <3>3. QED BY <3>1, <3>2
  <2> HIDE DEF f
  <2>3. QED BY <2>1, <2>2 DEF Injection, IsInjective
<1>7. IsFiniteSet(1 .. n) /\ Cardinality(1 .. n) = n
  BY <1>1, FS_Interval
<1>8. f \in Surjection(S, 1 .. n)
  <2> HIDE DEF f
  <2>1. QED BY <1>6, <1>7, FS_Injection
<1>9. ASSUME NEW k \in 1 .. n
      PROVE  \E p \in S : Rank(S, p) = k
  BY <1>8 DEF Surjection
<1>10. QED BY <1>1, <1>2, <1>4, <1>5, <1>9

\* InOrder gives every position, in order.
LEMMA InOrderEnumerates ==
    ASSUME NEW n \in Nat, NEW S, S \subseteq 1 .. n
    PROVE  /\ IsFiniteSet(S) /\ Cardinality(S) \in Nat
           /\ Enumerates(InOrder(S), Cardinality(S), S)
<1> DEFINE at == InOrder(S)
           size == Cardinality(S)
<1>1. IsFiniteSet(S) /\ S \in SUBSET Nat
  <2>1. IsFiniteSet(1 .. n)
    <3>1. n \in Int /\ 1 \in Int
      OBVIOUS
    <3>2. QED BY <3>1, FS_Interval
  <2>2. IsFiniteSet(S)
    BY <2>1, FS_Subset
  <2>3. QED BY <2>2
<1>2. /\ size \in Nat
      /\ \A p \in S : Rank(S, p) \in 1 .. size
      /\ \A p, q \in S : Rank(S, p) < Rank(S, q) <=> p < q
      /\ \A k \in 1 .. size : \E p \in S : Rank(S, p) = k
  BY <1>1, Ranks
<1>3. DOMAIN at = 1 .. size /\ \A k \in 1 .. size : at[k] \in S /\ Rank(S, at[k]) = k
  BY <1>2 DEF InOrder, Rank
<1>4. at = [k \in 1 .. size |-> at[k]]
  BY DEF InOrder
<1> HIDE DEF at, size
<1>5. at \in [1 .. size -> S]
  BY <1>3, <1>4
<1>6. \A j, k \in 1 .. size : j < k => at[j] < at[k]
  BY <1>2, <1>3
<1>7. ASSUME NEW p \in S
      PROVE  \E k \in 1 .. size : at[k] = p
  <2>1. at[Rank(S, p)] \in S /\ Rank(S, at[Rank(S, p)]) = Rank(S, p) /\ Rank(S, p) \in 1 .. size
    BY <1>2, <1>3
  <2> DEFINE q == at[Rank(S, p)]
  <2>2. q \in Nat /\ p \in Nat /\ ~(q < p) /\ ~(p < q)
    <3>1. q \in S /\ Rank(S, q) = Rank(S, p) /\ Rank(S, p) \in Nat
      BY <2>1
    <3> HIDE DEF q
    <3>2. ~(Rank(S, q) < Rank(S, p)) /\ ~(Rank(S, p) < Rank(S, q))
      BY <3>1
    <3>3. QED BY <1>1, <1>2, <3>1, <3>2
  <2>3. q = p
    <3> HIDE DEF q
    <3> QED BY <2>2
  <2>4. QED BY <2>1, <2>3
<1>8. QED BY <1>1, <1>2, <1>5, <1>6, <1>7 DEF Enumerates, at, size

-------------------------------------------------------------------------------
(* Counting recursions, and KillChildren.                                  *)

\* Counting up: a step for each number.
IsCount(n, T, base, step) == n \in Nat /\ base \in T /\ step \in [(1 .. n) \X T -> T]

Counts(n, T, base, step, f) ==
    f \in [0 .. n -> T] /\ f[0] = base /\ \A i \in 1 .. n : f[i] = step[<<i, f[i - 1]>>]

\* A recursion that counts up has a solution.
LEMMA CountingRecursion ==
    ASSUME NEW n, NEW T, NEW base, NEW step, IsCount(n, T, base, step)
    PROVE  \E f : Counts(n, T, base, step, f)
<1> DEFINE D == 0 .. n
           m == [i \in D |-> i]
           G == [a \in D \X [D -> T] |->
                   IF a[1] = 0 THEN base ELSE step[<<a[1], a[2][a[1] - 1]>>]]
<1> USE DEF IsCount
<1>1. m \in [D -> Nat] /\ \A i \in D : m[i] = i
  OBVIOUS
<1>2. \A i \in D : i = 0 \/ (i \in 1 .. n /\ i - 1 \in D /\ i - 1 < i)
  OBVIOUS
<1>3. \A i \in D, f \in [D -> T] :
        G[<<i, f>>] = IF i = 0 THEN base ELSE step[<<i, f[i - 1]>>]
  OBVIOUS
<1>4. G \in [D \X [D -> T] -> T]
  <2>1. ASSUME NEW a \in D \X [D -> T]
        PROVE  (IF a[1] = 0 THEN base ELSE step[<<a[1], a[2][a[1] - 1]>>]) \in T
    <3>1. a[1] \in D /\ a[2] \in [D -> T]
      OBVIOUS
    <3> HIDE DEF D
    <3>2. CASE a[1] # 0
      <4>1. a[2][a[1] - 1] \in T
        BY <1>2, <3>1, <3>2
      <4>2. QED BY <1>2, <3>1, <3>2, <4>1
    <3>3. QED BY <3>2
  <2>2. QED BY <2>1
<1> HIDE DEF D, m, G
<1>5. Looks(D, T, m, G)
  <2>1. SUFFICES ASSUME NEW i \in D, NEW g \in [D -> T], NEW h \in [D -> T],
                        \A j \in D : m[j] < m[i] => g[j] = h[j]
                 PROVE  G[<<i, g>>] = G[<<i, h>>]
    BY DEF Looks
  <2>2. i # 0 => g[i - 1] = h[i - 1]
    <3>1. i # 0 => i - 1 \in D /\ m[i - 1] < m[i]
      BY <1>1, <1>2
    <3>2. QED BY <2>1, <3>1
  <2>3. QED BY <1>3, <2>2
<1>6. PICK f : Satisfies(D, T, G, f)
  <2>1. IsRecursion(D, T, m, G)
    BY <1>1, <1>4, <1>5 DEF IsRecursion
  <2>2. QED BY <2>1, Recursion
<1>7. f \in [D -> T] /\ \A i \in D : f[i] = IF i = 0 THEN base ELSE step[<<i, f[i - 1]>>]
  BY <1>3, <1>6 DEF Satisfies
<1>8. f \in [0 .. n -> T] /\ 0 \in D /\ \A i \in 1 .. n : i \in D /\ i # 0
  BY <1>7 DEF D
<1>9. QED BY <1>7, <1>8 DEF Counts

Listing(processes) ==
    /\ processes \in Seq([pid : Nat, ppid : Nat])
    /\ \A i, j \in DOMAIN processes : i < j => processes[i].pid < processes[j].pid

\* One step of KillChildren.
Found(pids, n, self, adopter, orphans, processes) ==
    pids \cup {p \in {processes[n].pid} :
                 ParentRead(processes[n], n \in orphans, adopter, self, pids) \in pids}

\* What the one pass of KillChildren computes, process by process.
LEMMA KillChildrenIs ==
    ASSUME NEW processes \in Seq([pid : Nat, ppid : Nat]), NEW self,
           NEW adopter, NEW orphans
    PROVE  \E pids \in [0 .. Len(processes) -> SUBSET (Pids(processes) \cup {self})] :
             /\ pids[0] = {self}
             /\ \A n \in 1 .. Len(processes) :
                   pids[n] = Found(pids[n - 1], n, self, adopter, orphans, processes)
             /\ KillChildren(self, adopter, orphans, processes) = pids[Len(processes)] \ {self}
<1> DEFINE N == Len(processes)
           T == SUBSET (Pids(processes) \cup {self})
           step == [a \in (1 .. N) \X T |-> Found(a[2], a[1], self, adopter, orphans, processes)]
           F(f) == [n \in 0 .. N |->
                      IF n = 0 THEN {self}
                      ELSE f[n - 1] \cup
                             {p \in {processes[n].pid} :
                                ParentRead(processes[n], n \in orphans, adopter, self, f[n - 1])
                                  \in f[n - 1]}]
           pids == CHOOSE f : f = F(f)
<1>1. N \in Nat /\ DOMAIN processes = 1 .. N
  BY LenProperties
<1>2. {self} \in T
  OBVIOUS
<1>3. step \in [(1 .. N) \X T -> T]
  BY <1>1 DEF Found, Pids
<1>4. PICK f : Counts(N, T, {self}, step, f)
  <2>1. IsCount(N, T, {self}, step)
    BY <1>1, <1>2, <1>3 DEF IsCount
  <2> HIDE DEF N, T, step
  <2>2. QED BY <2>1, CountingRecursion
<1>5. /\ f \in [0 .. N -> T] /\ f[0] = {self}
      /\ \A n \in 1 .. N : n - 1 \in 0 .. N /\ f[n - 1] \in T /\ f[n] = step[<<n, f[n - 1]>>]
  <2>1. \A n \in 1 .. N : n - 1 \in 0 .. N
    BY <1>1
  <2> HIDE DEF N, T, step
  <2>2. QED BY <1>4, <2>1 DEF Counts
<1>6. \A n \in 1 .. N : f[n] = Found(f[n - 1], n, self, adopter, orphans, processes)
  BY <1>5
<1>7. f = F(f)
  <2>1. \A n \in 0 .. N : n = 0 \/ n \in 1 .. N
    BY <1>1
  <2>2. QED BY <1>5, <1>6, <2>1 DEF Found
<1>8. pids = F(pids)
  BY <1>7
<1>9. KillChildren(self, adopter, orphans, processes) = pids[N] \ {self}
  BY DEF KillChildren
<1>10. /\ DOMAIN pids = 0 .. N /\ 0 \in 0 .. N /\ pids[0] = {self}
       /\ pids = [n \in 0 .. N |-> pids[n]]
       /\ \A n \in 1 .. N : pids[n] = Found(pids[n - 1], n, self, adopter, orphans, processes)
  <2>1. 0 \in 0 .. N /\ \A n \in 1 .. N : n \in 0 .. N /\ n # 0
    BY <1>1
  <2> HIDE DEF pids
  <2>2. QED BY <1>8, <2>1 DEF Found
<1> HIDE DEF pids, F
<1>11. \A n \in 0 .. N : pids[n] \in T
  <2> DEFINE P == {n \in 0 .. N : pids[n] \in T}
  <2>1. 0 \in P
    BY <1>2, <1>10
  <2>2. ASSUME NEW n \in 1 .. N, n - 1 \in P
        PROVE  n \in P
    <3>1. n \in 0 .. N /\ processes[n].pid \in Pids(processes)
      BY <1>1 DEF Pids
    <3>2. Found(pids[n - 1], n, self, adopter, orphans, processes) \in T
      BY <2>2, <3>1 DEF Found
    <3>3. QED BY <1>10, <3>1, <3>2
  <2> HIDE DEF P, N
  <2>3. \A n \in 0 .. N : n \in P
    BY <1>1, <2>1, <2>2, InductionTo
  <2>4. QED BY <2>3 DEF P
<1>12. QED BY <1>9, <1>10, <1>11

-------------------------------------------------------------------------------
Closed(S, processes) == \A i \in DOMAIN processes :
                           processes[i].ppid \in S => processes[i].pid \in S

\* The tree below a process is the least set that is closed.
LEMMA TreeIsLeast ==
    ASSUME NEW pid, NEW processes
    PROVE  /\ pid \in Tree(pid, processes)
           /\ Tree(pid, processes) \subseteq Pids(processes) \cup {pid}
           /\ Closed(Tree(pid, processes), processes)
           /\ \A S : pid \in S /\ Closed(S, processes) => Tree(pid, processes) \subseteq S
<1> DEFINE U == Pids(processes) \cup {pid}
           T == Tree(pid, processes)
<1>1. \A p : p \in T <=> p \in U /\ \A S \in SUBSET U : pid \in S /\ Closed(S, processes) => p \in S
  BY DEF Tree, Closed
<1>2. \A i \in DOMAIN processes : processes[i].pid \in U
  BY DEF Pids
<1> HIDE DEF T
<1>3. pid \in T /\ T \subseteq U
  BY <1>1
<1>4. Closed(T, processes)
  <2>1. SUFFICES ASSUME NEW i \in DOMAIN processes, processes[i].ppid \in T
                 PROVE  processes[i].pid \in T
    BY DEF Closed
  <2>2. ASSUME NEW S \in SUBSET U, pid \in S, Closed(S, processes)
        PROVE  processes[i].pid \in S
    <3>1. processes[i].ppid \in S
      BY <1>1, <2>1, <2>2
    <3>2. QED BY <2>2, <3>1 DEF Closed
  <2>3. QED BY <1>1, <1>2, <2>2
<1>5. ASSUME NEW S, pid \in S, Closed(S, processes)
      PROVE  T \subseteq S
  <2>1. S \cap U \in SUBSET U /\ pid \in S \cap U
    BY <1>5
  <2>2. Closed(S \cap U, processes)
    BY <1>2, <1>5 DEF Closed
  <2>3. T \subseteq S \cap U
    BY <1>1, <2>1, <2>2
  <2>4. QED BY <2>3
<1>6. QED BY <1>3, <1>4, <1>5 DEF T

\* KillChildren finds descendants only, all children, and all descendants in a
\* listing where every parent comes before its children and nobody is orphaned, or
\* the one who asks adopts the orphans.
LEMMA KillChildrenFindsDescendants ==
    ASSUME NEW processes, Listing(processes), NEW self, NEW adopter, NEW orphans
    PROVE  LET killed == KillChildren(self, adopter, orphans, processes) IN
           /\ killed \subseteq Tree(self, processes) \ {self}
           /\ \A i \in DOMAIN processes :
                processes[i].ppid = self /\ processes[i].pid # self => processes[i].pid \in killed
           /\ orphans = {} \/ adopter = self
                => ((\A i \in DOMAIN processes : processes[i].ppid < processes[i].pid)
                      => killed = Tree(self, processes) \ {self})
<1> DEFINE N == Len(processes)
           T == Tree(self, processes)
           killed == KillChildren(self, adopter, orphans, processes)
<1>1. /\ N \in Nat /\ DOMAIN processes = 1 .. N
      /\ processes \in Seq([pid : Nat, ppid : Nat])
      /\ \A i \in 1 .. N : processes[i].pid \in Nat
  <2>1. processes \in Seq([pid : Nat, ppid : Nat])
    BY DEF Listing
  <2>2. N \in Nat /\ DOMAIN processes = 1 .. N
    BY <2>1, LenProperties
  <2>3. \A i \in 1 .. N : processes[i] \in [pid : Nat, ppid : Nat]
    BY <2>1, <2>2, ElementOfSeq
  <2>4. QED BY <2>1, <2>2, <2>3
<1>2. PICK pids \in [0 .. N -> SUBSET (Pids(processes) \cup {self})] :
        /\ pids[0] = {self}
        /\ \A n \in 1 .. N :
              pids[n] = Found(pids[n - 1], n, self, adopter, orphans, processes)
        /\ killed = pids[N] \ {self}
  <2>1. processes \in Seq([pid : Nat, ppid : Nat])
    BY <1>1
  <2>2. QED BY ONLY <2>1, KillChildrenIs
<1>3. /\ self \in T /\ Closed(T, processes)
      /\ \A S : self \in S /\ Closed(S, processes) => T \subseteq S
  BY TreeIsLeast
<1> HIDE DEF N, T, killed
<1>4. N \in 0 .. N
  BY <1>1
<1>5. \A n \in 0 .. N : pids[n] \subseteq T
  <2> DEFINE P == {n \in 0 .. N : pids[n] \subseteq T}
  <2>1. 0 \in P
    BY <1>1, <1>2, <1>3
  <2>2. ASSUME NEW n \in 1 .. N, n - 1 \in P
        PROVE  n \in P
    <3>1. n \in 0 .. N /\ n \in DOMAIN processes /\ pids[n - 1] \subseteq T
      BY <1>1, <2>2
    <3>2. ParentRead(processes[n], n \in orphans, adopter, self, pids[n - 1]) \in pids[n - 1]
            => processes[n].ppid \in pids[n - 1]
      BY DEF ParentRead
    <3>3. Found(pids[n - 1], n, self, adopter, orphans, processes) \subseteq T
      BY <1>3, <3>1, <3>2 DEF Found, Closed
    <3>4. QED BY <1>2, <3>1, <3>3
  <2> HIDE DEF P
  <2>3. \A n \in 0 .. N : n \in P
    BY <1>1, <2>1, <2>2, InductionTo
  <2>4. QED BY <2>3 DEF P
<1>6. killed \subseteq T \ {self}
  BY <1>2, <1>4, <1>5
<1>7. \A n \in 0 .. N : \A k \in 0 .. n : pids[k] \subseteq pids[n]
  <2> DEFINE P == {n \in 0 .. N : \A k \in 0 .. n : pids[k] \subseteq pids[n]}
  <2>1. 0 \in P
    BY <1>1
  <2>2. ASSUME NEW n \in 1 .. N, n - 1 \in P
        PROVE  n \in P
    <3>1. n \in 0 .. N /\ \A k \in 0 .. n : k = n \/ k \in 0 .. n - 1
      BY <1>1
    <3>2. pids[n - 1] \subseteq pids[n]
      BY <1>2 DEF Found
    <3>3. QED BY <2>2, <3>1, <3>2
  <2> HIDE DEF P
  <2>3. \A n \in 0 .. N : n \in P
    BY <1>1, <2>1, <2>2, InductionTo
  <2>4. QED BY <2>3 DEF P
<1>8. \A n \in 0 .. N : \A x \in pids[n] :
        x = self \/ \E j \in 1 .. N : x = processes[j].pid /\ x \in pids[j]
  <2> DEFINE P == {n \in 0 .. N : \A x \in pids[n] :
                     x = self \/ \E j \in 1 .. N : x = processes[j].pid /\ x \in pids[j]}
  <2>1. 0 \in P
    BY <1>1, <1>2
  <2>2. ASSUME NEW n \in 1 .. N, n - 1 \in P
        PROVE  n \in P
    <3>1. n \in 0 .. N
      BY <1>1
    <3>2. ASSUME NEW x \in pids[n]
          PROVE  x = self \/ \E j \in 1 .. N : x = processes[j].pid /\ x \in pids[j]
      <4>1. x \in pids[n - 1] \/ x = processes[n].pid
        BY <1>2 DEF Found
      <4>2. QED BY <2>2, <4>1
    <3>3. QED BY <3>1, <3>2
  <2> HIDE DEF P
  <2>3. \A n \in 0 .. N : n \in P
    BY <1>1, <2>1, <2>2, InductionTo
  <2>4. QED BY <2>3 DEF P
\* A process is found at its turn if its parent was, and it is no orphan then, or
\* the one who asks has adopted it.
<1>9. ASSUME NEW i \in 1 .. N, processes[i].ppid \in pids[i - 1],
             processes[i].ppid = self \/ orphans = {} \/ adopter = self
      PROVE  processes[i].pid \in pids[N]
  <2>1. i \in 0 .. N /\ i - 1 \in 0 .. N /\ 0 \in 0 .. i - 1
    BY <1>1
  <2>2. self \in pids[i - 1]
    BY <1>2, <1>7, <2>1
  <2>3. ParentRead(processes[i], i \in orphans, adopter, self, pids[i - 1]) \in pids[i - 1]
    BY <1>9, <2>2 DEF ParentRead
  <2>4. processes[i].pid \in pids[i]
    BY <1>2, <2>3 DEF Found
  <2>5. QED BY <1>4, <1>7, <2>1, <2>4
<1>10. ASSUME NEW i \in DOMAIN processes, processes[i].ppid = self, processes[i].pid # self
       PROVE  processes[i].pid \in killed
  <2>1. i \in 1 .. N /\ i - 1 \in 0 .. N /\ 0 \in 0 .. i - 1
    BY <1>1
  <2>2. processes[i].ppid \in pids[i - 1]
    BY <1>2, <1>7, <1>10, <2>1
  <2>3. QED BY <1>2, <1>9, <1>10, <2>1, <2>2
<1>11. ASSUME \A i \in DOMAIN processes : processes[i].ppid < processes[i].pid,
              orphans = {} \/ adopter = self
       PROVE  T \ {self} \subseteq killed
  <2>1. ASSUME NEW i \in DOMAIN processes, processes[i].ppid \in pids[N]
        PROVE  processes[i].pid \in pids[N]
    <3>1. i \in 1 .. N /\ i \in 0 .. N /\ i - 1 \in 0 .. N /\ 0 \in 0 .. i - 1
      BY <1>1
    <3>2. processes[i].ppid \in pids[i - 1]
      <4>1. CASE processes[i].ppid = self
        BY <1>2, <1>7, <3>1, <4>1
      <4>2. ASSUME NEW j \in 1 .. N, processes[i].ppid = processes[j].pid,
                   processes[i].ppid \in pids[j]
            PROVE  processes[i].ppid \in pids[i - 1]
        <5>1. processes[j].pid < processes[i].pid
          BY <1>11, <4>2
        <5>2. ~(i <= j)
          <6>1. /\ processes[i].pid \in Nat /\ processes[j].pid \in Nat
                /\ i < j => processes[i].pid < processes[j].pid
            BY <1>1, <3>1 DEF Listing
          <6>2. QED BY <3>1, <5>1, <6>1
        <5>3. j \in 0 .. i - 1
          BY <3>1, <5>2
        <5>4. QED BY <1>7, <3>1, <4>2, <5>3
      <4>3. QED BY <1>4, <1>8, <2>1, <4>1, <4>2
    <3>3. QED BY <1>9, <1>11, <3>1, <3>2
  <2>2. Closed(pids[N], processes)
    BY <2>1 DEF Closed
  <2>3. self \in pids[N]
    <3>1. 0 \in 0 .. N
      BY <1>1
    <3>2. QED BY <1>2, <1>4, <1>7, <3>1
  <2>4. QED BY <1>2, <1>3, <2>2, <2>3
<1>12. QED BY <1>6, <1>10, <1>11 DEF T, killed

-------------------------------------------------------------------------------
(* Concatenations.                                                         *)

\* Length, elements and set of a concatenation.
LEMMA Concatenated ==
    ASSUME NEW S, NEW a \in Seq(S), NEW b \in Seq(S)
    PROVE  /\ a \o b \in Seq(S)
           /\ ToSet(a \o b) = ToSet(a) \cup ToSet(b)
           /\ Len(a \o b) = Len(a) + Len(b)
           /\ Len(a) \in Nat /\ Len(b) \in Nat
           /\ DOMAIN a = 1 .. Len(a) /\ DOMAIN b = 1 .. Len(b)
           /\ DOMAIN (a \o b) = 1 .. Len(a) + Len(b)
           /\ \A i \in 1 .. Len(a) : (a \o b)[i] = a[i]
           /\ \A i \in 1 .. Len(b) : (a \o b)[Len(a) + i] = b[i]
<1>1. /\ a \o b \in Seq(S) /\ Len(a \o b) = Len(a) + Len(b)
      /\ \A i \in 1 .. Len(a) : (a \o b)[i] = a[i]
      /\ \A i \in 1 .. Len(b) : (a \o b)[Len(a) + i] = b[i]
      /\ \A i \in 1 .. Len(a) + Len(b) :
            i \in 1 .. Len(a) \/ \E k \in 1 .. Len(b) : i = Len(a) + k
      /\ Len(a) \in Nat /\ Len(b) \in Nat
  BY ConcatProperties, LenProperties
<1>2. /\ DOMAIN a = 1 .. Len(a) /\ DOMAIN b = 1 .. Len(b)
      /\ DOMAIN (a \o b) = 1 .. Len(a) + Len(b)
  BY <1>1, LenProperties
<1>3. ASSUME NEW x \in ToSet(a \o b)
      PROVE  x \in ToSet(a) \cup ToSet(b)
  <2>1. PICK i \in 1 .. Len(a) + Len(b) : x = (a \o b)[i]
    BY <1>2 DEF ToSet
  <2>2. CASE i \in 1 .. Len(a)
    BY <1>1, <1>2, <2>1, <2>2 DEF ToSet
  <2>3. ASSUME NEW k \in 1 .. Len(b), i = Len(a) + k
        PROVE  x \in ToSet(b)
    BY <1>1, <1>2, <2>1, <2>3 DEF ToSet
  <2>4. QED BY <1>1, <2>2, <2>3
<1>4. ASSUME NEW x \in ToSet(a)
      PROVE  x \in ToSet(a \o b)
  <2>1. PICK i \in 1 .. Len(a) : x = a[i]
    BY <1>2 DEF ToSet
  <2>2. i \in 1 .. Len(a) + Len(b) /\ x = (a \o b)[i]
    BY <1>1, <2>1
  <2>3. QED BY <1>2, <2>2 DEF ToSet
<1>5. ASSUME NEW x \in ToSet(b)
      PROVE  x \in ToSet(a \o b)
  <2>1. PICK i \in 1 .. Len(b) : x = b[i]
    BY <1>2 DEF ToSet
  <2>2. Len(a) + i \in 1 .. Len(a) + Len(b) /\ x = (a \o b)[Len(a) + i]
    BY <1>1, <2>1
  <2>3. QED BY <1>2, <2>2 DEF ToSet
<1>6. QED BY <1>1, <1>2, <1>3, <1>4, <1>5

\* Where a position of a concatenation comes from.
LEMMA Halves ==
    ASSUME NEW S, NEW a \in Seq(S), NEW b \in Seq(S), NEW i \in DOMAIN (a \o b)
    PROVE  \/ i \in DOMAIN a /\ (a \o b)[i] = a[i]
           \/ \E k \in DOMAIN b : i = Len(a) + k /\ (a \o b)[i] = b[k]
<1>1. i \in 1 .. Len(a) \/ (i - Len(a) \in 1 .. Len(b) /\ i = Len(a) + (i - Len(a)))
  BY Concatenated
<1>2. QED BY <1>1, Concatenated

\* In s the first of every pair in E comes before the second.
Sorted(s, E) == \A j, k \in DOMAIN s : <<s[j], s[k]>> \in E => j < k

Once(s) == \A j, k \in DOMAIN s : s[j] = s[k] => j = k

\* A concatenation is sorted if nothing in it has to be the other way round.
LEMMA SortedConcatenation ==
    ASSUME NEW S, NEW a \in Seq(S), NEW b \in Seq(S), NEW E, Sorted(a, E), Sorted(b, E),
           \A x \in ToSet(b), y \in ToSet(a) : <<x, y>> \notin E
    PROVE  Sorted(a \o b, E)
<1> DEFINE c == a \o b
<1>1. SUFFICES ASSUME NEW j \in DOMAIN c, NEW k \in DOMAIN c, <<c[j], c[k]>> \in E
               PROVE  j < k
  BY DEF Sorted
<1>2. Len(a) \in Nat /\ DOMAIN a = 1 .. Len(a) /\ Len(b) \in Nat /\ DOMAIN b = 1 .. Len(b)
  BY Concatenated
<1>3. (j \in DOMAIN a /\ c[j] = a[j]) \/ (\E i \in DOMAIN b : j = Len(a) + i /\ c[j] = b[i])
  BY Halves
<1>4. (k \in DOMAIN a /\ c[k] = a[k]) \/ (\E i \in DOMAIN b : k = Len(a) + i /\ c[k] = b[i])
  BY Halves
<1> HIDE DEF c
<1>5. CASE j \in DOMAIN a /\ c[j] = a[j]
  <2>1. CASE k \in DOMAIN a /\ c[k] = a[k]
    BY <1>1, <1>5, <2>1 DEF Sorted
  <2>2. ASSUME NEW i \in DOMAIN b, k = Len(a) + i
        PROVE  j < k
    BY <1>2, <1>5, <2>2
  <2>3. QED BY <1>4, <2>1, <2>2
<1>6. ASSUME NEW i \in DOMAIN b, j = Len(a) + i, c[j] = b[i]
      PROVE  j < k
  <2>1. CASE k \in DOMAIN a /\ c[k] = a[k]
    BY <1>1, <1>6, <2>1 DEF ToSet
  <2>2. ASSUME NEW h \in DOMAIN b, k = Len(a) + h, c[k] = b[h]
        PROVE  j < k
    <3>1. i < h
      BY <1>1, <1>6, <2>2 DEF Sorted
    <3>2. QED BY <1>2, <1>6, <2>2, <3>1
  <2>3. QED BY <1>4, <2>1, <2>2
<1>7. QED BY <1>3, <1>5, <1>6

\* Nothing comes twice in a concatenation of parts that share nothing.
LEMMA OnceConcatenation ==
    ASSUME NEW S, NEW a \in Seq(S), NEW b \in Seq(S), Once(a), Once(b),
           ToSet(a) \cap ToSet(b) = {}
    PROVE  Once(a \o b)
<1> DEFINE c == a \o b
<1>1. SUFFICES ASSUME NEW j \in DOMAIN c, NEW k \in DOMAIN c, c[j] = c[k]
               PROVE  j = k
  BY DEF Once
<1>2. Len(a) \in Nat /\ DOMAIN a = 1 .. Len(a) /\ Len(b) \in Nat /\ DOMAIN b = 1 .. Len(b)
  BY Concatenated
<1>3. (j \in DOMAIN a /\ c[j] = a[j]) \/ (\E i \in DOMAIN b : j = Len(a) + i /\ c[j] = b[i])
  BY Halves
<1>4. (k \in DOMAIN a /\ c[k] = a[k]) \/ (\E i \in DOMAIN b : k = Len(a) + i /\ c[k] = b[i])
  BY Halves
<1> HIDE DEF c
<1>5. CASE j \in DOMAIN a /\ c[j] = a[j]
  <2>1. CASE k \in DOMAIN a /\ c[k] = a[k]
    BY <1>1, <1>5, <2>1 DEF Once
  <2>2. ASSUME NEW i \in DOMAIN b, c[k] = b[i]
        PROVE  j = k
    BY <1>1, <1>5, <2>2 DEF ToSet
  <2>3. QED BY <1>4, <2>1, <2>2
<1>6. ASSUME NEW i \in DOMAIN b, j = Len(a) + i, c[j] = b[i]
      PROVE  j = k
  <2>1. CASE k \in DOMAIN a /\ c[k] = a[k]
    BY <1>1, <1>6, <2>1 DEF ToSet
  <2>2. ASSUME NEW h \in DOMAIN b, k = Len(a) + h, c[k] = b[h]
        PROVE  j = k
    <3>1. i = h
      BY <1>1, <1>6, <2>2 DEF Once
    <3>2. QED BY <1>6, <2>2, <3>1
  <2>3. QED BY <1>4, <2>1, <2>2
<1>7. QED BY <1>3, <1>5, <1>6

\* FlattenSeq as what it is after each of the sequences.
LEMMA FlattenIs ==
    ASSUME NEW S, NEW ss \in Seq(Seq(S))
    PROVE  \E f \in [0 .. Len(ss) -> Seq(S)] :
             /\ f[0] = <<>>
             /\ \A i \in 1 .. Len(ss) : f[i] = f[i - 1] \o ss[i]
             /\ FlattenSeq(ss) = f[Len(ss)]
<1> DEFINE n == Len(ss)
           T == Seq(S)
           step == [a \in (1 .. n) \X T |-> a[2] \o ss[a[1]]]
           F(f) == [i \in 1 .. n |-> IF i = 1 THEN ss[i] ELSE f[i - 1] \o ss[i]]
           flatten == CHOOSE f : f = F(f)
<1>1. n \in Nat /\ DOMAIN ss = 1 .. n /\ \A i \in 1 .. n : ss[i] \in T
  BY LenProperties, ElementOfSeq
<1>2. PICK f : Counts(n, T, <<>>, step, f)
  <2>1. \A a \in (1 .. n) \X T : a[2] \o ss[a[1]] \in T
    BY <1>1, Concatenated
  <2>2. <<>> \in T
    OBVIOUS
  <2>3. IsCount(n, T, <<>>, step)
    BY <1>1, <2>1, <2>2 DEF IsCount
  <2> HIDE DEF n, T, step
  <2>4. QED BY <2>3, CountingRecursion
<1>3. /\ f \in [0 .. n -> T] /\ f[0] = <<>>
      /\ \A i \in 1 .. n : i - 1 \in 0 .. n /\ f[i - 1] \in T /\ f[i] = f[i - 1] \o ss[i]
  <2>1. \A i \in 1 .. n : i - 1 \in 0 .. n
    BY <1>1
  <2>2. \A i \in 1 .. n, s \in T : step[<<i, s>>] = s \o ss[i]
    OBVIOUS
  <2> HIDE DEF n, T, step
  <2>3. QED BY <1>2, <2>1, <2>2 DEF Counts
<1>4. \A i \in 1 .. n : i = 1 => f[i] = ss[i]
  <2>1. SUFFICES ASSUME 1 \in 1 .. n
                 PROVE  f[1] = ss[1]
    OBVIOUS
  <2>2. f[1] = f[1 - 1] \o ss[1]
    <3>1. \A i \in 1 .. n : f[i] = f[i - 1] \o ss[i]
      BY <1>3
    <3> HIDE DEF n
    <3>2. QED BY <2>1, <3>1
  <2>3. f[1] = <<>> \o ss[1]
    <3>1. 1 - 1 = 0
      OBVIOUS
    <3>2. f[1 - 1] = <<>>
      BY <1>3, <3>1
    <3>3. QED BY <2>2, <3>2
  <2>4. <<>> \o ss[1] = ss[1]
    BY <1>1, <2>1, ConcatEmptySeq
  <2>5. QED BY <2>3, <2>4
<1>5. CASE n = 0
  <2>1. ss = <<>>
    BY <1>5, EmptySeq
  <2>2. FlattenSeq(ss) = <<>>
    BY <1>5, <2>1 DEF FlattenSeq
  <2>3. QED BY <1>3, <1>5, <2>2
<1>6. CASE n # 0
  <2> DEFINE g == [i \in 1 .. n |-> f[i]]
  <2>1. g = F(g)
    <3>1. \A i \in 1 .. n : i = 1 => f[i] = ss[i]
      BY <1>4
    <3>2. \A i \in 1 .. n : i # 1 => i - 1 \in 1 .. n
      BY <1>1
    <3>3. QED BY <1>3, <3>1, <3>2
  <2>2. flatten = F(flatten)
    BY <2>1
  <2>3. FlattenSeq(ss) = flatten[n]
    BY <1>6 DEF FlattenSeq
  <2>4. \A i \in 0 .. n : i # 0 => flatten[i] = f[i]
    <3> DEFINE P == {i \in 0 .. n : i # 0 => flatten[i] = f[i]}
    <3>1. 0 \in P
      BY <1>1
    <3>2. ASSUME NEW i \in 1 .. n, i - 1 \in P
          PROVE  i \in P
      <4>1. i \in 0 .. n /\ flatten[i] = (IF i = 1 THEN ss[i] ELSE flatten[i - 1] \o ss[i])
        <5>1. i \in 0 .. n
          BY <1>1
        <5> HIDE DEF flatten, n
        <5>2. QED BY <2>2, <5>1
      <4>2. i = 1 => f[i] = ss[i]
        BY <1>4
      <4>3. i # 1 => flatten[i - 1] = f[i - 1]
        BY <3>2
      <4>4. QED BY <1>3, <4>1, <4>2, <4>3
    <3> HIDE DEF P, n
    <3>3. \A i \in 0 .. n : i \in P
      BY <1>1, <3>1, <3>2, InductionTo
    <3>4. QED BY <3>3 DEF P
  <2>5. flatten[n] = f[n]
    <3>1. n \in 0 .. n
      BY <1>1
    <3> HIDE DEF flatten, n
    <3>2. QED BY <1>6, <2>4, <3>1
  <2>6. QED BY <1>3, <2>3, <2>5
<1>7. QED BY <1>5, <1>6

-------------------------------------------------------------------------------
(* Concatenations of many sequences, and the trees in killProcessTree.     *)

UpTo(ss, n) == UNION {ToSet(ss[k]) : k \in 1 .. n}

\* The same for a concatenation of many sequences.
LEMMA Flattened ==
    ASSUME NEW S, NEW ss \in Seq(Seq(S))
    PROVE  /\ FlattenSeq(ss) \in Seq(S)
           /\ ToSet(FlattenSeq(ss)) = UpTo(ss, Len(ss))
           /\ (/\ \A i \in DOMAIN ss : Once(ss[i])
               /\ \A i, j \in DOMAIN ss : i # j => ToSet(ss[i]) \cap ToSet(ss[j]) = {})
                => Once(FlattenSeq(ss))
           /\ \A E :
                (/\ \A i \in DOMAIN ss : Sorted(ss[i], E)
                 /\ \A i, j \in DOMAIN ss : \A x \in ToSet(ss[i]), y \in ToSet(ss[j]) :
                      i # j => <<x, y>> \notin E)
                  => Sorted(FlattenSeq(ss), E)
<1> DEFINE n == Len(ss)
<1>1. n \in Nat /\ DOMAIN ss = 1 .. n /\ n \in 0 .. n /\ 0 \in 0 .. n
  BY LenProperties
<1>2. \A i \in 1 .. n : ss[i] \in Seq(S)
  BY <1>1, ElementOfSeq
<1>3. PICK f \in [0 .. n -> Seq(S)] :
        /\ f[0] = <<>>
        /\ \A i \in 1 .. n : f[i] = f[i - 1] \o ss[i]
        /\ FlattenSeq(ss) = f[n]
  BY FlattenIs
<1> HIDE DEF n
<1>4. \A i \in 1 .. n : i \in 0 .. n /\ i - 1 \in 0 .. n /\ f[i - 1] \in Seq(S)
  BY <1>1
<1>5. ToSet(<<>>) = {} /\ Once(<<>>) /\ \A E : Sorted(<<>>, E)
  BY DEF ToSet, Once, Sorted
<1>6. \A i \in 1 .. n : UpTo(ss, i) = UpTo(ss, i - 1) \cup ToSet(ss[i])
  <2>1. SUFFICES ASSUME NEW i \in 1 .. n
                 PROVE  UpTo(ss, i) = UpTo(ss, i - 1) \cup ToSet(ss[i])
    OBVIOUS
  <2>2. \A k : k \in 1 .. i <=> k \in 1 .. i - 1 \/ k = i
    BY <1>1
  <2>3. QED BY <2>2 DEF UpTo
<1>7. \A i \in 0 .. n : ToSet(f[i]) = UpTo(ss, i)
  <2> DEFINE P == {i \in 0 .. n : ToSet(f[i]) = UpTo(ss, i)}
  <2>1. 0 \in P
    BY <1>1, <1>3, <1>5 DEF UpTo
  <2>2. ASSUME NEW i \in 1 .. n, i - 1 \in P
        PROVE  i \in P
    <3>1. ToSet(f[i]) = ToSet(f[i - 1]) \cup ToSet(ss[i])
      <4>1. f[i] = f[i - 1] \o ss[i] /\ f[i - 1] \in Seq(S) /\ ss[i] \in Seq(S)
        BY <1>2, <1>3, <1>4
      <4>2. ToSet(f[i - 1] \o ss[i]) = ToSet(f[i - 1]) \cup ToSet(ss[i])
        BY <4>1, Concatenated
      <4>3. QED BY <4>1, <4>2
    <3>2. QED BY <1>4, <1>6, <2>2, <3>1
  <2> HIDE DEF P
  <2>3. \A i \in 0 .. n : i \in P
    BY <1>1, <2>1, <2>2, InductionTo
  <2>4. QED BY <2>3 DEF P
<1>8. ASSUME \A i \in DOMAIN ss : Once(ss[i]),
             \A i, j \in DOMAIN ss : i # j => ToSet(ss[i]) \cap ToSet(ss[j]) = {}
      PROVE  Once(FlattenSeq(ss))
  <2> DEFINE P == {i \in 0 .. n : Once(f[i])}
  <2>1. 0 \in P
    BY <1>1, <1>3, <1>5
  <2>2. ASSUME NEW i \in 1 .. n, i - 1 \in P
        PROVE  i \in P
    <3>1. \A k \in 1 .. i - 1 : k \in 1 .. n /\ k # i
      BY <1>1
    <3>2. ToSet(f[i - 1]) \cap ToSet(ss[i]) = {}
      BY <1>1, <1>4, <1>7, <1>8, <3>1 DEF UpTo
    <3>3. Once(f[i - 1] \o ss[i])
      BY <1>1, <1>2, <1>4, <1>8, <2>2, <3>2, OnceConcatenation
    <3>4. QED BY <1>3, <1>4, <3>3
  <2> HIDE DEF P
  <2>3. \A i \in 0 .. n : i \in P
    BY <1>1, <2>1, <2>2, InductionTo
  <2>4. QED BY <1>1, <1>3, <2>3 DEF P
<1>9. ASSUME NEW E, \A i \in DOMAIN ss : Sorted(ss[i], E),
             \A i, j \in DOMAIN ss : \A x \in ToSet(ss[i]), y \in ToSet(ss[j]) :
               i # j => <<x, y>> \notin E
      PROVE  Sorted(FlattenSeq(ss), E)
  <2> DEFINE P == {i \in 0 .. n : Sorted(f[i], E)}
  <2>1. 0 \in P
    BY <1>1, <1>3, <1>5
  <2>2. ASSUME NEW i \in 1 .. n, i - 1 \in P
        PROVE  i \in P
    <3>1. \A k \in 1 .. i - 1 : k \in 1 .. n /\ k # i
      BY <1>1
    <3>2. ASSUME NEW x \in ToSet(ss[i]), NEW y \in ToSet(f[i - 1])
          PROVE  <<x, y>> \notin E
      <4>1. PICK k \in 1 .. i - 1 : y \in ToSet(ss[k])
        BY <1>4, <1>7 DEF UpTo
      <4>2. QED BY <1>1, <1>9, <3>1, <4>1
    <3>3. Sorted(f[i - 1] \o ss[i], E)
      BY <1>1, <1>2, <1>4, <1>9, <2>2, <3>2, SortedConcatenation
    <3>4. QED BY <1>3, <1>4, <3>3
  <2> HIDE DEF P
  <2>3. \A i \in 0 .. n : i \in P
    BY <1>1, <2>1, <2>2, InductionTo
  <2>4. QED BY <1>1, <1>3, <2>3 DEF P
<1>10. FlattenSeq(ss) \in Seq(S) /\ ToSet(FlattenSeq(ss)) = UpTo(ss, n)
  BY <1>1, <1>3, <1>7
<1>11. QED BY <1>8, <1>9, <1>10 DEF n

-------------------------------------------------------------------------------
(* The tree killer.                                                        *)

\* What killProcessTree does with one process, given f for smaller listings.
Below(f, left, pid, processes) ==
    LET children == ChildPositions(pid, left, processes) IN
    [k \in DOMAIN children |->
        f[CopyExcept(left, children[k])][processes[children[k]].pid]]

Body(f, left, pid, processes) == FlattenSeq(Below(f, left, pid, processes)) \o <<pid>>

ChildrenOf(pid, left, processes) == {i \in left : processes[i].ppid = pid}

\* The children are visited one by one, each of them once.
LEMMA ChildPositionsAre ==
    ASSUME NEW processes \in Seq([pid : Nat, ppid : Nat]), NEW pid,
           NEW left \in SUBSET DOMAIN processes
    PROVE  /\ ChildPositions(pid, left, processes) \in Seq(ChildrenOf(pid, left, processes))
           /\ ToSet(ChildPositions(pid, left, processes)) = ChildrenOf(pid, left, processes)
           /\ Once(ChildPositions(pid, left, processes))
<1> DEFINE C == ChildrenOf(pid, left, processes)
           at == ChildPositions(pid, left, processes)
<1>1. Len(processes) \in Nat /\ C \subseteq 1 .. Len(processes)
  BY LenProperties DEF ChildrenOf
<1>2. Cardinality(C) \in Nat /\ Enumerates(at, Cardinality(C), C)
  BY <1>1, InOrderEnumerates DEF ChildPositions, ChildrenOf
<1> DEFINE n == Cardinality(C)
<1>3. /\ at \in [1 .. n -> C] /\ n \in Nat
      /\ \A j, k \in 1 .. n : j < k => at[j] < at[k]
      /\ \A p \in C : \E k \in 1 .. n : at[k] = p
  BY <1>2 DEF Enumerates
<1> HIDE DEF n, at
<1>4. at \in Seq(C) /\ DOMAIN at = 1 .. n
  BY <1>3
<1>5. ToSet(at) = C
  BY <1>3, <1>4 DEF ToSet
<1>6. ASSUME NEW j \in 1 .. n, NEW k \in 1 .. n, at[j] = at[k]
      PROVE  j = k
  <2>1. at[j] \in Nat /\ at[k] \in Nat
    BY <1>1, <1>3
  <2>2. ~(j < k) /\ ~(k < j)
    BY <1>3, <1>6, <2>1
  <2>3. QED BY <1>3, <2>2
<1>7. QED BY <1>4, <1>5, <1>6 DEF Once, at

\* f gives an order for every smaller listing.
Orders(f, left, P) == \A c \in left : f[CopyExcept(left, c)] \in [P -> Seq(P)]

\* What is killed for one process is a sequence of pids.
LEMMA BodyType ==
    ASSUME NEW processes \in Seq([pid : Nat, ppid : Nat]), NEW P, Pids(processes) \subseteq P,
           NEW left \in SUBSET DOMAIN processes, NEW pid \in P,
           NEW f, Orders(f, left, P)
    PROVE  /\ Below(f, left, pid, processes) \in Seq(Seq(P))
           /\ Body(f, left, pid, processes) \in Seq(P)
           /\ DOMAIN Below(f, left, pid, processes) = DOMAIN ChildPositions(pid, left, processes)
<1> DEFINE at == ChildPositions(pid, left, processes)
           C == ChildrenOf(pid, left, processes)
<1>1. at \in Seq(C)
  BY ChildPositionsAre
<1>2. Len(at) \in Nat /\ DOMAIN at = 1 .. Len(at) /\ \A k \in DOMAIN at : at[k] \in C
  BY <1>1, LenProperties, ElementOfSeq
<1>3. ASSUME NEW k \in DOMAIN at
      PROVE  f[CopyExcept(left, at[k])][processes[at[k]].pid] \in Seq(P)
  <2>1. at[k] \in left /\ processes[at[k]].pid \in P
    BY <1>2 DEF ChildrenOf, Pids
  <2>2. QED BY <2>1 DEF Orders
<1>4. Below(f, left, pid, processes) = [k \in 1 .. Len(at) |->
        f[CopyExcept(left, at[k])][processes[at[k]].pid]]
  BY <1>2 DEF Below
<1> HIDE DEF at
<1>5. Below(f, left, pid, processes) \in Seq(Seq(P))
  BY <1>2, <1>3, <1>4
<1>6. FlattenSeq(Below(f, left, pid, processes)) \in Seq(P)
  BY <1>5, Flattened
<1>7. <<pid>> \in Seq(P)
  OBVIOUS
<1>8. Body(f, left, pid, processes) \in Seq(P)
  BY <1>6, <1>7, Concatenated DEF Body
<1>9. QED BY <1>2, <1>4, <1>5, <1>8 DEF at

\* Removing an entry makes a listing smaller.
LEMMA Smaller ==
    ASSUME NEW processes \in Seq([pid : Nat, ppid : Nat])
    PROVE  \A left \in SUBSET DOMAIN processes :
             /\ Cardinality(left) \in Nat
             /\ \A c \in left :
                  /\ CopyExcept(left, c) \in SUBSET DOMAIN processes
                  /\ Cardinality(CopyExcept(left, c)) = Cardinality(left) - 1
                  /\ Cardinality(CopyExcept(left, c)) < Cardinality(left)
<1>1. IsFiniteSet(DOMAIN processes)
  <2>1. Len(processes) \in Int /\ DOMAIN processes = 1 .. Len(processes) /\ 1 \in Int
    BY LenProperties
  <2>2. QED BY <2>1, FS_Interval
<1>2. SUFFICES ASSUME NEW left \in SUBSET DOMAIN processes
               PROVE  /\ Cardinality(left) \in Nat
                      /\ \A c \in left :
                           /\ CopyExcept(left, c) \in SUBSET DOMAIN processes
                           /\ Cardinality(CopyExcept(left, c)) = Cardinality(left) - 1
                           /\ Cardinality(CopyExcept(left, c)) < Cardinality(left)
  OBVIOUS
<1>3. IsFiniteSet(left)
  BY <1>1, FS_Subset
<1>4. Cardinality(left) \in Nat
  BY <1>3, FS_CardinalityType
<1>5. ASSUME NEW c \in left
      PROVE  /\ CopyExcept(left, c) \in SUBSET DOMAIN processes
             /\ Cardinality(CopyExcept(left, c)) = Cardinality(left) - 1
             /\ Cardinality(CopyExcept(left, c)) < Cardinality(left)
  <2>1. Cardinality(left \ {c}) = Cardinality(left) - 1
    BY <1>3, FS_RemoveElement
  <2>2. Cardinality(left) - 1 < Cardinality(left)
    BY <1>4
  <2>3. QED BY <2>1, <2>2 DEF CopyExcept
<1>6. QED BY <1>4, <1>5

IsKill(kill, P, processes) ==
    /\ kill \in [SUBSET DOMAIN processes -> [P -> Seq(P)]]
    /\ \A left \in SUBSET DOMAIN processes : \A pid \in P :
         kill[left][pid] = Body(kill, left, pid, processes)

\* The recursion of killProcessTree is well founded.
LEMMA KillProcessTreeIs ==
    ASSUME NEW processes \in Seq([pid : Nat, ppid : Nat]), NEW ppid,
           NEW P, P = Pids(processes) \cup {ppid}
    PROVE  \E kill : /\ IsKill(kill, P, processes)
                     /\ KillProcessTree(ppid, processes) = kill[DOMAIN processes][ppid]
<1> DEFINE D == SUBSET DOMAIN processes
           T == [P -> Seq(P)]
           m == [left \in D |-> Cardinality(left)]
           G == [a \in D \X [D -> T] |-> [pid \in P |-> Body(a[2], a[1], pid, processes)]]
           F(f) == [left \in SUBSET DOMAIN processes |->
                     [pid \in Pids(processes) \cup {ppid} |->
                       LET children == ChildPositions(pid, left, processes) IN
                       FlattenSeq([k \in DOMAIN children |->
                              f[CopyExcept(left, children[k])][processes[children[k]].pid]])
                         \o <<pid>>]]
           kill == CHOOSE f : f = F(f)
<1>1. \A left \in D : /\ Cardinality(left) \in Nat
                      /\ \A c \in left : /\ CopyExcept(left, c) \in D
                                         /\ Cardinality(CopyExcept(left, c)) < Cardinality(left)
  BY Smaller
<1>2. \A f : F(f) = [left \in D |-> [pid \in P |-> Body(f, left, pid, processes)]]
  BY DEF Body, Below
<1> HIDE DEF F
<1>3. T # {} /\ m \in [D -> Nat]
  <2>1. [p \in P |-> <<>>] \in T
    OBVIOUS
  <2>2. m \in [D -> Nat]
    BY <1>1
  <2>3. QED BY <2>1, <2>2
<1>4. \A left \in D, f \in [D -> T] :
        /\ [pid \in P |-> Body(f, left, pid, processes)] \in T
        /\ G[<<left, f>>] = [pid \in P |-> Body(f, left, pid, processes)]
  <2>1. ASSUME NEW left \in D, NEW f \in [D -> T]
        PROVE  [pid \in P |-> Body(f, left, pid, processes)] \in T
    <3>1. Orders(f, left, P)
      BY <1>1 DEF Orders
    <3>2. \A pid \in P : Body(f, left, pid, processes) \in Seq(P)
      BY <3>1, BodyType
    <3>3. QED BY <3>2
  <2>2. QED BY <2>1
<1>5. G \in [D \X [D -> T] -> T]
  <2>1. \A a \in D \X [D -> T] :
           [pid \in P |-> Body(a[2], a[1], pid, processes)] \in T
    <3> SUFFICES ASSUME NEW a \in D \X [D -> T]
                 PROVE  [pid \in P |-> Body(a[2], a[1], pid, processes)] \in T
      OBVIOUS
    <3>1. a[1] \in D /\ a[2] \in [D -> T]
      OBVIOUS
    <3> HIDE DEF D, T, G
    <3>2. QED BY <1>4, <3>1
  <2>2. QED BY <2>1
<1>6. Looks(D, T, m, G)
  <2>1. SUFFICES ASSUME NEW left \in D, NEW g \in [D -> T], NEW h \in [D -> T],
                        \A y \in D : m[y] < m[left] => g[y] = h[y]
                 PROVE  G[<<left, g>>] = G[<<left, h>>]
    BY DEF Looks
  <2>2. \A c \in left : g[CopyExcept(left, c)] = h[CopyExcept(left, c)]
    BY <1>1, <2>1
  <2>3. ASSUME NEW pid \in P
        PROVE  Body(g, left, pid, processes) = Body(h, left, pid, processes)
    <3> DEFINE at == ChildPositions(pid, left, processes)
    <3>1. \A k \in DOMAIN at : at[k] \in left
      <4>1. at \in Seq(ChildrenOf(pid, left, processes))
        BY ChildPositionsAre
      <4>2. \A k \in DOMAIN at : at[k] \in ChildrenOf(pid, left, processes)
        BY <4>1, LenProperties, ElementOfSeq
      <4>3. QED BY <4>2 DEF ChildrenOf
    <3>2. Below(g, left, pid, processes) = Below(h, left, pid, processes)
      BY <2>2, <3>1 DEF Below
    <3>3. QED BY <3>2 DEF Body
  <2>4. [pid \in P |-> Body(g, left, pid, processes)]
          = [pid \in P |-> Body(h, left, pid, processes)]
    BY <2>3
  <2> HIDE DEF G, D, T
  <2>5. G[<<left, g>>] = [pid \in P |-> Body(g, left, pid, processes)]
    BY <1>4
  <2>6. G[<<left, h>>] = [pid \in P |-> Body(h, left, pid, processes)]
    BY <1>4
  <2>7. QED BY <2>4, <2>5, <2>6
<1>7. PICK f : Satisfies(D, T, G, f)
  <2>1. IsRecursion(D, T, m, G)
    BY <1>3, <1>5, <1>6 DEF IsRecursion
  <2> HIDE DEF D, T, m, G
  <2>2. QED BY <2>1, Recursion
<1>8. f = F(f)
  <2>1. f \in [D -> T] /\ \A left \in D : f[left] = [pid \in P |-> Body(f, left, pid, processes)]
    <3> HIDE DEF D, T, m, G
    <3>1. QED BY <1>4, <1>7 DEF Satisfies
  <2>2. F(f) = [left \in D |-> [pid \in P |-> Body(f, left, pid, processes)]]
    BY <1>2
  <2> HIDE DEF D
  <2>3. QED BY <2>1, <2>2
<1>9. kill = F(kill)
  BY <1>8
<1>10. KillProcessTree(ppid, processes) = kill[DOMAIN processes][ppid]
  BY DEF KillProcessTree, F
<1> HIDE DEF kill
<1>11. kill = [left \in D |-> [pid \in P |-> Body(kill, left, pid, processes)]]
  <2>1. F(kill) = [left \in D |-> [pid \in P |-> Body(kill, left, pid, processes)]]
    BY <1>2
  <2>2. QED BY <1>9, <2>1
<1>12. \A left \in D : kill[left] \in T
  <2> DEFINE Q == {n \in Nat : \A left \in D : Cardinality(left) = n => kill[left] \in T}
  <2>1. ASSUME NEW left \in D, \A c \in left : kill[CopyExcept(left, c)] \in T
        PROVE  kill[left] \in T
    <3>1. \A pid \in P : Body(kill, left, pid, processes) \in Seq(P)
      <4>1. Orders(kill, left, P)
        BY <2>1 DEF Orders
      <4>2. QED BY <4>1, BodyType
    <3>2. kill[left] = [pid \in P |-> Body(kill, left, pid, processes)]
      BY <1>11
    <3>3. QED BY <3>1, <3>2
  <2>2. 0 \in Q
    <3>1. \A left \in D : Cardinality(left) = 0 => \A c \in left : FALSE
      <4>1. ASSUME NEW left \in D, Cardinality(left) = 0, NEW c \in left
            PROVE  FALSE
        <5>1. CopyExcept(left, c) \in D /\ Cardinality(CopyExcept(left, c)) < 0
          BY <1>1, <4>1
        <5>2. Cardinality(CopyExcept(left, c)) \in Nat
          BY <1>1, <5>1
        <5>3. QED BY <5>1, <5>2
      <4>2. QED BY <4>1
    <3> HIDE DEF D, T
    <3>2. QED BY <2>1, <3>1
  <2>3. ASSUME NEW n \in Nat, n \in Q
        PROVE  n + 1 \in Q
    <3>1. ASSUME NEW left \in D, Cardinality(left) = n + 1
          PROVE  kill[left] \in T
      <4>1. \A c \in left : CopyExcept(left, c) \in D /\ Cardinality(CopyExcept(left, c)) = n
        BY <3>1, Smaller
      <4>2. \A c \in left : kill[CopyExcept(left, c)] \in T
        BY <2>3, <4>1
      <4>3. QED BY <2>1, <4>2
    <3> HIDE DEF D, T
    <3>2. QED BY <3>1
  <2>4. \A n \in Nat : n \in Q
    <3> HIDE DEF Q
    <3>1. QED BY <2>2, <2>3, Induction
  <2> HIDE DEF T
  <2>5. QED BY <1>1, <2>4
<1>13. kill \in [D -> T] /\ \A left \in D : \A pid \in P :
          kill[left][pid] = Body(kill, left, pid, processes)
  <2>1. DOMAIN kill = D /\ kill = [left \in D |-> kill[left]]
    BY <1>11
  <2>2. \A left \in D : kill[left] = [pid \in P |-> Body(kill, left, pid, processes)]
    BY <1>11
  <2>3. kill \in [D -> T]
    <3> HIDE DEF D, T
    <3>1. QED BY <1>12, <2>1
  <2>4. ASSUME NEW left \in D, NEW pid \in P
        PROVE  kill[left][pid] = Body(kill, left, pid, processes)
    <3>1. kill[left] = [p \in P |-> Body(kill, left, p, processes)]
      BY <2>2
    <3>2. QED BY <3>1
  <2>5. QED BY <2>3, <2>4
<1>14. QED BY <1>10, <1>13 DEF IsKill

\* The tree below a process in what is left of a listing.
ClosedIn(S, left, processes) == \A i \in left : processes[i].ppid \in S => processes[i].pid \in S

Reach(pid, left, processes) ==
    {p \in Pids(processes) \cup {pid} :
        \A S \in SUBSET (Pids(processes) \cup {pid}) :
            pid \in S /\ ClosedIn(S, left, processes) => p \in S}

\* What can be reached is the least closed set.
LEMMA ReachIsLeast ==
    ASSUME NEW pid, NEW processes, NEW left \in SUBSET DOMAIN processes
    PROVE  /\ pid \in Reach(pid, left, processes)
           /\ ClosedIn(Reach(pid, left, processes), left, processes)
           /\ \A S : pid \in S /\ ClosedIn(S, left, processes)
                       => Reach(pid, left, processes) \subseteq S
<1> DEFINE U == Pids(processes) \cup {pid}
           T == Reach(pid, left, processes)
<1>1. \A p : p \in T <=> p \in U /\ \A S \in SUBSET U :
                                       pid \in S /\ ClosedIn(S, left, processes) => p \in S
  BY DEF Reach
<1>2. \A i \in left : processes[i].pid \in U
  BY DEF Pids
<1> HIDE DEF T
<1>3. pid \in T /\ T \subseteq U
  BY <1>1
<1>4. ClosedIn(T, left, processes)
  <2>1. SUFFICES ASSUME NEW i \in left, processes[i].ppid \in T
                 PROVE  processes[i].pid \in T
    BY DEF ClosedIn
  <2>2. ASSUME NEW S \in SUBSET U, pid \in S, ClosedIn(S, left, processes)
        PROVE  processes[i].pid \in S
    <3>1. processes[i].ppid \in S
      BY <1>1, <2>1, <2>2
    <3>2. QED BY <2>2, <3>1 DEF ClosedIn
  <2>3. QED BY <1>1, <1>2, <2>2
<1>5. ASSUME NEW S, pid \in S, ClosedIn(S, left, processes)
      PROVE  T \subseteq S
  <2>1. S \cap U \in SUBSET U /\ pid \in S \cap U
    BY <1>5
  <2>2. ClosedIn(S \cap U, left, processes)
    BY <1>2, <1>5 DEF ClosedIn
  <2>3. T \subseteq S \cap U
    BY <1>1, <2>1, <2>2
  <2>4. QED BY <2>3
<1>6. QED BY <1>3, <1>4, <1>5 DEF T

\* With the whole listing what can be reached is the tree.
LEMMA TreeIsReach ==
    ASSUME NEW pid, NEW processes
    PROVE  Tree(pid, processes) = Reach(pid, DOMAIN processes, processes)
BY DEF Tree, Reach, ClosedIn

\* A tree consists of its root and the trees of the children, each without the
\* child's own entry.
LEMMA ReachOfChildren ==
    ASSUME NEW pid, NEW processes, NEW left \in SUBSET DOMAIN processes
    PROVE  Reach(pid, left, processes) =
             {pid} \cup UNION {Reach(processes[c].pid, CopyExcept(left, c), processes) :
                                  c \in ChildrenOf(pid, left, processes)}
<1> DEFINE T == Reach(pid, left, processes)
           C == ChildrenOf(pid, left, processes)
           R(c) == Reach(processes[c].pid, CopyExcept(left, c), processes)
           U == {pid} \cup UNION {R(c) : c \in C}
<1>1. \A c \in C : c \in left /\ CopyExcept(left, c) \in SUBSET DOMAIN processes
                   /\ processes[c].ppid = pid
  BY DEF ChildrenOf, CopyExcept
<1>2. /\ pid \in T /\ ClosedIn(T, left, processes)
      /\ \A S : pid \in S /\ ClosedIn(S, left, processes) => T \subseteq S
  BY ReachIsLeast
<1>3. \A c \in C : /\ processes[c].pid \in R(c)
                   /\ ClosedIn(R(c), CopyExcept(left, c), processes)
                   /\ \A S : processes[c].pid \in S /\ ClosedIn(S, CopyExcept(left, c), processes)
                               => R(c) \subseteq S
  BY <1>1, ReachIsLeast
<1> HIDE DEF T, R
<1>4. ASSUME NEW c \in C
      PROVE  R(c) \subseteq T
  <2>1. processes[c].pid \in T
    BY <1>1, <1>2 DEF ClosedIn
  <2>2. ClosedIn(T, CopyExcept(left, c), processes)
    BY <1>2 DEF ClosedIn, CopyExcept
  <2>3. QED BY <1>3, <2>1, <2>2
<1>5. ClosedIn(U, left, processes)
  <2>1. SUFFICES ASSUME NEW i \in left, processes[i].ppid \in U
                 PROVE  processes[i].pid \in U
    BY DEF ClosedIn
  <2>2. CASE processes[i].ppid = pid
    <3>1. i \in C
      BY <2>2 DEF ChildrenOf
    <3>2. QED BY <1>3, <3>1
  <2>3. ASSUME NEW c \in C, processes[i].ppid \in R(c)
        PROVE  processes[i].pid \in U
    <3>1. CASE i = c
      BY <1>3, <3>1
    <3>2. CASE i # c
      <4>1. i \in CopyExcept(left, c)
        BY <3>2 DEF CopyExcept
      <4>2. processes[i].pid \in R(c)
        BY <1>3, <2>3, <4>1 DEF ClosedIn
      <4>3. QED BY <4>2
    <3>3. QED BY <3>1, <3>2
  <2>4. QED BY <2>1, <2>2, <2>3
<1>6. T \subseteq U
  <2>1. pid \in U
    OBVIOUS
  <2> HIDE DEF U
  <2>2. QED BY <1>2, <1>5, <2>1
<1>7. U \subseteq T
  BY <1>2, <1>4
<1>8. QED BY <1>6, <1>7 DEF T, R

Distinct(processes) == \A i, j \in DOMAIN processes :
                          processes[i].pid = processes[j].pid => i = j

\* Whoever is in a tree is its root or has a parent in it.
LEMMA ParentIsInTree ==
    ASSUME NEW root, NEW processes, Distinct(processes), NEW i \in DOMAIN processes,
           processes[i].pid \in Tree(root, processes)
    PROVE  processes[i].pid = root \/ processes[i].ppid \in Tree(root, processes)
<1> DEFINE T == Tree(root, processes)
<1>1. /\ root \in T /\ Closed(T, processes)
      /\ \A S : root \in S /\ Closed(S, processes) => T \subseteq S
  BY TreeIsLeast
<1>2. SUFFICES ASSUME processes[i].pid # root, processes[i].ppid \notin T
               PROVE  FALSE
  OBVIOUS
<1> HIDE DEF T
<1>3. Closed(T \ {processes[i].pid}, processes)
  BY <1>1, <1>2 DEF Closed, Distinct
<1>4. T \subseteq T \ {processes[i].pid}
  BY <1>1, <1>2, <1>3
<1>5. processes[i].pid \in T
  BY DEF T
<1>6. QED BY <1>4, <1>5

\* In a forest the trees of siblings have nothing in common, and nobody is in the
\* tree of its child.
LEMMA SiblingsTrees ==
    ASSUME NEW processes, Distinct(processes), IsForest(processes),
           NEW c \in DOMAIN processes
    PROVE  /\ processes[c].ppid \notin Tree(processes[c].pid, processes)
           /\ \A d \in DOMAIN processes :
                c # d /\ processes[c].ppid = processes[d].ppid
                  => Tree(processes[c].pid, processes) \cap Tree(processes[d].pid, processes) = {}
<1>1. \A i \in DOMAIN processes : processes[i].ppid \notin Tree(processes[i].pid, processes)
  <2>1. SUFFICES ASSUME NEW i \in DOMAIN processes,
                        processes[i].ppid \in Tree(processes[i].pid, processes)
                 PROVE  FALSE
    OBVIOUS
  <2>2. processes[i].ppid \in Pids(processes)
    BY <2>1, TreeIsLeast DEF Pids
  <2>3. PICK j \in DOMAIN processes : processes[j].pid = processes[i].ppid
    BY <2>2 DEF Pids
  <2>4. QED BY <2>1, <2>3 DEF IsForest
<1>2. ASSUME NEW d \in DOMAIN processes, c # d, processes[c].ppid = processes[d].ppid
      PROVE  Tree(processes[c].pid, processes) \cap Tree(processes[d].pid, processes) = {}
  <2> DEFINE A == Tree(processes[c].pid, processes)
             B == Tree(processes[d].pid, processes)
  <2>1. /\ processes[c].pid \in A /\ Closed(A, processes)
        /\ \A S : processes[c].pid \in S /\ Closed(S, processes) => A \subseteq S
    BY TreeIsLeast
  <2>2. \A i \in DOMAIN processes :
          processes[i].pid \in B => processes[i].pid = processes[d].pid \/ processes[i].ppid \in B
    BY ParentIsInTree
  <2>3. processes[c].ppid \notin A /\ processes[c].ppid \notin B
    BY <1>1, <1>2
  <2> HIDE DEF A, B
  <2>4. processes[c].pid \in A \ B
    BY <1>2, <2>1, <2>2, <2>3 DEF Distinct
  <2>5. Closed(A \ B, processes)
    <3>1. SUFFICES ASSUME NEW i \in DOMAIN processes, processes[i].ppid \in A \ B,
                          processes[i].pid \in B
                   PROVE  FALSE
      BY <2>1 DEF Closed
    <3>2. processes[i].pid = processes[d].pid
      BY <2>2, <3>1
    <3>3. i = d
      BY <3>2 DEF Distinct
    <3>4. QED BY <1>2, <2>3, <3>1, <3>3
  <2>6. A \subseteq A \ B
    BY <2>1, <2>4, <2>5
  <2>7. QED BY <2>6 DEF A, B
<1>3. QED BY <1>1, <1>2

\* The pairs of which the first has to be killed before the second.
ChildFirst(processes) == {<<processes[i].pid, processes[i].ppid>> : i \in DOMAIN processes}

\* What the order for one process is to be.
Kills(order, pid, left, processes) ==
    /\ ToSet(order) = Reach(pid, left, processes)
    /\ Distinct(processes) /\ IsForest(processes)
         => Once(order) /\ Sorted(order, ChildFirst(processes))

\* Killing a process after the trees below it, given that smaller listings are
\* gone through as they should.
LEMMA BodyKills ==
    ASSUME NEW processes \in Seq([pid : Nat, ppid : Nat]), NEW P, Pids(processes) \subseteq P,
           NEW left \in SUBSET DOMAIN processes, NEW pid \in P,
           NEW f, Orders(f, left, P),
           \A c \in left : \A q \in P :
               Kills(f[CopyExcept(left, c)][q], q, CopyExcept(left, c), processes)
    PROVE  Kills(Body(f, left, pid, processes), pid, left, processes)
<1> DEFINE at == ChildPositions(pid, left, processes)
           C == ChildrenOf(pid, left, processes)
           below == Below(f, left, pid, processes)
           order == FlattenSeq(below)
           R(c) == Reach(processes[c].pid, CopyExcept(left, c), processes)
           E == ChildFirst(processes)
<1>1. /\ at \in Seq(C) /\ ToSet(at) = C /\ Once(at)
      /\ \A k \in DOMAIN at : at[k] \in C
  <2>1. at \in Seq(C) /\ ToSet(at) = C /\ Once(at)
    BY ChildPositionsAre
  <2>2. \A k \in DOMAIN at : at[k] \in C
    BY <2>1 DEF ToSet
  <2>3. QED BY <2>1, <2>2
<1>2. \A c \in C : /\ c \in left /\ c \in DOMAIN processes /\ processes[c].pid \in P
                   /\ processes[c].ppid = pid
                   /\ CopyExcept(left, c) \in SUBSET DOMAIN processes
  BY DEF ChildrenOf, CopyExcept, Pids
<1>3. below \in Seq(Seq(P)) /\ DOMAIN below = DOMAIN at
  BY BodyType
<1>4. \A k \in DOMAIN at : /\ below[k] = f[CopyExcept(left, at[k])][processes[at[k]].pid]
                           /\ Kills(below[k], processes[at[k]].pid, CopyExcept(left, at[k]),
                                    processes)
  <2>1. \A k \in DOMAIN at : below[k] = f[CopyExcept(left, at[k])][processes[at[k]].pid]
    BY DEF Below
  <2> HIDE DEF at, below
  <2>2. QED BY <1>1, <1>2, <2>1
<1>5. \A k \in DOMAIN at : ToSet(below[k]) = R(at[k])
  BY <1>4 DEF Kills
<1>6. /\ order \in Seq(P) /\ ToSet(order) = UpTo(below, Len(below))
      /\ (/\ \A i \in DOMAIN below : Once(below[i])
          /\ \A i, j \in DOMAIN below : i # j => ToSet(below[i]) \cap ToSet(below[j]) = {})
           => Once(order)
      /\ (/\ \A i \in DOMAIN below : Sorted(below[i], E)
          /\ \A i, j \in DOMAIN below : \A x \in ToSet(below[i]), y \in ToSet(below[j]) :
               i # j => <<x, y>> \notin E)
            => Sorted(order, E)
  <2> HIDE DEF below, E
  <2>1. QED BY <1>3, Flattened
<1>7. <<pid>> \in Seq(P) /\ ToSet(<<pid>>) = {pid} /\ Once(<<pid>>)
  BY DEF ToSet, Once
<1>8. Body(f, left, pid, processes) = order \o <<pid>>
  BY DEF Body
<1>9. DOMAIN below = 1 .. Len(below)
  BY <1>3, LenProperties
<1> HIDE DEF at, below, order, R, E
<1>10. ToSet(order) = UNION {R(c) : c \in C}
  <2>1. ASSUME NEW x \in ToSet(order)
        PROVE  \E c \in C : x \in R(c)
    <3>1. PICK k \in DOMAIN at : x \in ToSet(below[k])
      BY <1>3, <1>6, <1>9 DEF UpTo
    <3>2. QED BY <1>1, <1>5, <3>1
  <2>2. ASSUME NEW c \in C, NEW x \in R(c)
        PROVE  x \in ToSet(order)
    <3>1. PICK k \in DOMAIN at : at[k] = c
      BY <1>1 DEF ToSet
    <3>2. x \in ToSet(below[k])
      BY <1>5, <3>1
    <3>3. QED BY <1>3, <1>6, <1>9, <3>1, <3>2 DEF UpTo
  <2>3. QED BY <2>1, <2>2
<1>11. ToSet(order \o <<pid>>) = Reach(pid, left, processes)
  <2>1. ToSet(order \o <<pid>>) = ToSet(order) \cup ToSet(<<pid>>)
    <3> DEFINE last == <<pid>>
    <3>1. order \in Seq(P) /\ last \in Seq(P)
      BY <1>6, <1>7
    <3> HIDE DEF last
    <3>2. ToSet(order \o last) = ToSet(order) \cup ToSet(last)
      BY <3>1, Concatenated
    <3>3. QED BY <3>2 DEF last
  <2>2. Reach(pid, left, processes) = {pid} \cup UNION {R(c) : c \in C}
    BY ReachOfChildren DEF R
  <2>3. QED BY <1>7, <1>10, <2>1, <2>2
<1>12. ASSUME Distinct(processes), IsForest(processes)
       PROVE  Once(order \o <<pid>>) /\ Sorted(order \o <<pid>>, E)
  <2> DEFINE T(c) == Tree(processes[c].pid, processes)
  <2>1. \A c \in C : R(c) \subseteq T(c)
    <3>1. SUFFICES ASSUME NEW c \in C
                   PROVE  R(c) \subseteq T(c)
      OBVIOUS
    <3>2. processes[c].pid \in T(c) /\ Closed(T(c), processes)
      BY TreeIsLeast
    <3>3. ClosedIn(T(c), CopyExcept(left, c), processes)
      BY <1>2, <3>2 DEF Closed, ClosedIn
    <3> HIDE DEF T
    <3>4. QED BY <1>2, <3>2, <3>3, ReachIsLeast DEF R
  <2>2. \A c \in C : pid \notin T(c)
    BY <1>2, <1>12, SiblingsTrees
  <2>3. \A c, d \in C : c # d => T(c) \cap T(d) = {}
    BY <1>2, <1>12, SiblingsTrees
  <2>4. \A k \in DOMAIN at : Once(below[k]) /\ Sorted(below[k], E)
    BY <1>4, <1>12 DEF Kills, E
  <2>5. \A j, k \in DOMAIN at : j # k => at[j] # at[k]
    BY <1>1 DEF Once
  <2>6. \A c, d \in C : \A x \in T(c), y \in T(d) : c # d => <<x, y>> \notin E
    <3>1. SUFFICES ASSUME NEW c \in C, NEW d \in C, NEW i \in DOMAIN processes, c # d,
                          processes[i].pid \in T(c), processes[i].ppid \in T(d)
                   PROVE  FALSE
      BY DEF E, ChildFirst
    <3>2. Closed(T(d), processes)
      BY TreeIsLeast
    <3>3. processes[i].pid \in T(d)
      BY <3>1, <3>2 DEF Closed
    <3>4. QED BY <2>3, <3>1, <3>3
  <2>7. \A c \in C : \A y \in T(c) : <<pid, y>> \notin E
    <3>1. SUFFICES ASSUME NEW c \in C, NEW i \in DOMAIN processes,
                          processes[i].pid = pid, processes[i].ppid \in T(c)
                   PROVE  FALSE
      BY DEF E, ChildFirst
    <3>2. Closed(T(c), processes)
      BY TreeIsLeast
    <3>3. pid \in T(c)
      BY <3>1, <3>2 DEF Closed
    <3>4. QED BY <2>2, <3>3
  <2>8. <<pid, pid>> \notin E
    <3>1. SUFFICES ASSUME NEW i \in DOMAIN processes,
                          processes[i].pid = pid, processes[i].ppid = pid
                   PROVE  FALSE
      BY DEF E, ChildFirst
    <3>2. processes[i].pid \in Tree(processes[i].pid, processes)
      BY TreeIsLeast
    <3>3. QED BY <1>12, <3>1, <3>2, SiblingsTrees
  <2> HIDE DEF T
  <2>9. Once(order)
    <3>1. \A j, k \in DOMAIN at : j # k => ToSet(below[j]) \cap ToSet(below[k]) = {}
      BY <1>1, <1>5, <2>1, <2>3, <2>5
    <3>2. QED BY <1>3, <1>6, <2>4, <3>1
  <2>10. Sorted(order, E)
    <3>1. \A j, k \in DOMAIN at : \A x \in ToSet(below[j]), y \in ToSet(below[k]) :
             j # k => <<x, y>> \notin E
      BY <1>1, <1>5, <2>1, <2>5, <2>6
    <3>2. QED BY <1>3, <1>6, <2>4, <3>1
  <2>11. pid \notin ToSet(order)
    BY <1>10, <2>1, <2>2
  <2>12. Sorted(<<pid>>, E)
    BY <2>8 DEF Sorted
  <2>13. \A y \in ToSet(order) : <<pid, y>> \notin E
    BY <1>10, <2>1, <2>7
  <2>14. Once(order \o <<pid>>)
    BY <1>6, <1>7, <2>9, <2>11, OnceConcatenation
  <2>15. Sorted(order \o <<pid>>, E)
    <3>1. \A x \in ToSet(<<pid>>), y \in ToSet(order) : <<x, y>> \notin E
      BY <1>7, <2>13
    <3>2. QED BY <1>6, <1>7, <2>10, <2>12, <3>1, SortedConcatenation
  <2>16. QED BY <2>14, <2>15
<1>13. QED BY <1>8, <1>11, <1>12 DEF Kills, E

\* killProcessTree kills the tree of the listing, and of a forest everything once
\* and no parent before its children.
LEMMA KillProcessTreeKills ==
    ASSUME NEW processes \in Seq([pid : Nat, ppid : Nat]), NEW ppid
    PROVE  Kills(KillProcessTree(ppid, processes), ppid, DOMAIN processes, processes)
<1> DEFINE P == Pids(processes) \cup {ppid}
           D == SUBSET DOMAIN processes
<1>1. PICK kill : /\ IsKill(kill, P, processes)
                  /\ KillProcessTree(ppid, processes) = kill[DOMAIN processes][ppid]
  BY KillProcessTreeIs
<1>2. \A left \in D : /\ Cardinality(left) \in Nat
                      /\ \A c \in left :
                           /\ CopyExcept(left, c) \in D
                           /\ Cardinality(CopyExcept(left, c)) = Cardinality(left) - 1
  BY Smaller
<1> DEFINE Good(left) == \A pid \in P : Kills(kill[left][pid], pid, left, processes)
           Q == {n \in Nat : \A left \in D : Cardinality(left) = n => Good(left)}
<1>3. ASSUME NEW left \in D, \A c \in left : Good(CopyExcept(left, c))
      PROVE  Good(left)
  <2>1. Orders(kill, left, P)
    BY <1>1, <1>2 DEF Orders, IsKill
  <2>2. \A c \in left : \A q \in P :
           Kills(kill[CopyExcept(left, c)][q], q, CopyExcept(left, c), processes)
    BY <1>3
  <2>3. \A pid \in P : Kills(Body(kill, left, pid, processes), pid, left, processes)
    <3>1. Pids(processes) \subseteq P
      OBVIOUS
    <3> HIDE DEF P
    <3>2. QED BY <2>1, <2>2, <3>1, BodyKills
  <2>4. QED BY <1>1, <2>3 DEF IsKill
<1> HIDE DEF Good
<1>4. 0 \in Q
  <2>1. ASSUME NEW left \in D, Cardinality(left) = 0, NEW c \in left
        PROVE  FALSE
    <3>1. Cardinality(CopyExcept(left, c)) = 0 - 1 /\ Cardinality(CopyExcept(left, c)) \in Nat
      BY <1>2, <2>1
    <3>2. QED BY <3>1
  <2>2. QED BY <1>3, <2>1
<1>5. ASSUME NEW n \in Nat, n \in Q
      PROVE  n + 1 \in Q
  <2>1. ASSUME NEW left \in D, Cardinality(left) = n + 1
        PROVE  Good(left)
    <3>1. \A c \in left : CopyExcept(left, c) \in D /\ Cardinality(CopyExcept(left, c)) = n
      BY <1>2, <2>1
    <3>2. QED BY <1>3, <1>5, <3>1
  <2>2. QED BY <2>1
<1>6. Good(DOMAIN processes)
  <2>1. \A n \in Nat : n \in Q
    <3> HIDE DEF Q
    <3>1. QED BY <1>4, <1>5, Induction
  <2>2. QED BY <1>2, <2>1
<1>7. QED BY <1>1, <1>6 DEF Good

\* The first half of KillersReachTheTree.
LEMMA KillProcessTreeReaches ==
    ASSUME NEW processes, Listing(processes), NEW ppid
    PROVE  LET order == KillProcessTree(ppid, processes) IN
           /\ ToSet(order) = Tree(ppid, processes)
           /\ IsForest(processes) => Once(order) /\ Sorted(order, ChildFirst(processes))
<1>1. processes \in Seq([pid : Nat, ppid : Nat])
  BY DEF Listing
<1>2. Distinct(processes)
  <2>1. \A i \in DOMAIN processes : i \in Nat /\ processes[i].pid \in Nat
    <3>1. DOMAIN processes = 1 .. Len(processes) /\ Len(processes) \in Nat
      BY <1>1, LenProperties
    <3>2. \A i \in 1 .. Len(processes) : processes[i] \in [pid : Nat, ppid : Nat]
      BY <1>1, ElementOfSeq
    <3>3. QED BY <3>1, <3>2
  <2>2. SUFFICES ASSUME NEW i \in DOMAIN processes, NEW j \in DOMAIN processes,
                        processes[i].pid = processes[j].pid
                 PROVE  i = j
    BY DEF Distinct
  <2>3. ~(i < j) /\ ~(j < i)
    BY <2>1, <2>2 DEF Listing
  <2>4. QED BY <2>1, <2>3
<1>3. Kills(KillProcessTree(ppid, processes), ppid, DOMAIN processes, processes)
  BY <1>1, KillProcessTreeKills
<1>4. QED BY <1>2, <1>3, TreeIsReach DEF Kills

-------------------------------------------------------------------------------
(* Endings of a file.                                                      *)

\* Sequences with the same elements are the same.
LEMMA SequencesEqual ==
    ASSUME NEW S, NEW a \in Seq(S), NEW b \in Seq(S), Len(a) = Len(b),
           \A i \in 1 .. Len(a) : a[i] = b[i]
    PROVE  a = b
BY SeqEqual

\* The last n elements.
Ending(s, n) == SubSeq(s, Len(s) - n + 1, Len(s))

\* Length and elements of a part.
LEMMA SubSeqIs ==
    ASSUME NEW S, NEW s \in Seq(S), NEW m \in Nat, NEW n \in Nat, 1 <= m, m <= n + 1, n <= Len(s)
    PROVE  /\ SubSeq(s, m, n) \in Seq(S)
           /\ Len(SubSeq(s, m, n)) = n - m + 1
           /\ \A i \in 1 .. n - m + 1 : SubSeq(s, m, n)[i] = s[m + i - 1]
<1>1. Len(s) \in Nat /\ DOMAIN s = 1 .. Len(s)
  BY LenProperties
<1>2. \A i \in m .. n : s[i] \in S
  <2>1. \A i \in m .. n : i \in 1 .. Len(s)
    BY <1>1
  <2>2. QED BY <1>1, <2>1, ElementOfSeq
<1>3. m \in Int /\ n \in Int
  OBVIOUS
<1>4. /\ SubSeq(s, m, n) \in Seq(S)
      /\ Len(SubSeq(s, m, n)) = IF m <= n THEN n - m + 1 ELSE 0
      /\ \A i \in 1 .. n - m + 1 : SubSeq(s, m, n)[i] = s[m + i - 1]
  BY <1>2, <1>3, SubSeqProperties
<1>5. ~(m <= n) => n - m + 1 = 0
  OBVIOUS
<1>6. QED BY <1>4, <1>5

\* Length and elements of an ending.
LEMMA EndingIs ==
    ASSUME NEW S, NEW s \in Seq(S), NEW n \in 0 .. Len(s)
    PROVE  /\ Len(s) \in Nat /\ n \in Nat
           /\ Ending(s, n) \in Seq(S)
           /\ Len(Ending(s, n)) = n
           /\ \A i \in 1 .. n : Ending(s, n)[i] = s[Len(s) - n + i]
<1>1. Len(s) \in Nat
  BY LenProperties
<1> DEFINE m == Len(s) - n + 1
           l == Len(s)
<1>2. m \in Nat /\ l \in Nat /\ 1 <= m /\ m <= l + 1 /\ l - m + 1 = n /\ l <= Len(s)
  BY <1>1
<1>3. Ending(s, n) = SubSeq(s, m, l)
  BY DEF Ending
<1> HIDE DEF m, l
<1>4. /\ SubSeq(s, m, l) \in Seq(S)
      /\ Len(SubSeq(s, m, l)) = l - m + 1
      /\ \A i \in 1 .. l - m + 1 : SubSeq(s, m, l)[i] = s[m + i - 1]
  BY <1>2, SubSeqIs
<1>5. \A i \in 1 .. n : m + i - 1 = Len(s) - n + i
  BY <1>1 DEF m
<1>6. \A i \in 1 .. n : SubSeq(s, m, l)[i] = s[Len(s) - n + i]
  BY <1>2, <1>4, <1>5
<1>7. n \in Nat
  BY <1>1
<1>8. QED BY <1>1, <1>2, <1>3, <1>4, <1>6, <1>7

\* Length and elements of a reversed sequence.
LEMMA ReverseIs ==
    ASSUME NEW S, NEW s \in Seq(S)
    PROVE  /\ Reverse(s) \in Seq(S) /\ Len(Reverse(s)) = Len(s)
           /\ \A i \in 1 .. Len(s) : /\ Reverse(s)[i] = s[Len(s) - i + 1]
                                   /\ Len(s) - i + 1 \in 1 .. Len(s)
<1>1. Len(s) \in Nat /\ DOMAIN s = 1 .. Len(s)
  BY LenProperties
<1>2. \A i \in 1 .. Len(s) : Len(s) - i + 1 \in 1 .. Len(s)
  BY <1>1
<1>3. \A i \in 1 .. Len(s) : s[Len(s) - i + 1] \in S
  BY <1>1, <1>2, ElementOfSeq
<1>4. Reverse(s) = [i \in 1 .. Len(s) |-> s[Len(s) - i + 1]]
  BY DEF Reverse
<1>5. QED BY <1>1, <1>2, <1>3, <1>4

\* The words for suffix, in terms of elements.
LEMMA SuffixIs ==
    ASSUME NEW S, NEW s \in Seq(S), NEW t \in Seq(S)
    PROVE  IsSuffix(s, t) <=> /\ Len(s) <= Len(t)
                              /\ \A i \in 1 .. Len(s) : s[Len(s) - i + 1] = t[Len(t) - i + 1]
<1> DEFINE a == Reverse(s)
           b == Reverse(t)
           n == Len(s)
<1>1. Len(s) \in Nat /\ Len(t) \in Nat
  BY LenProperties
<1>2. /\ a \in Seq(S) /\ Len(a) = Len(s)
      /\ \A i \in 1 .. Len(s) : a[i] = s[Len(s) - i + 1]
  BY ReverseIs
<1>3. /\ b \in Seq(S) /\ Len(b) = Len(t)
      /\ \A i \in 1 .. Len(t) : b[i] = t[Len(t) - i + 1]
  BY ReverseIs
<1>4. IsSuffix(s, t) <=> Len(a) <= Len(b) /\ SubSeq(a, 1, Len(a)) = SubSeq(b, 1, Len(a))
  BY DEF IsSuffix, IsPrefix
<1>5. SubSeq(a, 1, n) = a
  BY <1>2, SubSeqFull
<1> HIDE DEF a, b
<1>6. SUFFICES ASSUME Len(s) <= Len(t)
               PROVE  a = SubSeq(b, 1, n) <=> \A i \in 1 .. n : s[n - i + 1] = t[Len(t) - i + 1]
  BY <1>2, <1>3, <1>4, <1>5
<1>7. 1 \in Nat /\ n \in Nat /\ 1 <= n + 1 /\ n <= Len(b) /\ 1 <= 1 /\ n - 1 + 1 = n
  BY <1>1, <1>3, <1>6
<1>8. /\ SubSeq(b, 1, n) \in Seq(S) /\ Len(SubSeq(b, 1, n)) = n - 1 + 1
      /\ \A i \in 1 .. n - 1 + 1 : SubSeq(b, 1, n)[i] = b[1 + i - 1]
  BY <1>3, <1>7, SubSeqIs
<1>9. \A i \in 1 .. n : 1 + i - 1 = i /\ i \in 1 .. Len(t)
  BY <1>1, <1>6
<1>10. \A i \in 1 .. n : SubSeq(b, 1, n)[i] = t[Len(t) - i + 1]
  BY <1>3, <1>7, <1>8, <1>9
<1>11. a = SubSeq(b, 1, n) <=> \A i \in 1 .. n : a[i] = SubSeq(b, 1, n)[i]
  BY <1>2, <1>7, <1>8, SequencesEqual
<1>12. \A i \in 1 .. n : a[i] = s[n - i + 1]
  BY <1>2
<1>13. ASSUME NEW i \in 1 .. n
       PROVE  a[i] = SubSeq(b, 1, n)[i] <=> s[n - i + 1] = t[Len(t) - i + 1]
  <2>1. SubSeq(b, 1, n)[i] = t[Len(t) - i + 1]
    BY <1>10
  <2>2. a[i] = s[n - i + 1]
    BY <1>12
  <2>3. QED BY <2>1, <2>2
<1> HIDE DEF n
<1>14. QED BY <1>11, <1>13

\* An ending is a suffix.
LEMMA EndingIsSuffix ==
    ASSUME NEW S, NEW s \in Seq(S), NEW n \in 0 .. Len(s)
    PROVE  IsSuffix(Ending(s, n), s)
<1> DEFINE e == Ending(s, n)
<1>1. /\ Len(s) \in Nat /\ n \in Nat /\ e \in Seq(S) /\ Len(e) = n
      /\ \A i \in 1 .. n : e[i] = s[Len(s) - n + i]
  BY EndingIs
<1>2. \A i \in 1 .. n : n - i + 1 \in 1 .. n /\ Len(s) - n + (n - i + 1) = Len(s) - i + 1
  BY <1>1
<1> HIDE DEF e
<1>3. \A i \in 1 .. n : e[n - i + 1] = s[Len(s) - i + 1]
  BY <1>1, <1>2
<1>4. IsSuffix(e, s)
  BY <1>1, <1>3, SuffixIs
<1>5. QED BY <1>4 DEF e

\* What is before an ending completes it.
LEMMA EndingGrows ==
    ASSUME NEW S, NEW s \in Seq(S), NEW n \in 0 .. Len(s), NEW k \in 0 .. Len(s) - n
    PROVE  /\ n + k \in 0 .. Len(s)
           /\ SubSeq(s, Len(s) - n - k + 1, Len(s) - n) \o Ending(s, n) = Ending(s, n + k)
<1>1. Len(s) \in Nat
  BY LenProperties
<1> DEFINE m == Len(s) - n - k + 1
           j == Len(s) - n
           l == Len(s)
<1>2. m \in 1 .. Len(s) + 1 /\ j \in m - 1 .. Len(s) /\ l \in j .. Len(s) /\ n + k \in 0 .. Len(s)
      /\ Len(s) - (n + k) + 1 = m
  BY <1>1
<1>3. Ending(s, n) = SubSeq(s, j + 1, l) /\ Ending(s, n + k) = SubSeq(s, m, l)
  BY <1>2 DEF Ending
<1>4. SubSeq(s, m, j) \o SubSeq(s, j + 1, l) = SubSeq(s, m, l)
  <2> HIDE DEF m, j, l
  <2>1. QED BY <1>2, ConcatAdjacentSubSeq
<1>5. QED BY <1>2, <1>3, <1>4

\* A text has finitely many newlines.
LEMMA NewlinesType ==
    ASSUME NEW S, NEW s \in Seq(S)
    PROVE  /\ NewlinesAt(s) \in SUBSET (1 .. Len(s)) /\ IsFiniteSet(NewlinesAt(s))
           /\ Newlines(s) \in Nat
<1>1. Len(s) \in Int /\ 1 \in Int /\ DOMAIN s = 1 .. Len(s)
  BY LenProperties
<1>2. IsFiniteSet(1 .. Len(s))
  BY <1>1, FS_Interval
<1>3. NewlinesAt(s) \in SUBSET (1 .. Len(s))
  BY <1>1 DEF NewlinesAt
<1>4. IsFiniteSet(NewlinesAt(s))
  BY <1>2, <1>3, FS_Subset
<1>5. QED BY <1>3, <1>4, FS_CardinalityType DEF Newlines

\* The newlines of two texts are those of the first and, moved, those of the second.
LEMMA NewlinesConcatenation ==
    ASSUME NEW S, NEW a \in Seq(S), NEW b \in Seq(S)
    PROVE  Newlines(a \o b) = Newlines(a) + Newlines(b)
<1> DEFINE A == NewlinesAt(a)
           B == NewlinesAt(b)
           Moved == {Len(a) + i : i \in B}
<1>1. /\ Len(a) \in Nat /\ Len(b) \in Nat
      /\ DOMAIN (a \o b) = 1 .. Len(a) + Len(b)
      /\ \A i \in 1 .. Len(a) : (a \o b)[i] = a[i]
      /\ \A i \in 1 .. Len(b) : (a \o b)[Len(a) + i] = b[i]
      /\ DOMAIN a = 1 .. Len(a) /\ DOMAIN b = 1 .. Len(b)
  BY Concatenated
<1>2. /\ A \in SUBSET (1 .. Len(a)) /\ IsFiniteSet(A) /\ Newlines(a) \in Nat
      /\ B \in SUBSET (1 .. Len(b)) /\ IsFiniteSet(B) /\ Newlines(b) \in Nat
  BY NewlinesType
<1>3. NewlinesAt(a \o b) = A \cup Moved
  <2>1. ASSUME NEW i \in NewlinesAt(a \o b)
        PROVE  i \in A \cup Moved
    <3>1. i \in 1 .. Len(a) + Len(b) /\ (a \o b)[i] = "newline"
      BY <1>1 DEF NewlinesAt
    <3>2. CASE i \in 1 .. Len(a)
      BY <1>1, <3>1, <3>2 DEF NewlinesAt
    <3>3. CASE i \notin 1 .. Len(a)
      <4>1. i - Len(a) \in 1 .. Len(b) /\ Len(a) + (i - Len(a)) = i
        BY <1>1, <3>1, <3>3
      <4>2. i - Len(a) \in B
        BY <1>1, <3>1, <4>1 DEF NewlinesAt
      <4>3. QED BY <4>1, <4>2
    <3>4. QED BY <3>2, <3>3
  <2>2. ASSUME NEW i \in A
        PROVE  i \in NewlinesAt(a \o b)
    <3>1. i \in 1 .. Len(a) /\ i \in 1 .. Len(a) + Len(b) /\ a[i] = "newline"
      BY <1>1, <1>2 DEF NewlinesAt
    <3>2. QED BY <1>1, <3>1 DEF NewlinesAt
  <2>3. ASSUME NEW i \in B
        PROVE  Len(a) + i \in NewlinesAt(a \o b)
    <3>1. i \in 1 .. Len(b) /\ Len(a) + i \in 1 .. Len(a) + Len(b) /\ b[i] = "newline"
      BY <1>1, <1>2 DEF NewlinesAt
    <3>2. QED BY <1>1, <3>1 DEF NewlinesAt
  <2>4. QED BY <2>1, <2>2, <2>3
<1> HIDE DEF A, B
<1>4. A \cap Moved = {}
  <2>1. \A i \in B : ~(Len(a) + i \in 1 .. Len(a))
    BY <1>1, <1>2
  <2>2. QED BY <1>2, <2>1
<1>5. IsFiniteSet(Moved) /\ Cardinality(Moved) = Cardinality(B)
  <2> DEFINE f == [i \in B |-> Len(a) + i]
  <2>1. f \in [B -> Moved]
    OBVIOUS
  <2>2. \A i, j \in B : Len(a) + i = Len(a) + j => i = j
    <3>1. \A i \in B : i \in Nat
      BY <1>2
    <3>2. QED BY <1>1, <3>1
  <2>3. f \in Bijection(B, Moved)
    BY <2>1, <2>2 DEF Bijection, Injection, Surjection, IsInjective
  <2>4. ExistsBijection(B, Moved)
    BY <2>3 DEF ExistsBijection
  <2>5. QED BY <1>2, <2>4, FS_Bijection
<1>6. Cardinality(A \cup Moved) = Cardinality(A) + Cardinality(Moved) - Cardinality({})
  <2>1. Cardinality(A \cup Moved) = Cardinality(A) + Cardinality(Moved) - Cardinality(A \cap Moved)
    <3> HIDE DEF Moved
    <3>1. QED BY <1>2, <1>5, FS_Union
  <2>2. QED BY <1>4, <2>1
<1>7. Cardinality({}) = 0
  BY FS_EmptySet
<1>8. Newlines(a) = Cardinality(A) /\ Newlines(b) = Cardinality(B)
      /\ Newlines(a \o b) = Cardinality(A \cup Moved)
  BY <1>3 DEF Newlines, A, B
<1> HIDE DEF Moved
<1>9. QED BY <1>2, <1>5, <1>6, <1>7, <1>8

\* What follows the n-th newline has n newlines less.
LEMMA AfterLineIs ==
    ASSUME NEW S, NEW s \in Seq(S), NEW n \in 1 .. Newlines(s)
    PROVE  \E k \in 0 .. Len(s) :
             /\ AfterLine(s, n) = Ending(s, k)
             /\ Newlines(AfterLine(s, n)) = Newlines(s) - n
<1> DEFINE N == NewlinesAt(s)
           at == CHOOSE i \in N : Cardinality({j \in N : j <= i}) = n
           l == Len(s)
<1>1. N \in SUBSET (1 .. Len(s)) /\ IsFiniteSet(N) /\ Newlines(s) \in Nat
  BY NewlinesType
<1>2. N \in SUBSET Nat
  BY <1>1
<1>3. \E i \in N : Rank(N, i) = n
  <2>1. \A k \in 1 .. Cardinality(N) : \E p \in N : Rank(N, p) = k
    <3> HIDE DEF N
    <3>1. QED BY <1>1, <1>2, Ranks
  <2>2. n \in 1 .. Cardinality(N)
    BY DEF Newlines
  <2> HIDE DEF N
  <2>3. QED BY <2>1, <2>2
<1>4. at \in N /\ Cardinality({j \in N : j <= at}) = n
  BY <1>3 DEF Rank
<1>5. AfterLine(s, n) = SubSeq(s, at + 1, l)
  BY DEF AfterLine
<1> HIDE DEF at
<1>6. l \in Nat /\ at \in 1 .. l
  <2>1. at \in 1 .. l
    BY <1>1, <1>4
  <2>2. QED BY <2>1, LenProperties
<1> DEFINE first == SubSeq(s, 1, at)
           rest == SubSeq(s, at + 1, l)
<1>7. l - at \in 0 .. l /\ l - (l - at) + 1 = at + 1
  <2> HIDE DEF l
  <2>1. QED BY <1>6
<1>8. rest = Ending(s, l - at)
  BY <1>7 DEF Ending
<1>9. rest \in Seq(S)
  BY <1>7, <1>8, EndingIs
<1>10. /\ first \in Seq(S) /\ Len(first) = at
       /\ \A i \in 1 .. at : first[i] = s[i]
  <2>1. 1 \in Nat /\ at \in Nat /\ 1 <= 1 /\ 1 <= at + 1 /\ at <= Len(s) /\ at - 1 + 1 = at
    BY <1>6
  <2>2. /\ first \in Seq(S) /\ Len(first) = at - 1 + 1
        /\ \A i \in 1 .. at - 1 + 1 : first[i] = s[1 + i - 1]
    <3> HIDE DEF l
    <3>1. QED BY <2>1, SubSeqIs
  <2>3. \A i \in 1 .. at : 1 + i - 1 = i
    BY <2>1
  <2> HIDE DEF first
  <2>4. QED BY <2>1, <2>2, <2>3
<1>11. first \o rest = s
  <2>1. 1 \in 1 .. Len(s) + 1 /\ at \in 1 - 1 .. Len(s) /\ l \in at .. Len(s)
    BY <1>6
  <2>2. first \o rest = SubSeq(s, 1, l)
    BY <2>1, ConcatAdjacentSubSeq
  <2>3. SubSeq(s, 1, l) = s
    BY SubSeqFull
  <2>4. QED BY <2>2, <2>3
<1> HIDE DEF first, rest
<1>12. Newlines(first) = n
  <2>1. NewlinesAt(first) = {j \in N : j <= at}
    <3>1. DOMAIN first = 1 .. at
      BY <1>10, LenProperties
    <3>2. DOMAIN s = 1 .. l
      BY LenProperties
    <3>3. \A j : j \in 1 .. at <=> j \in 1 .. l /\ j <= at
      <4> HIDE DEF l
      <4>1. QED BY <1>6
    <3> HIDE DEF l
    <3>4. QED BY <1>10, <3>1, <3>2, <3>3 DEF NewlinesAt
  <2>2. QED BY <1>4, <2>1 DEF Newlines
<1>13. Newlines(s) = Newlines(first) + Newlines(rest) /\ Newlines(rest) \in Nat
  <2>1. Newlines(first \o rest) = Newlines(first) + Newlines(rest)
    BY <1>9, <1>10, NewlinesConcatenation
  <2>2. QED BY <1>9, <1>11, <2>1, NewlinesType
<1>14. Newlines(rest) = Newlines(s) - n
  BY <1>1, <1>12, <1>13
<1>15. QED BY <1>5, <1>7, <1>8, <1>14 DEF rest

\* An ending has no more newlines than the whole.
LEMMA EndingNewlines ==
    ASSUME NEW S, NEW s \in Seq(S), NEW n \in 0 .. Len(s)
    PROVE  Newlines(Ending(s, n)) <= Newlines(s)
<1>1. Len(s) \in Nat
  BY LenProperties
<1>2. Len(s) - n \in 0 .. Len(s) - n /\ n + (Len(s) - n) = Len(s)
  BY <1>1
<1> DEFINE k == Len(s) - n
           first == SubSeq(s, Len(s) - n - k + 1, Len(s) - n)
<1>3. first \o Ending(s, n) = Ending(s, n + k)
  <2> HIDE DEF k
  <2>1. k \in 0 .. Len(s) - n
    BY <1>2 DEF k
  <2>2. QED BY <2>1, EndingGrows
<1>4. Ending(s, n + k) = s
  <2>1. Len(s) - Len(s) + 1 = 1 /\ n + k = Len(s)
    BY <1>1, <1>2
  <2>2. Ending(s, Len(s)) = SubSeq(s, 1, Len(s))
    BY <2>1 DEF Ending
  <2>3. QED BY <2>1, <2>2, SubSeqFull
<1>5. first \in Seq(S)
  <2> DEFINE m == Len(s) - n - k + 1
             j == Len(s) - n
  <2>1. m \in Nat /\ j \in Nat /\ 1 <= m /\ m <= j + 1 /\ j <= Len(s)
    BY <1>1
  <2> HIDE DEF m, j
  <2>2. SubSeq(s, m, j) \in Seq(S)
    BY <2>1, SubSeqIs
  <2>3. QED BY <2>2 DEF m, j
<1>6. Ending(s, n) \in Seq(S)
  BY EndingIs
<1> HIDE DEF first, k
<1>7. /\ Newlines(s) = Newlines(first) + Newlines(Ending(s, n))
      /\ Newlines(first) \in Nat /\ Newlines(Ending(s, n)) \in Nat
  <2>1. Newlines(first \o Ending(s, n)) = Newlines(first) + Newlines(Ending(s, n))
    BY <1>5, <1>6, NewlinesConcatenation
  <2>2. QED BY <1>3, <1>4, <1>5, <1>6, <2>1, NewlinesType
<1>8. QED BY <1>7

-------------------------------------------------------------------------------
(* TailFile.                                                               *)

\* What k chunks hold.
LEMMA ChunksLength ==
    ASSUME NEW k \in Nat
    PROVE  /\ k * ChunkSize \in Nat /\ k * ChunkSize >= k
           /\ (k + 1) * ChunkSize = k * ChunkSize + ChunkSize
           /\ ChunkSize \in Nat /\ ChunkSize >= 1
BY SizesAssumption

\* A chunk goes back from what was read before.
LEMMA ChunkIs ==
    ASSUME NEW S, NEW file \in Seq(S), NEW k \in Nat
    PROVE  /\ Chunk(file, k) \in Seq(S)
           /\ k * ChunkSize < Len(file) =>
                \E n \in 0 .. Len(file) - k * ChunkSize :
                  /\ Len(Chunk(file, k)) = n
                  /\ Chunk(file, k) = SubSeq(file, Len(file) - k * ChunkSize - n + 1,
                                             Len(file) - k * ChunkSize)
                  /\ \/ n = ChunkSize
                     \/ n <= ChunkSize /\ n = Len(file) - k * ChunkSize
<1> DEFINE done == k * ChunkSize
           end == Len(file) - done
           start == IF end > ChunkSize THEN end - ChunkSize ELSE 0
           n == end - start
<1>1. Len(file) \in Nat /\ DOMAIN file = 1 .. Len(file)
  BY LenProperties
<1>2. done \in Nat /\ ChunkSize \in Nat /\ ChunkSize >= 1
  BY ChunksLength
<1>3. Chunk(file, k) = SubSeq(file, start + 1, end)
  BY DEF Chunk
<1> HIDE DEF done
<1>4. start + 1 \in Int /\ end \in Int /\ start \in Nat
  BY <1>1, <1>2
<1>5. \A i \in start + 1 .. end : i \in 1 .. Len(file)
  BY <1>1, <1>2
<1>6. \A i \in start + 1 .. end : file[i] \in S
  <2> HIDE DEF start, end
  <2>1. QED BY <1>1, <1>5, ElementOfSeq
<1>7. /\ SubSeq(file, start + 1, end) \in Seq(S)
      /\ Len(SubSeq(file, start + 1, end))
           = IF start + 1 <= end THEN end - (start + 1) + 1 ELSE 0
  <2> HIDE DEF start, end
  <2>1. QED BY <1>4, <1>6, SubSeqProperties
<1>8. ASSUME done < Len(file)
      PROVE  /\ n \in 0 .. Len(file) - done
             /\ Len(Chunk(file, k)) = n
             /\ Chunk(file, k) = SubSeq(file, Len(file) - done - n + 1, Len(file) - done)
             /\ n = ChunkSize \/ (n <= ChunkSize /\ n = Len(file) - done)
  <2>1. end >= 1 /\ n \in 0 .. Len(file) - done
    BY <1>1, <1>2, <1>8
  <2>2. Len(file) - done - n + 1 = start + 1 /\ start + 1 <= end /\ end - (start + 1) + 1 = n
    BY <1>1, <1>2, <1>8
  <2>3. n = ChunkSize \/ (n <= ChunkSize /\ n = Len(file) - done)
    <3>1. end \in Int
      BY <1>4
    <3>2. CASE end > ChunkSize
      <4>1. start = end - ChunkSize
        BY <3>2
      <4> HIDE DEF start, end
      <4>2. n = ChunkSize
        BY <1>2, <3>1, <4>1
      <4>3. QED BY <4>2
    <3>3. CASE ~(end > ChunkSize)
      <4>1. start = 0
        BY <3>3
      <4>2. end <= ChunkSize
        BY <1>2, <3>1, <3>3
      <4> HIDE DEF start, end
      <4>3. n = end /\ n <= ChunkSize
        BY <3>1, <4>1, <4>2
      <4>4. QED BY <4>3 DEF end
    <3>4. QED BY <3>2, <3>3
  <2>4. Len(Chunk(file, k)) = n
    <3> HIDE DEF start, n
    <3>1. QED BY <1>3, <1>7, <2>2
  <2>5. QED BY <1>3, <2>1, <2>2, <2>3, <2>4
<1>9. QED BY <1>3, <1>7, <1>8 DEF done

TailStates(S) == [seen : Nat, text : Seq(S)]

\* One turn of the loop over the chunks.
NextTail(last, k, file, lines, bytes) ==
    LET done == (k - 1) * ChunkSize
        chunk == Chunk(file, k - 1)
        now == last.seen + Newlines(chunk) IN
    IF last.seen >= lines \/ done >= Len(file) \/ done >= bytes THEN last
    ELSE [seen |-> now,
          text |-> (IF now > lines THEN AfterLine(chunk, now - lines) ELSE chunk) \o last.text]

\* The loop of TailFile keeps its types.
LEMMA NextTailType ==
    ASSUME NEW S, NEW file \in Seq(S), NEW lines \in Nat, NEW bytes \in Int,
           NEW last \in TailStates(S), NEW k \in Nat \ {0}
    PROVE  NextTail(last, k, file, lines, bytes) \in TailStates(S)
<1> DEFINE chunk == Chunk(file, k - 1)
           now == last.seen + Newlines(chunk)
           more == IF now > lines THEN AfterLine(chunk, now - lines) ELSE chunk
<1>1. k - 1 \in Nat
  OBVIOUS
<1>2. chunk \in Seq(S)
  BY <1>1, ChunkIs
<1> HIDE DEF chunk
<1>3. Newlines(chunk) \in Nat /\ last.seen \in Nat /\ last.text \in Seq(S)
  BY <1>2, NewlinesType DEF TailStates
<1>4. ASSUME last.seen < lines
      PROVE  [seen |-> now, text |-> more \o last.text] \in TailStates(S)
  <2>1. more \in Seq(S)
    <3>1. CASE now > lines
      <4>1. now - lines \in 1 .. Newlines(chunk)
        BY <1>3, <1>4, <3>1
      <4> DEFINE m == now - lines
      <4> HIDE DEF now, m
      <4>2. m \in 1 .. Newlines(chunk)
        BY <4>1 DEF m
      <4>3. PICK e \in 0 .. Len(chunk) : AfterLine(chunk, m) = Ending(chunk, e)
        BY <1>2, <4>2, AfterLineIs
      <4>4. AfterLine(chunk, m) \in Seq(S)
        BY <1>2, <4>3, EndingIs
      <4>5. QED BY <3>1, <4>4 DEF m
    <3>2. CASE ~(now > lines)
      BY <1>2, <3>2
    <3>3. QED BY <3>1, <3>2
  <2>2. now \in Nat
    BY <1>3
  <2> HIDE DEF now, more
  <2>3. more \o last.text \in Seq(S)
    BY <1>3, <2>1, Concatenated
  <2>4. QED BY <2>2, <2>3 DEF TailStates
<1>5. CASE last.seen >= lines
  BY <1>5 DEF NextTail
<1>6. CASE ~(last.seen >= lines)
  <2>1. last.seen < lines
    BY <1>3, <1>6
  <2> HIDE DEF now, more
  <2>2. [seen |-> now, text |-> more \o last.text] \in TailStates(S)
    BY <1>4, <2>1
  <2>3. \/ NextTail(last, k, file, lines, bytes) = last
        \/ NextTail(last, k, file, lines, bytes) = [seen |-> now, text |-> more \o last.text]
    BY DEF NextTail, now, more, chunk
  <2>4. QED BY <2>2, <2>3
<1>7. QED BY <1>5, <1>6

IsTail(tail, S, file, lines, bytes) ==
    /\ tail \in [0 .. Len(file) -> TailStates(S)]
    /\ tail[0] = [seen |-> 0, text |-> <<>>]
    /\ \A k \in 1 .. Len(file) : tail[k] = NextTail(tail[k - 1], k, file, lines, bytes)

\* What the loop of TailFile computes, chunk by chunk.
LEMMA TailLinesIs ==
    ASSUME NEW S, NEW file \in Seq(S), NEW lines \in Nat, NEW bytes \in Int
    PROVE  \E tail : /\ IsTail(tail, S, file, lines, bytes)
                     /\ TailLines(file, lines, bytes) = tail[Len(file)].text
<1> DEFINE N == Len(file)
           T == TailStates(S)
           base == [seen |-> 0, text |-> <<>>]
           step == [a \in (1 .. N) \X T |-> NextTail(a[2], a[1], file, lines, bytes)]
           F(f) == [k \in 0 .. Len(file) |->
                     IF k = 0 THEN [seen |-> 0, text |-> <<>>]
                     ELSE LET last == f[k - 1]
                              done == (k - 1) * ChunkSize
                              chunk == Chunk(file, k - 1)
                              now == last.seen + Newlines(chunk) IN
                          IF last.seen >= lines \/ done >= Len(file) \/ done >= bytes THEN last
                          ELSE [seen |-> now,
                                text |-> (IF now > lines THEN AfterLine(chunk, now - lines)
                                          ELSE chunk) \o last.text]]
           tail == CHOOSE f : f = F(f)
<1>1. N \in Nat
  BY LenProperties
<1>2. base \in T
  BY DEF TailStates
<1>3. step \in [(1 .. N) \X T -> T]
  <2>1. \A k \in 1 .. N : k \in Nat \ {0}
    BY <1>1
  <2>2. \A k \in 1 .. N, last \in T : NextTail(last, k, file, lines, bytes) \in T
    BY <2>1, NextTailType
  <2> HIDE DEF N, T
  <2>3. QED BY <2>2
<1>4. PICK f : Counts(N, T, base, step, f)
  <2>1. IsCount(N, T, base, step)
    BY <1>1, <1>2, <1>3 DEF IsCount
  <2> HIDE DEF N, T, base, step
  <2>2. QED BY <2>1, CountingRecursion
<1>5. /\ f \in [0 .. N -> T] /\ f[0] = base
      /\ \A k \in 1 .. N : k - 1 \in 0 .. N /\ f[k] = NextTail(f[k - 1], k, file, lines, bytes)
  <2>1. \A k \in 1 .. N : k - 1 \in 0 .. N
    BY <1>1
  <2>2. \A k \in 1 .. N, last \in T : step[<<k, last>>] = NextTail(last, k, file, lines, bytes)
    OBVIOUS
  <2> HIDE DEF N, T, base, step
  <2>3. QED BY <1>4, <2>1, <2>2 DEF Counts
<1>6. \A g : F(g) = [k \in 0 .. N |-> IF k = 0 THEN base
                                      ELSE NextTail(g[k - 1], k, file, lines, bytes)]
  BY DEF NextTail
<1>7. TailLines(file, lines, bytes) = tail[N].text
  BY DEF TailLines
<1> HIDE DEF F
<1>8. f = F(f)
  <2>1. \A k \in 0 .. N : k = 0 \/ k \in 1 .. N
    BY <1>1
  <2>2. f = [k \in 0 .. N |-> IF k = 0 THEN base ELSE NextTail(f[k - 1], k, file, lines, bytes)]
    <3> HIDE DEF N, T, base
    <3>1. QED BY <1>5, <2>1
  <2>3. QED BY <1>6, <2>2
<1>9. tail = F(tail)
  BY <1>8
<1> HIDE DEF tail
<1>10. tail = [k \in 0 .. N |-> IF k = 0 THEN base
                                 ELSE NextTail(tail[k - 1], k, file, lines, bytes)]
  BY <1>6, <1>9
<1>11. /\ tail = [k \in 0 .. N |-> tail[k]] /\ tail[0] = base
       /\ \A k \in 1 .. N : tail[k] = NextTail(tail[k - 1], k, file, lines, bytes)
  <2>1. 0 \in 0 .. N /\ \A k \in 1 .. N : k \in 0 .. N /\ k # 0
    BY <1>1
  <2> HIDE DEF N, base
  <2>2. QED BY <1>10, <2>1
<1>12. \A k \in 0 .. N : tail[k] \in T
  <2> DEFINE P == {k \in 0 .. N : tail[k] \in T}
  <2>1. 0 \in P
    BY <1>1, <1>2, <1>11
  <2>2. ASSUME NEW k \in 1 .. N, k - 1 \in P
        PROVE  k \in P
    <3>1. k \in 0 .. N /\ k \in Nat \ {0}
      BY <1>1
    <3>2. NextTail(tail[k - 1], k, file, lines, bytes) \in T
      BY <2>2, <3>1, NextTailType
    <3>3. QED BY <1>11, <3>1, <3>2
  <2> HIDE DEF P, N
  <2>3. \A k \in 0 .. N : k \in P
    BY <1>1, <2>1, <2>2, InductionTo
  <2>4. QED BY <2>3 DEF P
<1>13. IsTail(tail, S, file, lines, bytes)
  <2> HIDE DEF T
  <2>1. QED BY <1>11, <1>12 DEF IsTail
<1>14. QED BY <1>7, <1>13

\* An ending of a part is a part itself.
LEMMA EndingOfPart ==
    ASSUME NEW S, NEW s \in Seq(S), NEW j \in 0 .. Len(s), NEW n \in 0 .. j, NEW e \in 0 .. n
    PROVE  /\ SubSeq(s, j - n + 1, j) \in Seq(S)
           /\ Len(SubSeq(s, j - n + 1, j)) = n
           /\ Ending(SubSeq(s, j - n + 1, j), e) = SubSeq(s, j - e + 1, j)
<1> DEFINE m == j - n + 1
           p == j - e + 1
           part == SubSeq(s, m, j)
           end == SubSeq(s, p, j)
<1>1. Len(s) \in Nat /\ j \in Nat /\ n \in Nat /\ e \in Nat
  <2>1. Len(s) \in Nat
    BY LenProperties
  <2>2. QED BY <2>1
<1>2. m \in Nat /\ 1 <= m /\ m <= j + 1 /\ j <= Len(s) /\ j - m + 1 = n
  BY <1>1
<1>3. p \in Nat /\ 1 <= p /\ p <= j + 1 /\ j - p + 1 = e
  BY <1>1
<1>4. /\ part \in Seq(S) /\ Len(part) = n
      /\ \A i \in 1 .. n : part[i] = s[m + i - 1]
  <2> HIDE DEF m
  <2>1. /\ SubSeq(s, m, j) \in Seq(S)
        /\ Len(SubSeq(s, m, j)) = j - m + 1
        /\ \A i \in 1 .. j - m + 1 : SubSeq(s, m, j)[i] = s[m + i - 1]
    BY <1>1, <1>2, SubSeqIs
  <2>2. QED BY <1>2, <2>1
<1>5. /\ end \in Seq(S) /\ Len(end) = e
      /\ \A i \in 1 .. e : end[i] = s[p + i - 1]
  <2> HIDE DEF p
  <2>1. /\ SubSeq(s, p, j) \in Seq(S)
        /\ Len(SubSeq(s, p, j)) = j - p + 1
        /\ \A i \in 1 .. j - p + 1 : SubSeq(s, p, j)[i] = s[p + i - 1]
    BY <1>1, <1>2, <1>3, SubSeqIs
  <2>2. QED BY <1>3, <2>1
<1>6. \A i \in 1 .. e : n - e + i \in 1 .. n /\ m + (n - e + i) - 1 = p + i - 1
  BY <1>1
<1> HIDE DEF m, p, part, end
<1>7. /\ Ending(part, e) \in Seq(S) /\ Len(Ending(part, e)) = e
      /\ \A i \in 1 .. e : Ending(part, e)[i] = part[n - e + i]
  <2>1. e \in 0 .. Len(part)
    BY <1>4
  <2>2. QED BY <1>4, <2>1, EndingIs
<1>8. ASSUME NEW i \in 1 .. e
      PROVE  Ending(part, e)[i] = end[i]
  <2>1. part[n - e + i] = s[m + (n - e + i) - 1]
    BY <1>4, <1>6
  <2>2. QED BY <1>5, <1>6, <1>7, <2>1
<1>9. Ending(part, e) = end
  BY <1>5, <1>7, <1>8, SequencesEqual
<1>10. QED BY <1>4, <1>9 DEF m, p, part, end

\* After k turns: an ending of the file with no more lines than asked for. It is
\* all that the k chunks hold, or has all the lines, or all the bytes, and the last
\* chunk was only read for bytes that were missing.
TailOk(last, k, file, lines, bytes) ==
    /\ \E n \in 0 .. Len(file) : last.text = Ending(file, n)
    /\ Newlines(last.text) <= lines
    /\ Len(last.text) = 0 \/ Len(last.text) < bytes + ChunkSize
    /\ \/ /\ last.seen = Newlines(last.text)
          /\ \/ Len(last.text) = k * ChunkSize
             \/ Len(last.text) = Len(file) /\ k * ChunkSize >= Len(file)
       \/ Newlines(last.text) = lines /\ last.seen >= lines
       \/ k * ChunkSize >= bytes /\ Len(last.text) >= bytes

\* One more chunk: the text is still an ending with no more lines than asked for.
LEMMA NextTailOk ==
    ASSUME NEW S, NEW file \in Seq(S), NEW lines \in Nat, NEW bytes \in Int,
           NEW last \in TailStates(S), NEW k \in 1 .. Len(file),
           TailOk(last, k - 1, file, lines, bytes)
    PROVE  TailOk(NextTail(last, k, file, lines, bytes), k, file, lines, bytes)
<1> DEFINE L == Len(file)
           done == (k - 1) * ChunkSize
           full == k * ChunkSize
           text == last.text
           chunk == Chunk(file, k - 1)
           now == last.seen + Newlines(chunk)
           next == NextTail(last, k, file, lines, bytes)
           Stops == last.seen >= lines \/ done >= L \/ done >= bytes
<1>1. L \in Nat /\ k \in Nat /\ k - 1 \in Nat /\ (k - 1) + 1 = k
  <2>1. L \in Nat
    BY LenProperties
  <2>2. QED BY <2>1
<1>2. done \in Nat /\ full = done + ChunkSize /\ ChunkSize \in Nat /\ ChunkSize >= 1
  <2>1. /\ (k - 1) * ChunkSize \in Nat
        /\ ((k - 1) + 1) * ChunkSize = (k - 1) * ChunkSize + ChunkSize
        /\ ChunkSize \in Nat /\ ChunkSize >= 1
    BY <1>1, ChunksLength
  <2>2. QED BY <1>1, <2>1
<1>3. PICK n \in 0 .. L : text = Ending(file, n)
  BY DEF TailOk
<1>4. text \in Seq(S) /\ Len(text) = n /\ n \in Nat /\ n <= L
  <2>1. text \in Seq(S) /\ Len(text) = n
    BY <1>3, EndingIs
  <2>2. QED BY <1>1, <2>1
<1>5. Newlines(text) \in Nat /\ last.seen \in Nat
  BY <1>4, NewlinesType DEF TailStates
<1>6. /\ Newlines(text) <= lines
      /\ n = 0 \/ n < bytes + ChunkSize
      /\ \/ /\ last.seen = Newlines(text)
            /\ \/ n = done
               \/ n = L /\ done >= L
         \/ Newlines(text) = lines /\ last.seen >= lines
         \/ done >= bytes /\ n >= bytes
  BY <1>4 DEF TailOk
<1>7. CASE Stops
  <2>1. next = last
    BY <1>7 DEF NextTail
  <2>2. \/ /\ last.seen = Newlines(text)
           /\ \/ n = full
              \/ n = L /\ full >= L
        \/ Newlines(text) = lines /\ last.seen >= lines
        \/ full >= bytes /\ n >= bytes
    <3> HIDE DEF L, done, full, text
    <3>1. CASE last.seen >= lines
      BY <1>1, <1>2, <1>4, <1>5, <1>6, <3>1
    <3>2. CASE done >= L
      BY <1>1, <1>2, <1>4, <1>5, <1>6, <3>2
    <3>3. CASE done >= bytes
      BY <1>1, <1>2, <1>4, <1>5, <1>6, <3>3
    <3>4. QED BY <1>7, <3>1, <3>2, <3>3
  <2>3. QED BY <1>3, <1>4, <1>6, <2>1, <2>2 DEF TailOk
<1>8. CASE ~Stops
  <2>1. last.seen < lines /\ done < L /\ done < bytes
    <3> HIDE DEF L, done
    <3>1. QED BY <1>1, <1>2, <1>5, <1>8
  <2>2. n = done /\ last.seen = Newlines(text)
    <3> HIDE DEF L, done, text
    <3>1. QED BY <1>1, <1>2, <1>4, <1>5, <1>6, <2>1
  <2>3. chunk \in Seq(S)
    BY <1>1, ChunkIs
  <2>4. PICK size \in 0 .. L - done :
          /\ Len(chunk) = size
          /\ chunk = SubSeq(file, L - done - size + 1, L - done)
          /\ size = ChunkSize \/ (size <= ChunkSize /\ size = L - done)
    BY <1>1, <2>1, ChunkIs
  <2>5. Newlines(chunk) \in Nat
    BY <2>3, NewlinesType
  <2>6. next = [seen |-> now,
                text |-> (IF now > lines THEN AfterLine(chunk, now - lines) ELSE chunk) \o text]
    BY <1>8 DEF NextTail
  \* What is put in front of the text leads to an ending of the file.
  <2>7. ASSUME NEW e \in 0 .. size
        PROVE  /\ Ending(chunk, e) \o text = Ending(file, n + e)
               /\ n + e \in 0 .. L
               /\ Ending(chunk, e) \in Seq(S)
    <3> DEFINE j == L - done
    <3>1. j \in 0 .. L /\ size \in 0 .. j /\ e \in 0 .. size /\ e \in 0 .. L - n
      <4> HIDE DEF L, done
      <4>1. QED BY <1>1, <1>2, <2>1, <2>2, <2>4
    <3>2. chunk = SubSeq(file, j - size + 1, j)
      BY <2>4
    <3>3. Ending(chunk, e) = SubSeq(file, j - e + 1, j)
      <4> HIDE DEF j, chunk
      <4>1. QED BY <3>1, <3>2, EndingOfPart
    <3>4. SubSeq(file, L - n - e + 1, L - n) \o Ending(file, n) = Ending(file, n + e)
          /\ n + e \in 0 .. L
      BY <3>1, EndingGrows
    <3>5. Ending(chunk, e) \in Seq(S)
      <4> HIDE DEF chunk
      <4>1. e \in 0 .. Len(chunk)
        BY <2>4
      <4>2. QED BY <2>3, <4>1, EndingIs
    <3>6. QED BY <1>3, <2>2, <3>3, <3>4, <3>5
  <2>8. CASE now > lines
    <3> DEFINE m == now - lines
    <3>1. m \in 1 .. Newlines(chunk)
      <4> HIDE DEF chunk
      <4>1. QED BY <1>5, <2>1, <2>5, <2>8
    <3> HIDE DEF m
    <3>2. PICK e \in 0 .. Len(chunk) : /\ AfterLine(chunk, m) = Ending(chunk, e)
                                       /\ Newlines(AfterLine(chunk, m)) = Newlines(chunk) - m
      <4> HIDE DEF chunk
      <4>1. QED BY <2>3, <3>1, AfterLineIs
    <3>3. e \in 0 .. size
      BY <2>4, <3>2
    <3>4. next.seen = now /\ next.text = Ending(chunk, e) \o text
      <4> HIDE DEF next, chunk, text, now
      <4>1. next = [seen |-> now, text |-> AfterLine(chunk, m) \o text]
        BY <2>6, <2>8 DEF m
      <4>2. QED BY <3>2, <4>1
    <3>5. next.text = Ending(file, n + e) /\ n + e \in 0 .. L /\ Ending(chunk, e) \in Seq(S)
      BY <2>7, <3>3, <3>4
    <3>6. Newlines(next.text) = Newlines(Ending(chunk, e)) + Newlines(text)
      <4> HIDE DEF chunk, next, text
      <4>1. QED BY <1>4, <3>4, <3>5, NewlinesConcatenation
    <3>7. Newlines(next.text) = lines /\ next.seen >= lines
      <4>1. Newlines(Ending(chunk, e)) = Newlines(chunk) - (now - lines)
        BY <3>2 DEF m
      <4> HIDE DEF chunk, next, text
      <4>2. QED BY <1>5, <2>2, <2>5, <2>8, <3>4, <3>6, <4>1
    <3>8. Newlines(next.text) <= lines
      BY <3>7
    <3>a. Len(next.text) < bytes + ChunkSize
      <4>1. Len(next.text) = n + e
        <5> HIDE DEF next
        <5>1. QED BY <3>5, EndingIs
      <4> HIDE DEF L, done, next
      <4>2. QED BY <1>1, <1>2, <2>1, <2>2, <2>4, <3>3, <4>1
    <3> HIDE DEF next
    <3>9. TailOk(next, k, file, lines, bytes)
      BY <3>5, <3>7, <3>8, <3>a DEF TailOk
    <3>10. QED BY <3>9 DEF next
  <2>9. CASE ~(now > lines)
    <3>1. next.seen = now /\ next.text = chunk \o text
      <4> HIDE DEF next, chunk, text, now
      <4>1. next = [seen |-> now, text |-> chunk \o text]
        BY <2>6, <2>9
      <4>2. QED BY <4>1
    <3>2. Ending(chunk, size) = chunk /\ size \in 0 .. size
      <4>1. size \in Nat
        <5> HIDE DEF L, done
        <5>1. QED BY <1>1, <1>2, <2>4
      <4>2. size - size + 1 = 1 /\ size \in 0 .. size
        BY <4>1
      <4>3. Ending(chunk, size) = SubSeq(chunk, 1, Len(chunk))
        BY <2>4, <4>2 DEF Ending
      <4> HIDE DEF chunk
      <4>4. QED BY <2>3, <4>2, <4>3, SubSeqFull
    <3>3. next.text = Ending(file, n + size) /\ n + size \in 0 .. L
      BY <2>7, <3>1, <3>2
    <3>4. Newlines(next.text) = Newlines(chunk) + Newlines(text)
      <4> HIDE DEF chunk, next, text
      <4>1. QED BY <1>4, <2>3, <3>1, NewlinesConcatenation
    <3>5. next.seen = Newlines(next.text) /\ Newlines(next.text) <= lines
      <4> HIDE DEF chunk, next, text
      <4>1. QED BY <1>5, <2>2, <2>5, <2>9, <3>1, <3>4
    <3>6. Len(next.text) = n + size
      <4> HIDE DEF next
      <4>1. QED BY <3>3, EndingIs
    <3>7. n + size = full \/ (n + size = L /\ full >= L)
      <4> HIDE DEF L, done, full
      <4>1. QED BY <1>1, <1>2, <2>1, <2>2, <2>4
    <3>8. n + size < bytes + ChunkSize
      <4> HIDE DEF L, done
      <4>1. QED BY <1>1, <1>2, <2>1, <2>2, <2>4
    <3> HIDE DEF next
    <3>9. TailOk(next, k, file, lines, bytes)
      BY <3>3, <3>5, <3>6, <3>7, <3>8 DEF TailOk
    <3>10. QED BY <3>9 DEF next
  <2>10. QED BY <2>8, <2>9
<1>9. QED BY <1>7, <1>8

\* The whole of a text is its longest ending.
LEMMA WholeEnding ==
    ASSUME NEW S, NEW s \in Seq(S)
    PROVE  Ending(s, Len(s)) = s
<1>1. Len(s) \in Nat
  BY LenProperties
<1>2. Len(s) - Len(s) + 1 = 1
  BY <1>1
<1>3. QED BY <1>2, SubSeqFull DEF Ending

\* The first half of FilesArriveWhole.
TailArrives(text, file, lines, bytes) ==
    LET limit == BytesLimit(bytes) IN
    /\ IsSuffix(text, file)
    /\ lines > 0 => Newlines(text) <= lines
    /\ text # <<>> => Len(text) < limit + ChunkSize
    /\ Len(file) <= limit /\ (lines > 0 => Newlines(file) < lines)
         => text = file
    /\ lines <= 0 /\ Len(file) > limit => Len(text) = limit
    /\ lines > 0 /\ Newlines(file) > lines /\ Len(text) < limit
         => Newlines(text) = lines

\* What the loop returns: all, or enough lines, or enough bytes.
LEMMA TailLinesArrive ==
    ASSUME NEW S, NEW file \in Seq(S), NEW lines \in Nat, NEW limit \in Int, lines > 0
    PROVE  \E n \in 0 .. Len(file) :
             LET text == TailLines(file, lines, limit) IN
             /\ text = Ending(file, n)
             /\ Newlines(text) <= lines
             /\ n = 0 \/ n < limit + ChunkSize
             /\ n = Len(file) \/ Newlines(text) = lines \/ n >= limit
<1> DEFINE N == Len(file)
<1>1. N \in Nat
  BY LenProperties
<1>2. PICK tail : /\ IsTail(tail, S, file, lines, limit)
                  /\ TailLines(file, lines, limit) = tail[N].text
  BY TailLinesIs
<1>3. /\ tail \in [0 .. N -> TailStates(S)] /\ tail[0] = [seen |-> 0, text |-> <<>>]
      /\ \A k \in 1 .. N : tail[k] = NextTail(tail[k - 1], k, file, lines, limit)
  BY <1>2 DEF IsTail
<1>4. TailOk(tail[0], 0, file, lines, limit)
  <2>1. tail[0].seen = 0 /\ tail[0].text = <<>>
    BY <1>3
  <2>2. Ending(file, 0) = <<>> /\ 0 \in 0 .. N
    <3>1. N + 1 \in Int /\ N \in Int /\ N < N + 1 /\ N - 0 + 1 = N + 1 /\ 0 \in 0 .. N
      BY <1>1
    <3>2. SubSeq(file, N + 1, N) = <<>>
      BY <3>1, SubSeqEmpty
    <3>3. QED BY <3>1, <3>2 DEF Ending
  <2>3. Newlines(<<>>) = 0
    <3>1. NewlinesAt(<<>>) = {}
      BY DEF NewlinesAt
    <3>2. QED BY <3>1, FS_EmptySet DEF Newlines
  <2>4. 0 * ChunkSize = 0 /\ Len(<<>>) = 0
    BY SizesAssumption
  <2> HIDE DEF N
  <2>5. QED BY <2>1, <2>2, <2>3, <2>4 DEF TailOk, N
<1>5. \A k \in 0 .. N : TailOk(tail[k], k, file, lines, limit)
  <2> DEFINE P == {k \in 0 .. N : TailOk(tail[k], k, file, lines, limit)}
  <2>1. 0 \in P
    BY <1>1, <1>4
  <2>2. ASSUME NEW k \in 1 .. N, k - 1 \in P
        PROVE  k \in P
    <3>1. k \in 0 .. N /\ k - 1 \in 0 .. N
      BY <1>1
    <3>2. tail[k - 1] \in TailStates(S) /\ TailOk(tail[k - 1], k - 1, file, lines, limit)
      BY <1>3, <2>2, <3>1
    <3>3. TailOk(NextTail(tail[k - 1], k, file, lines, limit), k, file, lines, limit)
      BY <3>2, NextTailOk
    <3>4. QED BY <1>3, <3>1, <3>3
  <2> HIDE DEF P, N
  <2>3. \A k \in 0 .. N : k \in P
    BY <1>1, <2>1, <2>2, InductionTo
  <2>4. QED BY <2>3 DEF P
<1> DEFINE text == tail[N].text
<1>6. TailOk(tail[N], N, file, lines, limit) /\ tail[N] \in TailStates(S)
  <2>1. N \in 0 .. N
    BY <1>1
  <2> HIDE DEF N
  <2>2. QED BY <1>3, <1>5, <2>1
<1>7. PICK n \in 0 .. Len(file) : text = Ending(file, n)
  BY <1>6 DEF TailOk
<1>8. Len(text) = n
  BY <1>7, EndingIs
<1>9. N * ChunkSize >= N /\ N * ChunkSize \in Nat
  BY <1>1, ChunksLength
<1>10. /\ Newlines(text) <= lines /\ (n = 0 \/ n < limit + ChunkSize)
       /\ (n = N \/ Newlines(text) = lines \/ n >= limit)
  <2>1. /\ Newlines(text) <= lines /\ (n = 0 \/ n < limit + ChunkSize)
        /\ n = N * ChunkSize \/ n = N \/ Newlines(text) = lines \/ n >= limit
    BY <1>6, <1>8 DEF TailOk
  <2>2. n = N * ChunkSize => n = N
    <3> DEFINE full == N * ChunkSize
    <3>1. full >= N /\ full \in Nat /\ n \in 0 .. N
      BY <1>9
    <3> HIDE DEF full, N
    <3>2. n = full => n = N
      BY <1>1, <3>1
    <3>3. QED BY <3>2 DEF full
  <2>3. QED BY <2>1, <2>2
<1>11. QED BY <1>2, <1>7, <1>10

\* TailFile, of lines or of bytes.
LEMMA TailFileArrives ==
    ASSUME NEW S, NEW file \in Seq(S), NEW lines \in Int, NEW bytes \in Int,
           ~TailPanics(lines, bytes)
    PROVE  TailArrives(TailFile(file, lines, bytes), file, lines, bytes)
<1> DEFINE limit == BytesLimit(bytes)
           text == TailFile(file, lines, bytes)
<1>1. limit \in Int /\ (lines > 0 \/ limit \in Nat)
  BY SizesAssumption DEF BytesLimit, TailPanics
<1>2. Len(file) \in Nat /\ Newlines(file) \in Nat
  BY LenProperties, NewlinesType
<1> HIDE DEF limit
<1>3. CASE lines > 0
  <2>a. lines \in Nat
    BY <1>3
  <2>1. text = TailLines(file, lines, limit)
    BY <1>3 DEF TailFile, limit
  <2>2. PICK n \in 0 .. Len(file) :
          /\ text = Ending(file, n)
          /\ Newlines(text) <= lines
          /\ n = 0 \/ n < limit + ChunkSize
          /\ n = Len(file) \/ Newlines(text) = lines \/ n >= limit
    BY <1>1, <1>3, <2>1, <2>a, TailLinesArrive
  <2> HIDE DEF text
  <2>3. IsSuffix(text, file)
    BY <2>2, EndingIsSuffix
  <2>4. Len(text) = n /\ n \in Nat
    BY <2>2, EndingIs
  <2>5. text \in Seq(S) /\ Newlines(text) \in Nat
    <3>1. text \in Seq(S)
      BY <2>2, EndingIs
    <3>2. QED BY <3>1, NewlinesType
  <2>6. n = Len(file) => text = file
    BY <2>2, WholeEnding
  <2>7. Newlines(text) <= Newlines(file)
    BY <2>2, EndingNewlines
  <2>8. ASSUME Len(file) <= limit, Newlines(file) < lines
        PROVE  text = file
    <3>1. n = Len(file)
      BY <1>1, <1>2, <2>2, <2>4, <2>5, <2>7, <2>8
    <3>2. QED BY <2>6, <3>1
  <2>9. ASSUME Newlines(file) > lines, Len(text) < limit
        PROVE  Newlines(text) = lines
    <3>1. n # Len(file)
      <4>1. SUFFICES ASSUME n = Len(file)
                     PROVE  FALSE
        OBVIOUS
      <4>2. text = file
        BY <2>6, <4>1
      <4>3. QED BY <1>2, <2>2, <2>9, <4>2
    <3>2. QED BY <1>1, <2>2, <2>4, <2>9, <3>1
  <2>b. text # <<>> => Len(text) < limit + ChunkSize
    <3>1. n = 0 => text = <<>>
      BY <2>4, <2>5, EmptySeq
    <3>2. QED BY <2>2, <2>4, <3>1
  <2>10. TailArrives(text, file, lines, bytes)
    BY <1>3, <2>2, <2>3, <2>8, <2>9, <2>b DEF TailArrives, limit
  <2>11. QED BY <2>10 DEF text
<1>4. CASE ~(lines > 0)
  <2>1. text = TailBytes(file, limit) /\ limit \in Nat
    BY <1>1, <1>4 DEF TailFile, limit
  <2> DEFINE n == IF Len(file) > limit THEN limit ELSE Len(file)
  <2>2. n \in 0 .. Len(file)
        /\ Len(file) - n + 1 = (IF Len(file) > limit THEN Len(file) - limit + 1 ELSE 1)
        /\ n < limit + ChunkSize
    BY <1>2, <2>1, SizesAssumption
  <2>3. text = Ending(file, n)
    BY <2>1, <2>2 DEF TailBytes, Ending
  <2>4. Len(file) <= limit => n = Len(file)
    BY <1>2, <2>1
  <2>5. Len(file) > limit => n = limit
    OBVIOUS
  <2> HIDE DEF n, text
  <2>6. IsSuffix(text, file) /\ Len(text) = n
    BY <2>2, <2>3, EndingIsSuffix, EndingIs
  <2>7. Len(file) <= limit => text = file
    BY <2>3, <2>4, WholeEnding
  <2>8. TailArrives(text, file, lines, bytes)
    BY <1>4, <2>2, <2>5, <2>6, <2>7 DEF TailArrives, limit
  <2>9. QED BY <2>8 DEF text
<1>5. QED BY <1>3, <1>4

\* A function that counts up stays in the type of its steps.
LEMMA CountingType ==
    ASSUME NEW n, NEW T, NEW base, NEW step, IsCount(n, T, base, step),
           NEW f, f = [k \in 0 .. n |-> f[k]], f[0] = base,
           \A k \in 1 .. n : f[k - 1] \in T => f[k] = step[<<k, f[k - 1]>>]
    PROVE  Counts(n, T, base, step, f)
<1> USE DEF IsCount
<1> DEFINE P == {k \in 0 .. n : f[k] \in T}
<1>1. n \in Nat /\ 0 \in P
  OBVIOUS
<1>2. ASSUME NEW k \in 1 .. n, k - 1 \in P
      PROVE  k \in P
  <2>1. k \in 0 .. n /\ f[k - 1] \in T /\ step[<<k, f[k - 1]>>] \in T
    BY <1>1, <1>2
  <2>2. QED BY <2>1
<1>3. \A k \in 0 .. n : k \in P
  <2> HIDE DEF P
  <2>1. QED BY <1>1, <1>2, InductionTo
<1>4. f \in [0 .. n -> T]
  BY <1>3
<1>5. \A k \in 1 .. n : k - 1 \in 0 .. n
  BY <1>1
<1>6. QED BY <1>3, <1>4, <1>5 DEF Counts

-------------------------------------------------------------------------------
(* doDeployPackage.                                                        *)

\* An archive, and the tree it is unpacked into.
Archive(entries, files, D) ==
    /\ files \in [D -> Kinds]
    /\ entries \in Seq([name : D, kind : EntryKinds, made : {"whole", "part", "not"},
                       target : {entries[i].target : i \in DOMAIN entries}])
    /\ \A i \in DOMAIN entries : entries[i].kind = "hardlink" => entries[i].target \in D

\* The parts of Archive, by position.
LEMMA ArchiveIs ==
    ASSUME NEW entries, NEW files, NEW D, Archive(entries, files, D)
    PROVE  /\ Len(entries) \in Nat /\ DOMAIN entries = 1 .. Len(entries)
           /\ \A i \in 1 .. Len(entries) :
                /\ entries[i].name \in D /\ entries[i].kind \in EntryKinds
                /\ entries[i].made \in {"whole", "part", "not"}
                /\ entries[i].kind = "hardlink" => entries[i].target \in D
           /\ files \in [D -> Kinds]
<1> DEFINE E == [name : D, kind : EntryKinds, made : {"whole", "part", "not"},
                 target : {entries[i].target : i \in DOMAIN entries}]
<1>1. entries \in Seq(E) /\ files \in [D -> Kinds]
      /\ \A i \in DOMAIN entries : entries[i].kind = "hardlink" => entries[i].target \in D
  BY DEF Archive
<1>2. Len(entries) \in Nat /\ DOMAIN entries = 1 .. Len(entries)
      /\ \A i \in 1 .. Len(entries) : entries[i] \in E
  <2> HIDE DEF E
  <2>1. QED BY <1>1, LenProperties, ElementOfSeq
<1>3. \A i \in 1 .. Len(entries) :
        /\ entries[i].name \in D /\ entries[i].kind \in EntryKinds
        /\ entries[i].made \in {"whole", "part", "not"}
  BY <1>2
<1>4. QED BY <1>1, <1>2, <1>3

LinkPositions(entries) == {i \in DOMAIN entries : IsLink(entries[i])}

States(D) == [ok : BOOLEAN, files : [D -> Kinds]]

\* Both passes keep the directory's type.
LEMMA StepTypes ==
    ASSUME NEW D, NEW entry, entry.name \in D, entry.kind \in EntryKinds,
           entry.kind = "hardlink" => entry.target \in D
    PROVE  /\ \A files \in [D -> Kinds] : ExtractEntry(files, entry) \in [D -> Kinds]
           /\ IsLink(entry) => \A state \in States(D) : MakeLink(state, entry) \in States(D)
<1>1. ASSUME NEW files \in [D -> Kinds]
      PROVE  ExtractEntry(files, entry) \in [D -> Kinds]
  BY DEF ExtractEntry, Extracted, Kinds
<1>2. ASSUME IsLink(entry), NEW state \in States(D)
      PROVE  MakeLink(state, entry) \in States(D)
  <2> DEFINE there == [state.files EXCEPT ![entry.name] = "absent"]
  <2>1. state.files \in [D -> Kinds]
    BY DEF States
  <2>2. there \in [D -> Kinds]
    BY <2>1 DEF Kinds
  <2> HIDE DEF there
  <2>3. CASE ~state.ok
    BY <1>2, <2>3 DEF MakeLink
  <2>4. CASE state.ok /\ entry.kind = "symlink"
    <3>1. MakeLink(state, entry) = [ok |-> TRUE, files |-> [there EXCEPT ![entry.name] = "symlink"]]
      BY <2>4 DEF MakeLink, there
    <3>2. [there EXCEPT ![entry.name] = "symlink"] \in [D -> Kinds]
      BY <2>2 DEF Kinds
    <3>3. QED BY <3>1, <3>2 DEF States
  <2>5. CASE state.ok /\ entry.kind # "symlink"
    <3>1. entry.target \in D
      BY <1>2, <2>5 DEF IsLink
    <3>2. there[entry.target] \in Kinds
      BY <2>2, <3>1
    <3>3. [there EXCEPT ![entry.name] = there[entry.target]] \in [D -> Kinds]
      BY <2>2, <3>2
    <3>4. \/ MakeLink(state, entry) = [ok |-> FALSE, files |-> there]
          \/ MakeLink(state, entry) =
               [ok |-> TRUE, files |-> [there EXCEPT ![entry.name] = there[entry.target]]]
      <4>1. MakeLink(state, entry) =
              IF there[entry.target] \in {"absent", "dir"}
              THEN [ok |-> FALSE, files |-> there]
              ELSE [ok |-> TRUE, files |-> [there EXCEPT ![entry.name] = there[entry.target]]]
        BY <2>5 DEF MakeLink, there
      <4>2. QED BY <4>1
    <3>5. [ok |-> FALSE, files |-> there] \in States(D)
      BY <2>2 DEF States
    <3>6. [ok |-> TRUE, files |-> [there EXCEPT ![entry.name] = there[entry.target]]] \in States(D)
      BY <3>3 DEF States
    <3>7. QED BY <3>4, <3>5, <3>6
  <2>6. QED BY <2>3, <2>4, <2>5
<1>3. QED BY <1>1, <1>2

\* The two passes over the archive.
Passes(entries, files, D, extracted, links, linked) ==
    /\ extracted \in [0 .. Len(entries) -> [D -> Kinds]]
    /\ extracted[0] = files
    /\ \A n \in 1 .. Len(entries) : extracted[n] = ExtractEntry(extracted[n - 1], entries[n])
    /\ linked \in [0 .. Len(links) -> States(D)]
    /\ linked[0] = [ok |-> TRUE, files |-> extracted[Len(entries)]]
    /\ \A n \in 1 .. Len(links) : linked[n] = MakeLink(linked[n - 1], links[n])

\* The links of an archive, in its order.
LEMMA LinksAre ==
    ASSUME NEW entries, NEW files, NEW D, Archive(entries, files, D)
    PROVE  LET links == Pick(entries, LinkPositions(entries))
               at == InOrder(LinkPositions(entries)) IN
           /\ Len(links) \in Nat /\ DOMAIN links = 1 .. Len(links)
           /\ Enumerates(at, Len(links), LinkPositions(entries))
           /\ \A k \in 1 .. Len(links) : links[k] = entries[at[k]]
<1> DEFINE P == LinkPositions(entries)
           at == InOrder(P)
           links == Pick(entries, P)
           n == Cardinality(P)
<1>1. Len(entries) \in Nat /\ P \subseteq 1 .. Len(entries)
  BY ArchiveIs DEF LinkPositions
<1>2. n \in Nat /\ Enumerates(at, n, P)
  <2> HIDE DEF P
  <2>1. QED BY <1>1, InOrderEnumerates
<1>3. at \in [1 .. n -> P]
  BY <1>2 DEF Enumerates
<1>4. links = [k \in 1 .. n |-> entries[at[k]]]
  BY <1>3 DEF Pick
<1> HIDE DEF links, at, n
<1>5. links \in Seq({entries[i] : i \in P}) /\ DOMAIN links = 1 .. n
  BY <1>2, <1>3, <1>4
<1>6. Len(links) = n
  BY <1>2, <1>5, LenProperties
<1>7. QED BY <1>2, <1>4, <1>5, <1>6 DEF links, at

\* What the two passes compute, entry by entry.
LEMMA DeployPackageIs ==
    ASSUME NEW entries, NEW files, NEW D, Archive(entries, files, D)
    PROVE  \E extracted, linked :
             LET links == Pick(entries, LinkPositions(entries)) IN
             /\ Passes(entries, files, D, extracted, links, linked)
             /\ DeployPackage(entries, files) = linked[Len(links)]
<1> DEFINE N == Len(entries)
           T == [D -> Kinds]
           links == Pick(entries, LinkPositions(entries))
           at == InOrder(LinkPositions(entries))
           M == Len(links)
           step == [a \in (1 .. N) \X T |-> ExtractEntry(a[2], entries[a[1]])]
           F(f) == [n \in 0 .. N |-> IF n = 0 THEN files ELSE ExtractEntry(f[n - 1], entries[n])]
           extracted == CHOOSE f : f = F(f)
           base == [ok |-> TRUE, files |-> extracted[N]]
           step2 == [a \in (1 .. M) \X States(D) |-> MakeLink(a[2], links[a[1]])]
           F2(f) == [n \in 0 .. M |-> IF n = 0 THEN base ELSE MakeLink(f[n - 1], links[n])]
           linked == CHOOSE f : f = F2(f)
<1>1. /\ N \in Nat
      /\ \A i \in 1 .. N :
           /\ entries[i].name \in D /\ entries[i].kind \in EntryKinds
           /\ entries[i].kind = "hardlink" => entries[i].target \in D
      /\ files \in T
  BY ArchiveIs
<1>2. /\ M \in Nat
      /\ \A k \in 1 .. M : links[k] = entries[at[k]] /\ at[k] \in 1 .. N /\ IsLink(entries[at[k]])
  <2>1. /\ M \in Nat /\ Enumerates(at, M, LinkPositions(entries))
        /\ \A k \in 1 .. M : links[k] = entries[at[k]]
    BY LinksAre
  <2>2. \A k \in 1 .. M : at[k] \in LinkPositions(entries)
    BY <2>1 DEF Enumerates
  <2>3. DOMAIN entries = 1 .. N
    BY ArchiveIs
  <2>4. QED BY <2>1, <2>2, <2>3 DEF LinkPositions
<1>3. DeployPackage(entries, files) = linked[M]
  BY DEF DeployPackage, LinkPositions
<1>4. Counts(N, T, files, step, extracted)
  <2>1. \A i \in 1 .. N, g \in T : ExtractEntry(g, entries[i]) \in T
    BY <1>1, StepTypes
  <2>2. IsCount(N, T, files, step)
    <3>1. step \in [(1 .. N) \X T -> T]
      <4> HIDE DEF N, T
      <4>1. QED BY <2>1
    <3>2. QED BY <1>1, <3>1 DEF IsCount
  <2>3. \A i \in 1 .. N, g \in T : step[<<i, g>>] = ExtractEntry(g, entries[i])
    OBVIOUS
  <2>4. PICK f : Counts(N, T, files, step, f)
    <3> HIDE DEF N, T, step
    <3>1. QED BY <2>2, CountingRecursion
  <2>5. f = F(f)
    <3>1. \A k \in 0 .. N : k = 0 \/ k \in 1 .. N
      BY <1>1
    <3>2. \A k \in 1 .. N : k - 1 \in 0 .. N
      BY <1>1
    <3> HIDE DEF N, T, step
    <3>3. QED BY <2>3, <2>4, <3>1, <3>2 DEF Counts
  <2>6. extracted = F(extracted)
    BY <2>5
  <2> HIDE DEF extracted
  <2>7. /\ extracted = [k \in 0 .. N |-> extracted[k]] /\ extracted[0] = files
        /\ \A k \in 1 .. N : extracted[k] = ExtractEntry(extracted[k - 1], entries[k])
    <3>1. 0 \in 0 .. N /\ \A k \in 1 .. N : k \in 0 .. N /\ k # 0
      BY <1>1
    <3> HIDE DEF N
    <3>2. QED BY <2>6, <3>1
  <2> HIDE DEF N, T, step
  <2>8. \A k \in 1 .. N : extracted[k - 1] \in T => extracted[k] = step[<<k, extracted[k - 1]>>]
    BY <2>3, <2>7
  <2>9. QED BY <2>2, <2>7, <2>8, CountingType
<1>5. /\ extracted \in [0 .. N -> T] /\ extracted[0] = files
      /\ \A n \in 1 .. N : extracted[n] = ExtractEntry(extracted[n - 1], entries[n])
  <2>1. \A k \in 1 .. N : k - 1 \in 0 .. N
    BY <1>1
  <2>2. \A i \in 1 .. N, g \in T : step[<<i, g>>] = ExtractEntry(g, entries[i])
    OBVIOUS
  <2> HIDE DEF N, T, step, extracted
  <2>3. QED BY <1>4, <2>1, <2>2 DEF Counts
<1> HIDE DEF extracted
<1>6. base \in States(D)
  <2>1. N \in 0 .. N
    BY <1>1
  <2> HIDE DEF N
  <2>2. QED BY <1>5, <2>1 DEF States
<1> HIDE DEF base
<1>7. Counts(M, States(D), base, step2, linked)
  <2>1. \A i \in 1 .. M, g \in States(D) : MakeLink(g, links[i]) \in States(D)
    <3> HIDE DEF N, T, links, at, M
    <3>1. SUFFICES ASSUME NEW i \in 1 .. M
                   PROVE  \A g \in States(D) : MakeLink(g, links[i]) \in States(D)
      OBVIOUS
    <3>2. /\ links[i].name \in D /\ links[i].kind \in EntryKinds
          /\ links[i].kind = "hardlink" => links[i].target \in D
          /\ IsLink(links[i])
      BY <1>1, <1>2
    <3>3. QED BY <3>2, StepTypes
  <2>2. IsCount(M, States(D), base, step2)
    <3>1. step2 \in [(1 .. M) \X States(D) -> States(D)]
      <4> HIDE DEF M, links
      <4>1. QED BY <2>1
    <3>2. QED BY <1>2, <1>6, <3>1 DEF IsCount
  <2>3. \A i \in 1 .. M, g \in States(D) : step2[<<i, g>>] = MakeLink(g, links[i])
    OBVIOUS
  <2>4. PICK f : Counts(M, States(D), base, step2, f)
    <3> HIDE DEF M, step2
    <3>1. QED BY <2>2, CountingRecursion
  <2>5. f = F2(f)
    <3>1. \A k \in 0 .. M : k = 0 \/ k \in 1 .. M
      BY <1>2
    <3>2. \A k \in 1 .. M : k - 1 \in 0 .. M
      BY <1>2
    <3> HIDE DEF M, links, step2
    <3>3. QED BY <2>3, <2>4, <3>1, <3>2 DEF Counts
  <2>6. linked = F2(linked)
    BY <2>5
  <2> HIDE DEF linked
  <2>7. /\ linked = [k \in 0 .. M |-> linked[k]] /\ linked[0] = base
        /\ \A k \in 1 .. M : linked[k] = MakeLink(linked[k - 1], links[k])
    <3>1. 0 \in 0 .. M /\ \A k \in 1 .. M : k \in 0 .. M /\ k # 0
      BY <1>2
    <3> HIDE DEF M, links
    <3>2. QED BY <2>6, <3>1
  <2> HIDE DEF M, links, step2
  <2>8. \A k \in 1 .. M : linked[k - 1] \in States(D) => linked[k] = step2[<<k, linked[k - 1]>>]
    BY <2>3, <2>7
  <2>9. QED BY <2>2, <2>7, <2>8, CountingType
<1>8. /\ linked \in [0 .. M -> States(D)] /\ linked[0] = base
      /\ \A n \in 1 .. M : linked[n] = MakeLink(linked[n - 1], links[n])
  <2>1. \A k \in 1 .. M : k - 1 \in 0 .. M
    BY <1>2
  <2>2. \A i \in 1 .. M, g \in States(D) : step2[<<i, g>>] = MakeLink(g, links[i])
    OBVIOUS
  <2> HIDE DEF M, links, step2, linked
  <2>3. QED BY <1>7, <2>1, <2>2 DEF Counts
<1> HIDE DEF linked, links
<1>9. Passes(entries, files, D, extracted, links, linked)
  BY <1>5, <1>8 DEF Passes, base
<1>10. QED BY <1>3, <1>9 DEF links

-------------------------------------------------------------------------------
(* What is deployed.                                                       *)

KindsOf(name, entries) == {entries[i].kind : i \in {j \in DOMAIN entries : entries[j].name = name}}

\* What a directory or a file can take the place of.
Like(kind) == IF kind = "dir" THEN {"absent", "dir"} ELSE {"absent", "file", "part", "earlier"}

\* Names are distinct, what is there is alike and hard links lead to files.
Deployable(entries, files) ==
    /\ \A i, j \in DOMAIN entries : entries[i].name = entries[j].name => i = j
    /\ \A i \in DOMAIN entries :
        IF IsLink(entries[i])
        THEN entries[i].kind = "hardlink" => KindsOf(entries[i].target, entries) = {"file"}
        ELSE files[entries[i].name] \in Like(entries[i].kind)

\* The second half of FilesArriveWhole.
DeployArrives(deployed, entries, files) ==
    Deployable(entries, files) =>
        /\ \A i \in DOMAIN entries :
             ~IsLink(entries[i]) /\ entries[i].made = "whole"
               => deployed.files[entries[i].name] = entries[i].kind
        /\ (\A i \in DOMAIN entries : IsLink(entries[i]) \/ entries[i].made = "whole")
             => deployed.ok
        /\ deployed.ok =>
             \A i \in DOMAIN entries : IsLink(entries[i]) =>
                 deployed.files[entries[i].name] =
                     IF entries[i].kind = "symlink" THEN "symlink"
                     ELSE deployed.files[entries[i].target]

\* After the first pass: what could be made whole is there.
LEMMA ExtractedIs ==
    ASSUME NEW entries, NEW files, NEW D, Archive(entries, files, D), Deployable(entries, files),
           NEW extracted, NEW links, NEW linked,
           Passes(entries, files, D, extracted, links, linked)
    PROVE  \A i \in DOMAIN entries :
             ~IsLink(entries[i]) /\ entries[i].made = "whole"
               => extracted[Len(entries)][entries[i].name] = entries[i].kind
<1> DEFINE N == Len(entries)
           Has(n, i) == IF i <= n THEN Extracted(entries[i], files[entries[i].name])
                        ELSE files[entries[i].name]
           P == {n \in 0 .. N : \A i \in 1 .. N :
                   ~IsLink(entries[i]) => extracted[n][entries[i].name] = Has(n, i)}
<1>1. /\ N \in Nat /\ DOMAIN entries = 1 .. N
      /\ \A i \in 1 .. N : entries[i].name \in D /\ entries[i].kind \in EntryKinds
      /\ files \in [D -> Kinds]
  BY ArchiveIs
<1>2. /\ extracted \in [0 .. N -> [D -> Kinds]] /\ extracted[0] = files
      /\ \A n \in 1 .. N : extracted[n] = ExtractEntry(extracted[n - 1], entries[n])
  BY DEF Passes
<1>3. /\ \A i, j \in 1 .. N : entries[i].name = entries[j].name => i = j
      /\ \A i \in 1 .. N :
           ~IsLink(entries[i]) => files[entries[i].name] \in Like(entries[i].kind)
  BY <1>1 DEF Deployable
<1> HIDE DEF N
<1>4. 0 \in P
  BY <1>1, <1>2, <1>3
<1>5. ASSUME NEW n \in 1 .. N, n - 1 \in P
      PROVE  n \in P
  <2>1. n \in 0 .. N /\ extracted[n - 1] \in [D -> Kinds]
    <3>1. n \in 0 .. N /\ n - 1 \in 0 .. N
      BY <1>1
    <3>2. QED BY <1>2, <3>1
  <2>2. ASSUME NEW i \in 1 .. N, ~IsLink(entries[i])
        PROVE  extracted[n][entries[i].name] = Has(n, i)
    <3>1. extracted[n - 1][entries[i].name] = Has(n - 1, i)
      BY <1>5, <2>2
    <3>2. i # n => (i <= n <=> i <= n - 1)
      BY <1>1
    <3>3. ~(n <= n - 1) /\ n <= n
      BY <1>1
    <3>4. CASE IsLink(entries[n])
      <4>1. extracted[n] = extracted[n - 1]
        <5>1. entries[n].kind \notin {"dir", "file"}
          BY <3>4 DEF IsLink
        <5>2. QED BY <1>2, <5>1 DEF ExtractEntry
      <4>2. i # n
        BY <2>2, <3>4
      <4>3. QED BY <3>1, <3>2, <4>1, <4>2
    <3>5. CASE ~IsLink(entries[n])
      <4>1. entries[n].kind \in {"dir", "file"}
        BY <1>1, <3>5 DEF IsLink, EntryKinds
      <4>2. extracted[n] = [extracted[n - 1] EXCEPT ![entries[n].name] =
                                Extracted(entries[n], extracted[n - 1][entries[n].name])]
        BY <1>2, <4>1 DEF ExtractEntry
      <4>3. CASE i = n
        <5>1. extracted[n][entries[n].name]
                = Extracted(entries[n], extracted[n - 1][entries[n].name])
          BY <1>1, <2>1, <4>2
        <5>2. QED BY <3>1, <3>3, <4>3, <5>1
      <4>4. CASE i # n
        <5>1. entries[i].name # entries[n].name
          BY <1>3, <4>4
        <5>2. QED BY <1>1, <2>1, <3>1, <3>2, <4>2, <4>4, <5>1
      <4>5. QED BY <4>3, <4>4
    <3>6. QED BY <3>4, <3>5
  <2>3. QED BY <2>1, <2>2
<1>6. \A n \in 0 .. N : n \in P
  <2> HIDE DEF P
  <2>1. QED BY <1>1, <1>4, <1>5, InductionTo
<1>7. N \in 0 .. N /\ \A i \in 1 .. N : i <= N
  BY <1>1
<1>8. ASSUME NEW i \in 1 .. N, ~IsLink(entries[i]), entries[i].made = "whole"
      PROVE  extracted[N][entries[i].name] = entries[i].kind
  <2>1. extracted[N][entries[i].name] = Extracted(entries[i], files[entries[i].name])
    BY <1>6, <1>7, <1>8
  <2>2. entries[i].kind \in {"dir", "file"}
    BY <1>1, <1>8 DEF IsLink, EntryKinds
  <2>3. Extracted(entries[i], files[entries[i].name]) = entries[i].kind
    BY <1>3, <1>8, <2>2 DEF Extracted, Like
  <2>4. QED BY <2>1, <2>3
<1>9. QED BY <1>1, <1>8 DEF N

\* Both passes together, by induction over the links.
LEMMA DeployPackageArrives ==
    ASSUME NEW entries, NEW files, NEW D, Archive(entries, files, D)
    PROVE  DeployArrives(DeployPackage(entries, files), entries, files)
<1> SUFFICES ASSUME Deployable(entries, files)
             PROVE  DeployArrives(DeployPackage(entries, files), entries, files)
  BY DEF DeployArrives
<1> DEFINE N == Len(entries)
           links == Pick(entries, LinkPositions(entries))
           at == InOrder(LinkPositions(entries))
           M == Len(links)
           Whole == \A i \in 1 .. N : IsLink(entries[i]) \/ entries[i].made = "whole"
<1>1. PICK extracted, linked : /\ Passes(entries, files, D, extracted, links, linked)
                               /\ DeployPackage(entries, files) = linked[M]
  BY DeployPackageIs
<1>2. /\ N \in Nat /\ DOMAIN entries = 1 .. N
      /\ \A i \in 1 .. N : /\ entries[i].name \in D /\ entries[i].kind \in EntryKinds
                           /\ entries[i].kind = "hardlink" => entries[i].target \in D
  BY ArchiveIs
<1>3. /\ M \in Nat /\ at \in [1 .. M -> LinkPositions(entries)]
      /\ \A j, k \in 1 .. M : j < k => at[j] < at[k]
      /\ \A p \in LinkPositions(entries) : \E k \in 1 .. M : at[k] = p
      /\ \A k \in 1 .. M : links[k] = entries[at[k]]
  BY LinksAre DEF Enumerates
<1> DEFINE X == extracted[N]
<1>4. \A i \in 1 .. N :
        ~IsLink(entries[i]) /\ entries[i].made = "whole" => X[entries[i].name] = entries[i].kind
  BY <1>1, <1>2, ExtractedIs
<1>5. /\ X \in [D -> Kinds]
      /\ linked \in [0 .. M -> States(D)]
      /\ linked[0] = [ok |-> TRUE, files |-> X]
      /\ \A n \in 1 .. M : linked[n] = MakeLink(linked[n - 1], links[n])
  <2>1. N \in 0 .. N
    BY <1>2
  <2> HIDE DEF links, M
  <2>2. QED BY <1>1, <2>1 DEF Passes, M
<1>6. /\ \A i, j \in 1 .. N : entries[i].name = entries[j].name => i = j
      /\ \A i \in 1 .. N : entries[i].kind = "hardlink" =>
            KindsOf(entries[i].target, entries) = {"file"}
  BY <1>2 DEF Deployable, IsLink
<1> HIDE DEF N, links, at, M, X, Whole
\* A hard link leads to a file that the first pass has dealt with.
<1>7. ASSUME NEW i \in 1 .. N, entries[i].kind = "hardlink"
      PROVE  \E j \in 1 .. N : /\ entries[j].name = entries[i].target
                               /\ entries[j].kind = "file" /\ ~IsLink(entries[j])
  <2>1. PICK j \in 1 .. N : entries[j].name = entries[i].target /\ entries[j].kind = "file"
    <3>1. KindsOf(entries[i].target, entries) = {"file"}
      BY <1>6, <1>7
    <3>2. QED BY <1>2, <3>1 DEF KindsOf
  <2>2. ~IsLink(entries[j])
    BY <2>1 DEF IsLink
  <2>3. QED BY <2>1, <2>2
\* What is no link stays as it is, the first n links are there if nothing failed, and
\* nothing fails if all was whole.
<1> DEFINE Made(i) == IF entries[i].kind = "symlink" THEN "symlink" ELSE X[entries[i].target]
           Done(n, i) == \E k \in 1 .. n : at[k] = i
           P == {n \in 0 .. M :
                   /\ \A i \in 1 .. N : ~IsLink(entries[i]) =>
                        linked[n].files[entries[i].name] = X[entries[i].name]
                   /\ linked[n].ok => \A i \in 1 .. N : Done(n, i) =>
                        linked[n].files[entries[i].name] = Made(i)
                   /\ Whole => linked[n].ok}
<1>8. 0 \in P
  <2>1. linked[0].ok /\ linked[0].files = X
    BY <1>5
  <2>2. \A i \in 1 .. N : ~Done(0, i)
    OBVIOUS
  <2>3. 0 \in 0 .. M
    BY <1>3
  <2> HIDE DEF Done
  <2>4. QED BY <2>1, <2>2, <2>3
<1>9. ASSUME NEW n \in 1 .. M, n - 1 \in P
      PROVE  n \in P
  <2> DEFINE link == links[n]
             files0 == linked[n - 1].files
             there == [files0 EXCEPT ![link.name] = "absent"]
  <2>1. n \in 0 .. M /\ linked[n - 1] \in States(D) /\ files0 \in [D -> Kinds]
    <3>1. n \in 0 .. M /\ n - 1 \in 0 .. M
      BY <1>3
    <3>2. linked[n - 1] \in States(D)
      BY <1>5, <3>1
    <3>3. QED BY <3>1, <3>2 DEF States
  <2>2. /\ at[n] \in 1 .. N /\ link = entries[at[n]] /\ IsLink(link) /\ link.name \in D
        /\ (link.kind = "hardlink" => link.target \in D)
    <3>1. at[n] \in LinkPositions(entries)
      BY <1>3
    <3>2. at[n] \in 1 .. N /\ IsLink(entries[at[n]]) /\ link = entries[at[n]]
      BY <1>2, <1>3, <3>1 DEF LinkPositions
    <3>3. QED BY <1>2, <3>2
  <2>3. linked[n] = MakeLink(linked[n - 1], link)
    BY <1>5
  <2>4. \A i \in 1 .. N : Done(n, i) => Done(n - 1, i) \/ i = at[n]
    <3>1. \A k \in 1 .. n : k = n \/ k \in 1 .. n - 1
      BY <1>3
    <3>2. QED BY <3>1
  <2>5. \A i \in 1 .. N : Done(n - 1, i) => i # at[n]
    <3>1. SUFFICES ASSUME Done(n - 1, at[n])
                   PROVE  FALSE
      OBVIOUS
    <3>2. PICK k \in 1 .. n - 1 : at[k] = at[n]
      BY <2>2, <3>1
    <3>3. k \in 1 .. M /\ k < n /\ at[k] < at[n]
      <4>1. k \in 1 .. M /\ k < n
        BY <1>3
      <4>2. QED BY <1>3, <4>1
    <3>4. at[n] \in Nat
      BY <1>2, <2>2
    <3>5. QED BY <3>2, <3>3, <3>4
  <2>6. /\ \A i \in 1 .. N : ~IsLink(entries[i]) => files0[entries[i].name] = X[entries[i].name]
        /\ linked[n - 1].ok => \A i \in 1 .. N : Done(n - 1, i) =>
              files0[entries[i].name] = Made(i)
        /\ Whole => linked[n - 1].ok
    BY <1>9
  <2> HIDE DEF Done, link, P, files0
  <2>7. there \in [D -> Kinds]
    BY <2>1, <2>2 DEF Kinds
  <2>8. \A i \in 1 .. N : i # at[n] =>
           /\ entries[i].name \in D /\ entries[i].name # link.name
           /\ there[entries[i].name] = files0[entries[i].name]
    BY <1>2, <1>6, <2>1, <2>2
  <2>9. \A i \in 1 .. N : ~IsLink(entries[i]) => i # at[n]
    BY <2>2
  <2> HIDE DEF there, Made
  \* When an earlier link failed, nothing happens any more.
  <2>10. CASE ~linked[n - 1].ok
    <3>1. linked[n] = linked[n - 1]
      BY <2>3, <2>10 DEF MakeLink
    <3>2. QED BY <2>1, <2>6, <2>10, <3>1 DEF P, files0
  \* The link is made, with the target that it has.
  <2>11. ASSUME linked[n].ok, linked[n].files = [there EXCEPT ![link.name] = Made(at[n])]
         PROVE  n \in P
    <3> DEFINE now == [there EXCEPT ![link.name] = Made(at[n])]
    <3>1. \A i \in 1 .. N : i # at[n] => now[entries[i].name] = files0[entries[i].name]
      BY <2>7, <2>8
    <3>2. now[entries[at[n]].name] = Made(at[n])
      BY <2>2, <2>7
    <3>3. linked[n].files = now
      BY <2>11
    <3> HIDE DEF now
    <3>4. \A i \in 1 .. N : ~IsLink(entries[i]) =>
            linked[n].files[entries[i].name] = X[entries[i].name]
      BY <2>6, <2>9, <3>1, <3>3
    <3>5. ASSUME linked[n - 1].ok, NEW i \in 1 .. N, Done(n, i)
          PROVE  linked[n].files[entries[i].name] = Made(i)
      <4>1. CASE i = at[n]
        BY <3>2, <3>3, <4>1
      <4>2. CASE i # at[n]
        <5>1. Done(n - 1, i)
          BY <2>4, <3>5, <4>2
        <5>2. files0[entries[i].name] = Made(i)
          BY <2>6, <3>5, <5>1
        <5>3. QED BY <3>1, <3>3, <4>2, <5>2
      <4>3. QED BY <4>1, <4>2
    <3>6. CASE linked[n - 1].ok
      BY <2>1, <2>11, <3>4, <3>5, <3>6 DEF P
    <3>7. CASE ~linked[n - 1].ok
      BY <2>10, <3>7
    <3>8. QED BY <3>6, <3>7
  <2>12. CASE linked[n - 1].ok /\ link.kind = "symlink"
    <3>1. linked[n] = [ok |-> TRUE, files |-> [there EXCEPT ![link.name] = "symlink"]]
      BY <2>3, <2>12 DEF MakeLink, there, files0
    <3>2. Made(at[n]) = "symlink"
      BY <2>2, <2>12 DEF Made
    <3>3. QED BY <2>11, <3>1, <3>2
  <2>13. CASE linked[n - 1].ok /\ link.kind = "hardlink"
    <3>1. PICK j \in 1 .. N : /\ entries[j].name = link.target
                              /\ entries[j].kind = "file" /\ ~IsLink(entries[j])
      BY <1>7, <2>2, <2>13
    <3>2. there[link.target] = X[link.target]
      BY <2>6, <2>8, <2>9, <3>1
    <3>3. Made(at[n]) = X[link.target]
      BY <2>2, <2>13 DEF Made
    <3>4. linked[n] =
            IF there[link.target] \in {"absent", "dir"}
            THEN [ok |-> FALSE, files |-> there]
            ELSE [ok |-> TRUE, files |-> [there EXCEPT ![link.name] = there[link.target]]]
      BY <2>3, <2>13 DEF MakeLink, there, files0
    <3>5. CASE there[link.target] \in {"absent", "dir"}
      <4>1. linked[n] = [ok |-> FALSE, files |-> there]
        BY <3>4, <3>5
      <4>2. \A i \in 1 .. N : ~IsLink(entries[i]) =>
              linked[n].files[entries[i].name] = X[entries[i].name]
        BY <2>6, <2>8, <2>9, <4>1
      <4>3. ~Whole
        <5>1. SUFFICES ASSUME Whole PROVE FALSE
          OBVIOUS
        <5>2. X[link.target] = "file"
          BY <1>4, <3>1, <5>1 DEF Whole
        <5>3. QED BY <3>2, <3>5, <5>2
      <4>4. ~linked[n].ok
        BY <4>1
      <4>5. QED BY <2>1, <4>2, <4>3, <4>4 DEF P
    <3>6. CASE there[link.target] \notin {"absent", "dir"}
      <4>1. linked[n] = [ok |-> TRUE, files |-> [there EXCEPT ![link.name] = Made(at[n])]]
        BY <3>2, <3>3, <3>4, <3>6
      <4>2. QED BY <2>11, <4>1
    <3>7. QED BY <3>5, <3>6
  <2>14. QED BY <2>2, <2>10, <2>12, <2>13 DEF IsLink
<1>10. \A n \in 0 .. M : n \in P
  <2> HIDE DEF P
  <2>1. QED BY <1>3, <1>8, <1>9, InductionTo
<1>11. \A i \in 1 .. N : IsLink(entries[i]) => Done(M, i)
  BY <1>2, <1>3 DEF LinkPositions
<1>12. M \in 0 .. M
  BY <1>3
<1> HIDE DEF Done
<1>13. M \in P
  BY <1>10, <1>12
<1>14. /\ \A i \in 1 .. N : ~IsLink(entries[i]) =>
            linked[M].files[entries[i].name] = X[entries[i].name]
       /\ linked[M].ok => \A i \in 1 .. N : IsLink(entries[i]) =>
            linked[M].files[entries[i].name] = Made(i)
       /\ Whole => linked[M].ok
  BY <1>11, <1>13
<1>15. ASSUME linked[M].ok, NEW i \in 1 .. N, IsLink(entries[i])
       PROVE  linked[M].files[entries[i].name] =
                IF entries[i].kind = "symlink" THEN "symlink"
                ELSE linked[M].files[entries[i].target]
  <2>1. CASE entries[i].kind = "symlink"
    BY <1>14, <1>15, <2>1
  <2>2. CASE entries[i].kind = "hardlink"
    <3>1. linked[M].files[entries[i].target] = X[entries[i].target]
      BY <1>7, <1>14, <2>2
    <3>2. QED BY <1>14, <1>15, <2>2, <3>1
  <2>3. QED BY <1>15, <2>1, <2>2 DEF IsLink
<1> HIDE DEF P, Made
<1>16. \A i \in 1 .. N : ~IsLink(entries[i]) /\ entries[i].made = "whole"
         => linked[M].files[entries[i].name] = entries[i].kind
  BY <1>4, <1>14
<1>17. (\A i \in 1 .. N : IsLink(entries[i]) \/ entries[i].made = "whole") => linked[M].ok
  BY <1>14 DEF Whole
<1>18. QED BY <1>1, <1>2, <1>15, <1>16, <1>17 DEF DeployArrives

-------------------------------------------------------------------------------
(* Capabilities, ports and volumes.                                        *)

\* The least and the greatest of some positions.
LEMMA FirstAndLast ==
    ASSUME NEW n \in Nat, NEW I, I \subseteq 1 .. n, I # {}
    PROVE  /\ Min(I) \in I /\ \A y \in I : Min(I) <= y
           /\ Max(I) \in I /\ \A y \in I : y <= Max(I)
<1>1. I \subseteq Nat
  OBVIOUS
<1>2. \E x \in I : \A y \in I : x <= y
  BY <1>1, LeastNumber
<1>3. Min(I) \in I /\ \A y \in I : Min(I) <= y
  BY <1>2 DEF Min
<1>4. \E x \in I : \A y \in I : x >= y
  <2> DEFINE J == {n - x : x \in I}
  <2>1. J \subseteq Nat /\ J # {}
    <3>1. \A x \in I : n - x \in Nat
      OBVIOUS
    <3>2. QED BY <3>1
  <2>2. PICK z \in J : \A y \in J : z <= y
    <3> HIDE DEF J
    <3>1. QED BY <2>1, LeastNumber
  <2>3. PICK x \in I : z = n - x
    BY <2>2
  <2>4. \A y \in I : n - x <= n - y
    BY <2>2, <2>3
  <2>5. \A y \in I : x >= y
    BY <1>1, <2>4
  <2>6. QED BY <2>5
<1>5. Max(I) \in I /\ \A y \in I : Max(I) >= y
  BY <1>4 DEF Max
<1>6. \A y \in I : y <= Max(I)
  <2> DEFINE m == Max(I)
  <2>1. m \in Nat /\ \A y \in I : y \in Nat /\ m >= y
    BY <1>1, <1>5
  <2> HIDE DEF m
  <2>2. \A y \in I : y <= m
    BY <2>1
  <2>3. QED BY <2>2 DEF m
<1>7. QED BY <1>3, <1>5, <1>6

\* A capability that was dropped needs to be asked for again.
CapabilitiesFollow(basics, adds, drops, granted) ==
    \A caps \in granted, cap \in AllCapabilities :
        /\ cap \in caps => cap \in basics \/ {cap, "ALL"} \cap adds # {}
        /\ cap \in caps /\ {cap, "ALL"} \cap drops # {} => {cap, "ALL"} \cap adds # {}
        /\ cap \in adds \ drops => cap \in caps

\* TweakCapabilities and the mapping after it.
LEMMA TweakCapabilitiesFollows ==
    ASSUME NEW basics, NEW adds, NEW drops
    PROVE  CapabilitiesFollow(basics, adds, drops,
                              {MapCapabilities(c) : c \in TweakCapabilities(basics, adds, drops)})
<1>1. SUFFICES ASSUME NEW c \in TweakCapabilities(basics, adds, drops), NEW cap \in AllCapabilities
               PROVE  /\ cap \in c => cap \in basics \/ {cap, "ALL"} \cap adds # {}
                      /\ cap \in c /\ {cap, "ALL"} \cap drops # {} => {cap, "ALL"} \cap adds # {}
                      /\ cap \in adds \ drops => cap \in c
  BY DEF CapabilitiesFollow, MapCapabilities
<1>2. \/ adds = {} /\ drops = {} /\ c = basics
      \/ "ALL" \in adds /\ c = AllCapabilities \ drops
      \/ "ALL" \notin adds /\ "ALL" \in drops /\ c = adds
      \/ "ALL" \notin adds /\ "ALL" \notin drops /\ c = (basics \ drops) \cup adds
  BY DEF TweakCapabilities
<1>3. QED BY <1>2

\* FirstOf finds a field if one is there.
LEMMA FirstOfIs ==
    ASSUME NEW S, NEW order \in Seq(S), NEW field \in ToSet(order)
    PROVE  FirstOf(order, {field}) = {field}
<1> DEFINE I == {i \in 1 .. Len(order) : order[i] \in {field}}
<1>1. Len(order) \in Nat /\ DOMAIN order = 1 .. Len(order)
  BY LenProperties
<1>2. I # {} /\ I \subseteq 1 .. Len(order)
  BY <1>1 DEF ToSet
<1>3. Min(I) \in I
  <2> HIDE DEF I
  <2>1. QED BY <1>1, <1>2, FirstAndLast
<1>4. Min(I) # 0 /\ order[Min(I)] = field
  <2>1. Min(I) \in 1 .. Len(order) /\ order[Min(I)] = field
    BY <1>3
  <2> HIDE DEF I
  <2>2. QED BY <1>1, <2>1
<1>5. SelectInSeq(order, LAMBDA f : f \in {field}) = Min(I)
  BY <1>2 DEF SelectInSeq
<1> HIDE DEF I
<1>6. QED BY <1>4, <1>5 DEF FirstOf

\* The ports of a unit as they are meant.
PortsArrive(ports, mapped) ==
    LET valid == 1 .. PortSpan - 1 IN
    (\A i \in DOMAIN ports : ports[i].container \in valid /\ ports[i].host \in valid \cup {0})
      => mapped = {[i \in DOMAIN ports |->
             [container |-> ports[i].container,
              host |-> IF ports[i].host = 0 THEN ports[i].container ELSE ports[i].host]]}

\* A port below 2^16 is not changed by being cut to 16 bits.
LEMMA PortsKeepTheirNumbers ==
    ASSUME NEW ports, PortSpan \in Nat \ {0}
    PROVE  PortsArrive(ports, UnitPortsToPodmanPortMapping(ports))
<1> DEFINE valid == 1 .. PortSpan - 1
<1>1. SUFFICES ASSUME \A i \in DOMAIN ports : ports[i].container \in valid
                                             /\ ports[i].host \in valid \cup {0}
               PROVE  UnitPortsToPodmanPortMapping(ports) =
                        {[i \in DOMAIN ports |->
                           [container |-> ports[i].container,
                            host |-> IF ports[i].host = 0 THEN ports[i].container
                                     ELSE ports[i].host]]}
  BY DEF PortsArrive
<1>2. \A p \in valid : p # 0 /\ p % PortSpan = p
  OBVIOUS
<1> HIDE DEF valid
<1>3. ~ \E i \in DOMAIN ports : ports[i].container = 0
  BY <1>1, <1>2
<1>4. \A i \in DOMAIN ports :
        PortMapping(ports[i]) = [container |-> ports[i].container,
                                 host |-> IF ports[i].host = 0 THEN ports[i].container
                                          ELSE ports[i].host]
  BY <1>1, <1>2 DEF PortMapping
<1>5. QED BY <1>3, <1>4 DEF UnitPortsToPodmanPortMapping

\* A volume that names one source keeps its kind, and so do the sources in it.
VolumeArrives(volume, packages, converted) ==
    \A field \in volume.fields :
        volume.fields = {field} /\ (field = "packagePath" => volume.name \in DOMAIN packages)
          => \E v \in converted :
                /\ v.kind = (IF field = "packagePath" THEN "hostPath" ELSE field)
                /\ v.kind = "hostPath" => v.path # {}
                /\ v.kind = "projected" =>
                    \A i \in DOMAIN volume.sources :
                        Cardinality(volume.sources[i]) = 1 => v.sources[i] = volume.sources[i]

\* A single field is the first one that is found.
LEMMA VolumesKeepTheirKind ==
    ASSUME NEW volume, NEW packages, volume.fields \subseteq ToSet(VolumeOrder),
           \A i \in DOMAIN volume.sources : volume.sources[i] \subseteq ToSet(SourceOrder)
    PROVE  VolumeArrives(volume, packages, MilpaToK8sVolume(volume, packages))
<1>1. SUFFICES ASSUME NEW field \in volume.fields, volume.fields = {field},
                      field = "packagePath" => volume.name \in DOMAIN packages
               PROVE  \E v \in MilpaToK8sVolume(volume, packages) :
                        /\ v.kind = (IF field = "packagePath" THEN "hostPath" ELSE field)
                        /\ v.kind = "hostPath" => v.path # {}
                        /\ v.kind = "projected" =>
                             \A i \in DOMAIN volume.sources :
                               Cardinality(volume.sources[i]) = 1 => v.sources[i] = volume.sources[i]
  BY DEF VolumeArrives
<1> DEFINE v == ConvertedVolume(field, volume, packages)
<1>2. MilpaToK8sVolume(volume, packages) = {v}
  <2>1. VolumeOrder \in Seq({"secret", "hostPath", "configMap", "emptyDir", "projected",
                              "packagePath"})
    BY DEF VolumeOrder
  <2>2. FirstOf(VolumeOrder, volume.fields) = {field}
    <3>1. field \in ToSet(VolumeOrder)
      BY <1>1
    <3>2. QED BY <1>1, <2>1, <3>1, FirstOfIs
  <2>3. QED BY <2>2 DEF MilpaToK8sVolume
<1>3. ASSUME NEW i \in DOMAIN volume.sources, Cardinality(volume.sources[i]) = 1
      PROVE  FirstOf(SourceOrder, volume.sources[i]) = volume.sources[i]
  <2>1. SourceOrder \in Seq({"secret", "configMap"})
        /\ ToSet(SourceOrder) \subseteq {"secret", "configMap"}
    <3>1. SourceOrder \in Seq({"secret", "configMap"})
      BY DEF SourceOrder
    <3>2. \A k \in DOMAIN SourceOrder : SourceOrder[k] \in {"secret", "configMap"}
      BY <3>1, LenProperties, ElementOfSeq
    <3>3. QED BY <3>1, <3>2 DEF ToSet
  <2>2. IsFiniteSet({"secret", "configMap"})
    <3>1. IsFiniteSet({"secret"} \cup {"configMap"})
      BY FS_Singleton, FS_AddElement
    <3>2. {"secret", "configMap"} = {"secret"} \cup {"configMap"}
      OBVIOUS
    <3>3. QED BY <3>1, <3>2
  <2>3. IsFiniteSet(volume.sources[i])
    <3>1. volume.sources[i] \in SUBSET {"secret", "configMap"}
      BY <2>1
    <3>2. QED BY <2>2, <3>1, FS_Subset
  <2>4. PICK x : volume.sources[i] = {x}
    BY <1>3, <2>3, FS_Singleton
  <2>5. x \in ToSet(SourceOrder)
    BY <2>4
  <2>6. QED BY <2>1, <2>4, <2>5, FirstOfIs
<1>4. CASE field = "packagePath"
  <2>1. v = [kind |-> "hostPath", path |-> {volume.name}, type |-> packages[volume.name]]
    BY <1>1, <1>4 DEF ConvertedVolume, ConvertPackagePathToHostPath
  <2>2. v.kind = "hostPath" /\ v.path # {}
    BY <2>1
  <2> HIDE DEF v
  <2>3. QED BY <1>2, <1>4, <2>2
<1>5. CASE field = "hostPath"
  <2>1. v = [kind |-> "hostPath", path |-> {volume.path}, type |-> volume.type]
    BY <1>5 DEF ConvertedVolume
  <2>2. v.kind = "hostPath" /\ v.path # {}
    BY <2>1
  <2> HIDE DEF v
  <2>3. QED BY <1>2, <1>5, <2>2
<1>6. CASE field = "projected"
  <2>1. v = [kind |-> "projected", sources |-> [i \in DOMAIN volume.sources |->
                                                  FirstOf(SourceOrder, volume.sources[i])]]
    BY <1>6 DEF ConvertedVolume
  <2>2. v.kind = "projected" /\ \A i \in DOMAIN volume.sources :
          Cardinality(volume.sources[i]) = 1 => v.sources[i] = volume.sources[i]
    BY <1>3, <2>1
  <2> HIDE DEF v
  <2>3. QED BY <1>2, <1>6, <2>2
<1>7. CASE field \notin {"packagePath", "hostPath", "projected"}
  <2>1. v = [kind |-> field]
    BY <1>7 DEF ConvertedVolume
  <2>2. v.kind = field
    BY <2>1
  <2> HIDE DEF v
  <2>3. QED BY <1>2, <1>7, <2>2
<1>8. QED BY <1>4, <1>5, <1>6, <1>7

-------------------------------------------------------------------------------
(* Users.                                                                  *)

\* The only position at which something is found is the first and the last.
LEMMA OnlyOne ==
    ASSUME NEW n \in Nat, NEW I, I \subseteq 1 .. n, Cardinality(I) = 1
    PROVE  \E i \in 1 .. n : i # 0 /\ I = {i} /\ Min(I) = i /\ Max(I) = i
<1>1. IsFiniteSet(I)
  <2>1. IsFiniteSet(1 .. n)
    <3>1. 1 \in Int /\ n \in Int
      OBVIOUS
    <3>2. QED BY <3>1, FS_Interval
  <2>2. QED BY <2>1, FS_Subset
<1>2. PICK i : I = {i}
  BY <1>1, FS_Singleton
<1>3. Min(I) \in I /\ Max(I) \in I
  BY <1>2, FirstAndLast
<1>4. QED BY <1>2, <1>3

\* Preferred, for the three sources of a value.
LEMMA PreferredIs ==
    ASSUME NEW a, NEW b, NEW c
    PROVE  Preferred(<<a, b, c>>) = IF a # {} THEN a ELSE IF b # {} THEN b ELSE c
<1> DEFINE s == <<a, b, c>>
           I == {i \in 1 .. Len(s) : s[i] # {}}
<1>1. Len(s) = 3 /\ s[1] = a /\ s[2] = b /\ s[3] = c
  OBVIOUS
<1>2. SelectInSeq(s, LAMBDA x : x # {}) = IF I # {} THEN Min(I) ELSE 0
  BY DEF SelectInSeq
<1>3. Preferred(s) = LET i == SelectInSeq(s, LAMBDA x : x # {}) IN IF i = 0 THEN {} ELSE s[i]
  BY DEF Preferred
<1> HIDE DEF s
<1>4. I \subseteq 1 .. 3 /\ (1 \in I <=> a # {}) /\ (2 \in I <=> b # {}) /\ (3 \in I <=> c # {})
  BY <1>1
<1> DEFINE m == Min(I)
<1>5. CASE I = {}
  BY <1>2, <1>3, <1>4, <1>5 DEF s
<1>6. CASE I # {}
  <2>1. m \in I /\ \A y \in I : m <= y
    <3>1. 3 \in Nat
      OBVIOUS
    <3> HIDE DEF I
    <3>2. QED BY <1>4, <1>6, <3>1, FirstAndLast
  <2>2. SelectInSeq(s, LAMBDA x : x # {}) = m
    BY <1>2, <1>6
  <2> HIDE DEF m
  <2>3. m \in 1 .. 3 /\ m # 0
    BY <1>4, <2>1
  <2>4. Preferred(s) = s[m]
    BY <1>3, <2>2, <2>3
  <2> HIDE DEF I
  <2>5. CASE a # {}
    <3>1. m = 1
      BY <1>4, <2>1, <2>3, <2>5
    <3>2. QED BY <1>1, <2>4, <2>5, <3>1 DEF s
  <2>6. CASE a = {} /\ b # {}
    <3>1. m = 2
      BY <1>4, <2>1, <2>3, <2>6
    <3>2. QED BY <1>1, <2>4, <2>6, <3>1 DEF s
  <2>7. CASE a = {} /\ b = {}
    <3>1. m = 3
      BY <1>4, <2>1, <2>3, <2>7
    <3>2. QED BY <1>1, <2>4, <2>7, <3>1 DEF s
  <2>8. QED BY <2>5, <2>6, <2>7
<1>7. QED BY <1>5, <1>6

\* What overrides a value is what is preferred to it.
LEMMA OverriddenIsPreferred ==
    ASSUME NEW value, NEW pod, NEW unit, AtMostOne(pod), AtMostOne(unit)
    PROVE  LET x == Override(Override(value, pod), unit) IN
           Preferred(<<unit, pod, {x}>>) = {x}
<1> DEFINE x == Override(Override(value, pod), unit)
<1>1. unit # {} => unit = {x}
  BY DEF Override, AtMostOne
<1>2. unit = {} /\ pod # {} => pod = {x}
  BY DEF Override, AtMostOne
<1>3. Preferred(<<unit, pod, {x}>>) = IF unit # {} THEN unit ELSE IF pod # {} THEN pod ELSE {x}
  <2> HIDE DEF x
  <2>1. QED BY PreferredIs
<1>4. QED BY <1>1, <1>2, <1>3

\* What the unit asks for comes before the pod's, and that before the image's.
LEMMA GetUserFollows ==
    ASSUME NEW way, NEW files, NEW image, NEW pod, NEW unit,
           AtMostOne(pod.user), AtMostOne(pod.group),
           AtMostOne(unit.user), AtMostOne(unit.group)
    PROVE  \A u \in GetUser(way, files, image, pod, unit) :
             /\ Preferred(<<unit.user, pod.user, {u.uid}>>) = {u.uid}
             /\ Preferred(<<unit.group, pod.group, {u.gid}>>) = {u.gid}
<1>1. SUFFICES ASSUME NEW u \in GetUser(way, files, image, pod, unit)
               PROVE  /\ Preferred(<<unit.user, pod.user, {u.uid}>>) = {u.uid}
                      /\ Preferred(<<unit.group, pod.group, {u.gid}>>) = {u.gid}
  OBVIOUS
<1>2. PICK b : u = [uid |-> Override(Override(b.uid, pod.user), unit.user),
                    gid |-> Override(Override(b.gid, pod.group), unit.group),
                    home |-> b.home]
  BY DEF GetUser
<1>3. /\ u.uid = Override(Override(b.uid, pod.user), unit.user)
      /\ u.gid = Override(Override(b.gid, pod.group), unit.group)
  BY <1>2
<1>4. QED BY <1>3, OverriddenIsPreferred

\* The lookups by number and by name.
ById(way, users, id) == Find(way, users, LAMBDA u : u.uid = id)
ByName(way, users, name) == Find(way, users, LAMBDA u : u.name = name)
GroupByName(way, groups, name) == Find(way, groups, LAMBDA g : g.name = name)

OneId(users, id) == OneLine(users, LAMBDA u : u.uid = id)
OneName(users, name) == OneLine(users, LAMBDA u : u.name = name)
OneGroup(groups, name) == OneLine(groups, LAMBDA e : e.name = name)

\* Where one line fits, both ways find it.
LEMMA BothWaysFindId ==
    ASSUME NEW S, NEW users \in Seq(S), NEW id, OneId(users, id)
    PROVE  ById("os", users, id) = ById("passwd", users, id) /\ ById("os", users, id) # {}
<1> DEFINE I == {i \in 1 .. Len(users) : users[i].uid = id}
<1>1. Len(users) \in Nat /\ DOMAIN users = 1 .. Len(users)
  BY LenProperties
<1>2. Cardinality(I) = 1 /\ I \subseteq 1 .. Len(users)
  BY <1>1 DEF OneId, OneLine
<1>3. PICK i \in 1 .. Len(users) : i # 0 /\ I = {i} /\ Min(I) = i /\ Max(I) = i
  <2> HIDE DEF I
  <2>1. QED BY <1>1, <1>2, OnlyOne
<1>4. /\ SelectInSeq(users, LAMBDA u : u.uid = id) = i
      /\ SelectLastInSeq(users, LAMBDA u : u.uid = id) = i
  BY <1>3 DEF SelectInSeq, SelectLastInSeq
<1>5. QED BY <1>3, <1>4 DEF Find, ById

\* The same for names of users.
LEMMA BothWaysFindName ==
    ASSUME NEW S, NEW users \in Seq(S), NEW name, OneName(users, name)
    PROVE  ByName("os", users, name) = ByName("passwd", users, name)
<1> DEFINE I == {i \in 1 .. Len(users) : users[i].name = name}
<1>1. Len(users) \in Nat /\ DOMAIN users = 1 .. Len(users)
  BY LenProperties
<1>2. Cardinality(I) = 1 /\ I \subseteq 1 .. Len(users)
  BY <1>1 DEF OneName, OneLine
<1>3. PICK i \in 1 .. Len(users) : i # 0 /\ I = {i} /\ Min(I) = i /\ Max(I) = i
  <2> HIDE DEF I
  <2>1. QED BY <1>1, <1>2, OnlyOne
<1>4. /\ SelectInSeq(users, LAMBDA u : u.name = name) = i
      /\ SelectLastInSeq(users, LAMBDA u : u.name = name) = i
  BY <1>3 DEF SelectInSeq, SelectLastInSeq
<1>5. QED BY <1>3, <1>4 DEF Find, ByName

\* The same for names of groups.
LEMMA BothWaysFindGroup ==
    ASSUME NEW S, NEW groups \in Seq(S), NEW name, OneGroup(groups, name)
    PROVE  GroupByName("os", groups, name) = GroupByName("passwd", groups, name)
<1> DEFINE I == {i \in 1 .. Len(groups) : groups[i].name = name}
<1>1. Len(groups) \in Nat /\ DOMAIN groups = 1 .. Len(groups)
  BY LenProperties
<1>2. Cardinality(I) = 1 /\ I \subseteq 1 .. Len(groups)
  BY <1>1 DEF OneGroup, OneLine
<1>3. PICK i \in 1 .. Len(groups) : i # 0 /\ I = {i} /\ Min(I) = i /\ Max(I) = i
  <2> HIDE DEF I
  <2>1. QED BY <1>1, <1>2, OnlyOne
<1>4. /\ SelectInSeq(groups, LAMBDA g : g.name = name) = i
      /\ SelectLastInSeq(groups, LAMBDA g : g.name = name) = i
  BY <1>3 DEF SelectInSeq, SelectLastInSeq
<1>5. QED BY <1>3, <1>4 DEF Find, GroupByName

\* Where no line fits, none is found.
LEMMA NobodyHasId ==
    ASSUME NEW S, NEW users \in Seq(S), NEW id, \A i \in DOMAIN users : users[i].uid # id
    PROVE  ById("passwd", users, id) = {}
<1>1. DOMAIN users = 1 .. Len(users)
  BY LenProperties
<1>2. {i \in 1 .. Len(users) : users[i].uid = id} = {}
  BY <1>1
<1>3. SelectLastInSeq(users, LAMBDA u : u.uid = id) = 0
  BY <1>2 DEF SelectLastInSeq
<1>4. QED BY <1>3 DEF Find, ById

\* What names one line each is looked up in both ways with the same result.
LEMMA BothWaysLookUp ==
    ASSUME NEW S, NEW files, files.users \in Seq(S), NEW R, files.groups \in Seq(R),
           NEW image, NEW pod, NEW unit, \A spec \in image : Unambiguous(files, spec)
    PROVE  GetUser("os", files, image, pod, unit) = GetUser("passwd", files, image, pod, unit)
<1>1. ASSUME NEW spec \in image
      PROVE  LookupUser("os", files, spec) = LookupUser("passwd", files, spec)
  <2>1. Unambiguous(files, spec)
    OBVIOUS
  <2>2. GroupOf("os", files, spec) = GroupOf("passwd", files, spec)
    <3>1. ASSUME NEW g \in spec.group
          PROVE  IF g.kind = "id"
                 THEN LookupGroupId("os", files, g.id) = LookupGroupId("passwd", files, g.id)
                 ELSE LookupGroup("os", files, g.name) = LookupGroup("passwd", files, g.name)
      <4>1. CASE g.kind = "id"
        <5>1. \A i \in DOMAIN files.users : files.users[i].uid # g.id
          BY <2>1, <4>1 DEF Unambiguous
        <5>2. ById("passwd", files.users, g.id) = {}
          BY <5>1, NobodyHasId
        <5>3. QED BY <4>1, <5>2 DEF LookupGroupId, ById
      <4>2. CASE g.kind # "id"
        <5>1. OneGroup(files.groups, g.name)
          BY <2>1, <4>2 DEF Unambiguous, OneGroup
        <5>2. GroupByName("os", files.groups, g.name) = GroupByName("passwd", files.groups, g.name)
          BY <5>1, BothWaysFindGroup
        <5>3. QED BY <4>2, <5>2 DEF LookupGroup, GroupByName
      <4>3. QED BY <4>1, <4>2
    <3>2. QED BY <3>1 DEF GroupOf
  <2>3. CASE spec.user.kind = "id"
    <3>1. OneId(files.users, spec.user.id)
      BY <2>1, <2>3 DEF Unambiguous, OneId
    <3>2. /\ ById("os", files.users, spec.user.id) = ById("passwd", files.users, spec.user.id)
          /\ ById("os", files.users, spec.user.id) # {}
      BY <3>1, BothWaysFindId
    <3>3. LookupId("os", files, spec.user.id) = LookupId("passwd", files, spec.user.id)
      BY <3>2 DEF LookupId, ById
    <3>4. QED BY <2>2, <2>3, <3>3 DEF LookupUser
  <2>4. CASE spec.user.kind # "id"
    <3>1. OneName(files.users, spec.user.name)
      BY <2>1, <2>4 DEF Unambiguous, OneName
    <3>2. ByName("os", files.users, spec.user.name) = ByName("passwd", files.users, spec.user.name)
      BY <3>1, BothWaysFindName
    <3>3. Lookup("os", files, spec.user.name) = Lookup("passwd", files, spec.user.name)
      BY <3>2 DEF Lookup, ByName
    <3>4. QED BY <2>2, <2>4, <3>3 DEF LookupUser
  <2>5. QED BY <2>3, <2>4
<1>2. UNION {LookupUser("os", files, spec) : spec \in image}
        = UNION {LookupUser("passwd", files, spec) : spec \in image}
  BY <1>1
<1>3. QED BY <1>2 DEF GetUser

-------------------------------------------------------------------------------
(* Environments.                                                           *)

\* Environments in which no key comes twice.
Settings(K, V) == [key : K, value : V]

UniqueKeys(env) == \A i, j \in DOMAIN env : env[i].key = env[j].key => i = j

\* Reversing keeps the elements and that keys are unique.
LEMMA ReverseKeeps ==
    ASSUME NEW S, NEW s \in Seq(S)
    PROVE  /\ Reverse(s) \in Seq(S)
           /\ ToSet(Reverse(s)) = ToSet(s)
           /\ UniqueKeys(s) => UniqueKeys(Reverse(s))
<1> DEFINE n == Len(s)
           r == Reverse(s)
<1>1. n \in Nat /\ DOMAIN s = 1 .. n
  BY LenProperties
<1>2. /\ r \in Seq(S) /\ Len(r) = n
      /\ \A i \in 1 .. n : r[i] = s[n - i + 1] /\ n - i + 1 \in 1 .. n
  BY ReverseIs
<1> HIDE DEF n, r
<1>3. DOMAIN r = 1 .. n
  BY <1>2, LenProperties
<1>4. \A i \in 1 .. n : n - (n - i + 1) + 1 = i
  BY <1>1
<1>5. ToSet(r) = ToSet(s)
  <2>1. ASSUME NEW i \in 1 .. n
        PROVE  \E j \in 1 .. n : s[i] = r[j]
    <3> DEFINE j == n - i + 1
    <3>1. j \in 1 .. n /\ n - j + 1 = i
      BY <1>2, <1>4
    <3> HIDE DEF j
    <3>2. s[i] = r[j]
      BY <1>2, <3>1
    <3>3. QED BY <3>1, <3>2
  <2>2. ToSet(r) = {r[i] : i \in 1 .. n} /\ ToSet(s) = {s[i] : i \in 1 .. n}
    BY <1>1, <1>3 DEF ToSet
  <2>3. \A i \in 1 .. n : r[i] \in {s[j] : j \in 1 .. n}
    BY <1>2
  <2>4. QED BY <2>1, <2>2, <2>3
<1>6. ASSUME UniqueKeys(s), NEW i \in 1 .. n, NEW j \in 1 .. n, r[i].key = r[j].key
      PROVE  i = j
  <2>1. n - i + 1 = n - j + 1
    BY <1>1, <1>2, <1>6 DEF UniqueKeys
  <2>2. QED BY <1>1, <2>1
<1>7. QED BY <1>2, <1>3, <1>5, <1>6 DEF UniqueKeys, r

\* What is in the list afterwards, whatever the order.
Added(env, key, value, overwrite, list) ==
    LET new == [key |-> key, value |-> value] IN
    \A e : e \in ToSet(list) <=>
             \/ e \in ToSet(env) /\ (e.key # key \/ ~overwrite)
             \/ e = new /\ (overwrite \/ key \notin KeysOf(env))

IsEnvironment(env, K, V) == env \in Seq(Settings(K, V)) /\ UniqueKeys(env)

\* The parts of IsEnvironment, by position and by element.
LEMMA EnvironmentIs ==
    ASSUME NEW K, NEW V, NEW env, IsEnvironment(env, K, V)
    PROVE  /\ Len(env) \in Nat /\ DOMAIN env = 1 .. Len(env)
           /\ \A i \in 1 .. Len(env) :
                /\ env[i] \in Settings(K, V) /\ env[i].key \in K /\ env[i].value \in V
                /\ env[i] = [key |-> env[i].key, value |-> env[i].value]
           /\ \A x, y \in ToSet(env) : x.key = y.key => x = y
           /\ \A key : key \in KeysOf(env) <=> \E e \in ToSet(env) : e.key = key
<1>1. env \in Seq(Settings(K, V))
  BY DEF IsEnvironment
<1>2. Len(env) \in Nat /\ DOMAIN env = 1 .. Len(env)
      /\ \A i \in 1 .. Len(env) : env[i] \in Settings(K, V)
  BY <1>1, LenProperties, ElementOfSeq
<1>3. \A e \in Settings(K, V) : /\ e.key \in K /\ e.value \in V
                                /\ e = [key |-> e.key, value |-> e.value]
  BY DEF Settings
<1>4. \A x, y \in ToSet(env) : x.key = y.key => x = y
  BY <1>2 DEF ToSet, IsEnvironment, UniqueKeys
<1>5. \A key : key \in KeysOf(env) <=> \E e \in ToSet(env) : e.key = key
  BY DEF KeysOf, ToSet
<1>6. QED BY <1>2, <1>3, <1>4, <1>5

\* AddToEnvList adds its entry, or leaves what is there.
LEMMA AddToEnvListAdds ==
    ASSUME NEW K, NEW V, NEW env, IsEnvironment(env, K, V),
           NEW key \in K, NEW value \in V, NEW overwrite \in BOOLEAN
    PROVE  /\ IsEnvironment(AddToEnvList(env, key, value, overwrite), K, V)
           /\ Added(env, key, value, overwrite, AddToEnvList(env, key, value, overwrite))
<1> DEFINE E == Settings(K, V)
           new == [key |-> key, value |-> value]
           n == Len(env)
           I == {i \in 1 .. n : env[i].key = key}
           made == AddToEnvList(env, key, value, overwrite)
<1>1. /\ n \in Nat /\ DOMAIN env = 1 .. n
      /\ \A i \in 1 .. n : env[i] \in E /\ env[i].key \in K
      /\ \A x, y \in ToSet(env) : x.key = y.key => x = y
      /\ \A k : k \in KeysOf(env) <=> \E e \in ToSet(env) : e.key = k
  <2>1. /\ Len(env) \in Nat /\ DOMAIN env = 1 .. Len(env)
        /\ \A i \in 1 .. Len(env) :
             /\ env[i] \in Settings(K, V) /\ env[i].key \in K /\ env[i].value \in V
             /\ env[i] = [key |-> env[i].key, value |-> env[i].value]
        /\ \A x, y \in ToSet(env) : x.key = y.key => x = y
        /\ \A k : k \in KeysOf(env) <=> \E e \in ToSet(env) : e.key = k
    BY EnvironmentIs
  <2> HIDE DEF E, n
  <2>2. QED BY <2>1 DEF E, n
<1>2. env \in Seq(E) /\ UniqueKeys(env) /\ new \in E /\ new.key = key
  BY DEF IsEnvironment, Settings
<1>3. CASE I = {}
  <2>1. SelectLastInSeq(env, LAMBDA e : e.key = key) = 0
    BY <1>3 DEF SelectLastInSeq
  <2>2. made = Append(Reverse(env), new)
    BY <2>1 DEF AddToEnvList
  <2> DEFINE r == Reverse(env)
  <2>3. r \in Seq(E) /\ ToSet(r) = ToSet(env) /\ UniqueKeys(r)
    BY <1>2, ReverseKeeps
  <2> HIDE DEF r, new
  <2>4. /\ Append(r, new) \in Seq(E) /\ Len(Append(r, new)) = Len(r) + 1
        /\ \A i \in 1 .. Len(r) : Append(r, new)[i] = r[i]
        /\ Append(r, new)[Len(r) + 1] = new
    BY <1>2, <2>3, AppendProperties
  <2> DEFINE a == Append(r, new)
  <2>5. /\ Len(r) \in Nat /\ DOMAIN r = 1 .. Len(r) /\ DOMAIN a = 1 .. Len(r) + 1
        /\ \A i : i \in 1 .. Len(r) + 1 <=> i \in 1 .. Len(r) \/ i = Len(r) + 1
    <3>1. Len(r) \in Nat /\ DOMAIN r = 1 .. Len(r)
      BY <2>3, LenProperties
    <3>2. DOMAIN a = 1 .. Len(a)
      BY <2>4, LenProperties
    <3>3. QED BY <2>4, <3>1, <3>2
  <2>6. \A e \in ToSet(env) : e.key # key
    BY <1>1, <1>3 DEF ToSet
  <2> HIDE DEF a
  <2>7. ToSet(a) = ToSet(r) \cup {new}
    <3>1. \A i \in 1 .. Len(r) : a[i] = r[i]
      BY <2>4 DEF a
    <3>2. a[Len(r) + 1] = new
      BY <2>4 DEF a
    <3>3. QED BY <2>5, <3>1, <3>2 DEF ToSet
  <2>8. UniqueKeys(a)
    <3>1. \A i \in 1 .. Len(r) : a[i] = r[i] /\ r[i] \in ToSet(env)
      BY <2>3, <2>4, <2>5 DEF ToSet, a
    <3>2. a[Len(r) + 1] = new
      BY <2>4 DEF a
    <3>3. \A i, j \in 1 .. Len(r) : r[i].key = r[j].key => i = j
      BY <2>3, <2>5 DEF UniqueKeys
    <3>4. QED BY <1>2, <2>5, <2>6, <3>1, <3>2, <3>3 DEF UniqueKeys
  <2>9. \A e : e \in ToSet(a) <=> e \in ToSet(env) \/ e = new
    BY <2>3, <2>7
  <2>10. key \notin KeysOf(env)
    BY <1>1, <2>6
  <2>11. Added(env, key, value, overwrite, a)
    BY <2>6, <2>9, <2>10 DEF Added, new
  <2>12. QED BY <2>2, <2>4, <2>8, <2>11 DEF IsEnvironment, a, r, new
<1>4. CASE I # {}
  <2> DEFINE last == Max(I)
  <2>1. last \in I
    <3>1. I \subseteq 1 .. n
      OBVIOUS
    <3> HIDE DEF I, n
    <3>2. QED BY <1>1, <1>4, <3>1, FirstAndLast
  <2>2. SelectLastInSeq(env, LAMBDA e : e.key = key) = last
    BY <1>4 DEF SelectLastInSeq
  <2> HIDE DEF last
  <2>3. last \in 1 .. n /\ env[last].key = key /\ last # 0
    BY <1>1, <2>1
  <2> DEFINE P == {i \in DOMAIN env : i = last \/ env[i].key # key}
             kept == InOrder(P)
             m == Cardinality(P)
             mid == [k \in DOMAIN kept |->
                       IF kept[k] = last /\ overwrite THEN new ELSE env[kept[k]]]
  <2>4. made = Reverse(mid)
    BY <2>2, <2>3 DEF AddToEnvList
  <2>5. m \in Nat /\ Enumerates(kept, m, P)
    <3>1. P \subseteq 1 .. n
      BY <1>1
    <3> HIDE DEF P, n
    <3>2. QED BY <1>1, <3>1, InOrderEnumerates
  <2>6. P = 1 .. n
    BY <1>1, <1>2, <2>3 DEF UniqueKeys
  <2> HIDE DEF P, m, kept
  <2>7. /\ kept \in [1 .. m -> 1 .. n]
        /\ \A j, k \in 1 .. m : kept[j] = kept[k] => j = k
        /\ \A i \in 1 .. n : \E k \in 1 .. m : kept[k] = i
    <3>1. /\ kept \in [1 .. m -> 1 .. n]
          /\ \A j, k \in 1 .. m : j < k => kept[j] < kept[k]
          /\ \A i \in 1 .. n : \E k \in 1 .. m : kept[k] = i
      BY <2>5, <2>6 DEF Enumerates
    <3>2. ASSUME NEW j \in 1 .. m, NEW k \in 1 .. m, kept[j] = kept[k]
          PROVE  j = k
      <4>1. kept[j] \in Nat /\ kept[k] \in Nat
        BY <1>1, <3>1
      <4>2. ~(j < k) /\ ~(k < j)
        BY <3>1, <3>2, <4>1
      <4>3. QED BY <2>5, <4>2
    <3>3. QED BY <3>1, <3>2
  <2>8. /\ mid \in Seq(E) /\ DOMAIN mid = 1 .. m
        /\ \A k \in 1 .. m : mid[k] = IF kept[k] = last /\ overwrite THEN new ELSE env[kept[k]]
    <3>1. DOMAIN kept = 1 .. m
      BY <2>7
    <3>2. mid = [k \in 1 .. m |-> IF kept[k] = last /\ overwrite THEN new ELSE env[kept[k]]]
      BY <3>1
    <3>3. \A k \in 1 .. m : (IF kept[k] = last /\ overwrite THEN new ELSE env[kept[k]]) \in E
      <4> HIDE DEF new, E
      <4>1. QED BY <1>1, <1>2, <2>7
    <3> HIDE DEF mid, new, E
    <3>4. QED BY <2>5, <3>2, <3>3
  <2> HIDE DEF mid, new, I, n
  <2>9. \A k \in 1 .. m : mid[k].key = env[kept[k]].key
    BY <1>2, <2>3, <2>8
  <2>10. UniqueKeys(mid)
    BY <1>1, <1>2, <2>7, <2>8, <2>9 DEF UniqueKeys
  <2>11. made \in Seq(E) /\ ToSet(made) = ToSet(mid) /\ UniqueKeys(made)
    BY <2>4, <2>8, <2>10, ReverseKeeps
  <2>12. \A e : e \in ToSet(mid) <=>
                \/ e \in ToSet(env) /\ (e.key # key \/ ~overwrite)
                \/ e = new /\ overwrite
    <3>1. \A i \in 1 .. n : i = last <=> env[i].key = key
      BY <1>1, <1>2, <2>3 DEF UniqueKeys
    <3>2. \A e : e \in ToSet(mid) <=> \E k \in 1 .. m : e = mid[k]
      BY <2>8 DEF ToSet
    <3>3. \A e : e \in ToSet(env) <=> \E i \in 1 .. n : e = env[i]
      BY <1>1 DEF ToSet
    <3>4. ASSUME NEW e, e \in ToSet(mid)
          PROVE  \/ e \in ToSet(env) /\ (e.key # key \/ ~overwrite)
                 \/ e = new /\ overwrite
      <4>1. PICK k \in 1 .. m : e = mid[k]
        BY <3>2, <3>4
      <4>2. QED BY <2>7, <2>8, <3>1, <3>3, <4>1
    <3>5. ASSUME NEW e, e \in ToSet(env), e.key # key \/ ~overwrite
          PROVE  e \in ToSet(mid)
      <4>1. PICK i \in 1 .. n : e = env[i]
        BY <3>3, <3>5
      <4>2. PICK k \in 1 .. m : kept[k] = i
        BY <2>7
      <4>3. mid[k] = e
        BY <2>8, <3>1, <3>5, <4>1, <4>2
      <4>4. QED BY <3>2, <4>3
    <3>6. ASSUME overwrite
          PROVE  new \in ToSet(mid)
      <4>1. PICK k \in 1 .. m : kept[k] = last
        BY <2>3, <2>7
      <4>2. mid[k] = new
        BY <2>8, <3>6, <4>1
      <4>3. QED BY <3>2, <4>2
    <3>7. QED BY <3>4, <3>5, <3>6
  <2>13. key \in KeysOf(env)
    BY <1>1, <2>3 DEF ToSet
  <2>14. Added(env, key, value, overwrite, made)
    <3> HIDE DEF made
    <3>1. QED BY <2>11, <2>12, <2>13 DEF Added, new
  <2>15. QED BY <2>11, <2>14 DEF IsEnvironment
<1>5. QED BY <1>3, <1>4

\* What the first n entries of a unit make of the image's environment.
Merged(image, spec, n, env) ==
    \A e : e \in ToSet(env) <=>
             \/ e \in ToSet(image) /\ \A i \in 1 .. n : spec[i].key # e.key
             \/ \E i \in 1 .. n : /\ e = spec[i]
                                  /\ \A j \in 1 .. n : j > i => spec[j].key # spec[i].key

AddEntry(env, entry) == AddToEnvList(env, entry.key, entry.value, TRUE)

\* One more entry of the unit.
LEMMA NextMerged ==
    ASSUME NEW K, NEW V, NEW spec, NEW n \in Nat, spec[n + 1] \in Settings(K, V),
           NEW image, NEW env, IsEnvironment(env, K, V), Merged(image, spec, n, env)
    PROVE  /\ IsEnvironment(AddEntry(env, spec[n + 1]), K, V)
           /\ Merged(image, spec, n + 1, AddEntry(env, spec[n + 1]))
<1> DEFINE new == spec[n + 1]
           list == AddEntry(env, new)
<1>1. /\ new.key \in K /\ new.value \in V
      /\ new = [key |-> new.key, value |-> new.value]
  BY DEF Settings
<1>2. TRUE \in BOOLEAN
  OBVIOUS
<1>3. /\ IsEnvironment(AddToEnvList(env, new.key, new.value, TRUE), K, V)
      /\ Added(env, new.key, new.value, TRUE, AddToEnvList(env, new.key, new.value, TRUE))
  <2> HIDE DEF new
  <2>1. QED BY <1>1, <1>2, AddToEnvListAdds
<1>4. \A e : e \in ToSet(list) <=> (e \in ToSet(env) /\ e.key # new.key) \/ e = new
  <2> HIDE DEF new
  <2>1. QED BY <1>1, <1>3 DEF Added, AddEntry
<1>5. /\ \A i : i \in 1 .. n + 1 <=> i \in 1 .. n \/ i = n + 1
      /\ \A i \in 1 .. n : n + 1 > i /\ ~(i > n + 1) /\ i # n + 1
      /\ ~(n + 1 > n + 1)
  OBVIOUS
<1> HIDE DEF list
<1>6. ASSUME NEW e
      PROVE  e \in ToSet(list) <=>
               \/ e \in ToSet(image) /\ \A i \in 1 .. n + 1 : spec[i].key # e.key
               \/ \E i \in 1 .. n + 1 : /\ e = spec[i]
                                        /\ \A j \in 1 .. n + 1 : j > i => spec[j].key # spec[i].key
  <2>1. e \in ToSet(env) <=>
             \/ e \in ToSet(image) /\ \A i \in 1 .. n : spec[i].key # e.key
             \/ \E i \in 1 .. n : /\ e = spec[i]
                                  /\ \A j \in 1 .. n : j > i => spec[j].key # spec[i].key
    BY DEF Merged
  <2>2. (\A i \in 1 .. n + 1 : spec[i].key # e.key)
          <=> (\A i \in 1 .. n : spec[i].key # e.key) /\ new.key # e.key
    BY <1>5
  <2>3. (\E i \in 1 .. n + 1 : /\ e = spec[i]
                               /\ \A j \in 1 .. n + 1 : j > i => spec[j].key # spec[i].key)
          <=> \/ e = new
              \/ \E i \in 1 .. n :
                    /\ e = spec[i] /\ new.key # e.key
                    /\ \A j \in 1 .. n : j > i => spec[j].key # spec[i].key
    <3>1. \A j \in 1 .. n + 1 : j > n + 1 => spec[j].key # spec[n + 1].key
      BY <1>5
    <3>2. ASSUME NEW i \in 1 .. n
          PROVE  (\A j \in 1 .. n + 1 : j > i => spec[j].key # spec[i].key)
                   <=> /\ new.key # spec[i].key
                       /\ \A j \in 1 .. n : j > i => spec[j].key # spec[i].key
      BY <1>5
    <3>3. QED BY <1>5, <3>1, <3>2
  <2>4. QED BY <1>4, <2>1, <2>2, <2>3
<1>7. Merged(image, spec, n + 1, list)
  BY <1>6 DEF Merged
<1>8. IsEnvironment(list, K, V)
  BY <1>3 DEF list, AddEntry
<1>9. QED BY <1>7, <1>8 DEF list

\* Of every key there is one entry, so that none is dropped.
LEMMA AllAreLast ==
    ASSUME NEW K, NEW V, NEW env, IsEnvironment(env, K, V)
    PROVE  LET last == Pick(env, {i \in DOMAIN env :
                                    \A j \in DOMAIN env : env[j].key = env[i].key => j <= i}) IN
           IsEnvironment(last, K, V) /\ ToSet(last) = ToSet(env)
<1> DEFINE n == Len(env)
           P == {i \in DOMAIN env : \A j \in DOMAIN env : env[j].key = env[i].key => j <= i}
           at == InOrder(P)
           m == Cardinality(P)
           last == Pick(env, P)
<1>1. /\ n \in Nat /\ DOMAIN env = 1 .. n
      /\ \A i \in 1 .. n : env[i] \in Settings(K, V)
  BY EnvironmentIs
<1>2. \A i, j \in 1 .. n : env[i].key = env[j].key => i = j
  BY <1>1 DEF IsEnvironment, UniqueKeys
<1>3. P = 1 .. n
  BY <1>1, <1>2
<1>4. m \in Nat /\ Enumerates(at, m, P)
  <2> HIDE DEF P, n
  <2>1. P \subseteq 1 .. n
    BY <1>3
  <2>2. QED BY <1>1, <2>1, InOrderEnumerates
<1>5. last = [k \in DOMAIN at |-> env[at[k]]]
  BY DEF Pick
<1> HIDE DEF P, m, at, last, n
<1>6. /\ at \in [1 .. m -> 1 .. n]
      /\ \A j, k \in 1 .. m : j < k => at[j] < at[k]
      /\ \A i \in 1 .. n : \E k \in 1 .. m : at[k] = i
  BY <1>3, <1>4 DEF Enumerates
<1>7. \A j, k \in 1 .. m : at[j] = at[k] => j = k
  <2>1. ASSUME NEW j \in 1 .. m, NEW k \in 1 .. m, at[j] = at[k]
        PROVE  j = k
    <3>1. at[j] \in Nat /\ at[k] \in Nat
      BY <1>1, <1>6
    <3>2. ~(j < k) /\ ~(k < j)
      BY <1>6, <2>1, <3>1
    <3>3. QED BY <1>4, <3>2
  <2>2. QED BY <2>1
<1>8. /\ last \in [1 .. m -> Settings(K, V)]
      /\ \A k \in 1 .. m : last[k] = env[at[k]]
  <2>1. DOMAIN at = 1 .. m
    BY <1>6
  <2>2. \A k \in 1 .. m : env[at[k]] \in Settings(K, V)
    BY <1>1, <1>6
  <2>3. QED BY <1>5, <2>1, <2>2
<1>9. last \in Seq(Settings(K, V)) /\ DOMAIN last = 1 .. m
  BY <1>4, <1>8
<1>10. UniqueKeys(last)
  <2>1. ASSUME NEW j \in 1 .. m, NEW k \in 1 .. m, last[j].key = last[k].key
        PROVE  j = k
    <3>1. at[j] \in 1 .. n /\ at[k] \in 1 .. n
      BY <1>6
    <3>2. env[at[j]].key = env[at[k]].key
      BY <1>8, <2>1
    <3>3. at[j] = at[k]
      BY <1>2, <3>1, <3>2
    <3>4. QED BY <1>7, <3>3
  <2>2. QED BY <1>9, <2>1 DEF UniqueKeys
<1>11. ToSet(last) = ToSet(env)
  <2>1. ToSet(last) = {last[k] : k \in 1 .. m} /\ ToSet(env) = {env[i] : i \in 1 .. n}
    BY <1>1, <1>9 DEF ToSet
  <2>2. \A k \in 1 .. m : last[k] \in {env[i] : i \in 1 .. n}
    BY <1>6, <1>8
  <2>3. \A i \in 1 .. n : \E k \in 1 .. m : last[k] = env[i]
    BY <1>6, <1>8
  <2>4. QED BY <2>1, <2>2, <2>3
<1>12. QED BY <1>9, <1>10, <1>11 DEF IsEnvironment, last, P

\* The environment of the helper, by induction over the unit's entries.
LEMMA HelperEnvMerges ==
    ASSUME NEW K, NEW V, NEW image, IsEnvironment(image, K, V), NEW spec \in Seq(Settings(K, V))
    PROVE  /\ IsEnvironment(HelperEnv(image, spec), K, V)
           /\ Merged(image, spec, Len(spec), HelperEnv(image, spec))
<1> DEFINE N == Len(spec)
           T == {env \in Seq(Settings(K, V)) : UniqueKeys(env)}
           step == [a \in (1 .. N) \X T |-> AddEntry(a[2], spec[a[1]])]
           F(f) == [n \in 0 .. N |->
                      IF n = 0 THEN image
                      ELSE AddToEnvList(f[n - 1], spec[n].key, spec[n].value, TRUE)]
           env == CHOOSE f : f = F(f)
           LastOnes(all) == Pick(all, {i \in DOMAIN all :
                                     \A j \in DOMAIN all : all[j].key = all[i].key => j <= i})
<1>1. N \in Nat /\ \A i \in 1 .. N : spec[i] \in Settings(K, V)
  BY LenProperties, ElementOfSeq
<1>2. \A e : e \in T <=> IsEnvironment(e, K, V)
  BY DEF IsEnvironment
<1>3. HelperEnv(image, spec) = LastOnes(env[N])
  BY DEF HelperEnv
<1>4. \A i \in 1 .. N, e \in T : AddEntry(e, spec[i]) \in T
  <2>1. ASSUME NEW i \in 1 .. N, NEW e \in T
        PROVE  AddEntry(e, spec[i]) \in T
    <3>1. spec[i].key \in K /\ spec[i].value \in V /\ TRUE \in BOOLEAN
      BY <1>1 DEF Settings
    <3>2. IsEnvironment(e, K, V)
      BY <1>2
    <3>3. IsEnvironment(AddToEnvList(e, spec[i].key, spec[i].value, TRUE), K, V)
      BY <3>1, <3>2, AddToEnvListAdds
    <3> HIDE DEF T
    <3>4. QED BY <1>2, <3>3 DEF AddEntry
  <2>2. QED BY <2>1
<1>5. IsCount(N, T, image, step)
  <2>1. image \in T
    BY DEF IsEnvironment
  <2>2. step \in [(1 .. N) \X T -> T]
    <3> HIDE DEF N, T
    <3>1. QED BY <1>4
  <2> HIDE DEF T, N, step
  <2>3. QED BY <1>1, <2>1, <2>2 DEF IsCount
<1>6. \A i \in 1 .. N, e \in T : step[<<i, e>>] = AddEntry(e, spec[i])
  OBVIOUS
<1>7. PICK f : Counts(N, T, image, step, f)
  <2> HIDE DEF N, T, step
  <2>1. QED BY <1>5, CountingRecursion
<1>8. f = F(f)
  <2>1. \A k \in 0 .. N : k = 0 \/ k \in 1 .. N
    BY <1>1
  <2>2. \A k \in 1 .. N : k - 1 \in 0 .. N
    BY <1>1
  <2> HIDE DEF N, T, step
  <2>3. QED BY <1>6, <1>7, <2>1, <2>2 DEF Counts, AddEntry
<1>9. env = F(env)
  BY <1>8
<1> HIDE DEF env
<1>10. /\ env = [k \in 0 .. N |-> env[k]] /\ env[0] = image
       /\ \A k \in 1 .. N : env[k] = AddEntry(env[k - 1], spec[k])
  <2>1. 0 \in 0 .. N /\ \A k \in 1 .. N : k \in 0 .. N /\ k # 0
    BY <1>1
  <2> HIDE DEF N
  <2>2. QED BY <1>9, <2>1 DEF AddEntry
<1> HIDE DEF F
<1> DEFINE P == {n \in 0 .. N : IsEnvironment(env[n], K, V) /\ Merged(image, spec, n, env[n])}
<1>11. 0 \in P
  <2>1. 0 \in 0 .. N /\ 1 .. 0 = {}
    BY <1>1
  <2>2. Merged(image, spec, 0, image)
    BY <2>1 DEF Merged
  <2>3. QED BY <1>10, <2>1, <2>2
<1>12. ASSUME NEW n \in 1 .. N, n - 1 \in P
       PROVE  n \in P
  <2> DEFINE m == n - 1
  <2>1. m \in Nat /\ m + 1 = n /\ n \in 0 .. N
    BY <1>1
  <2>2. IsEnvironment(env[m], K, V) /\ Merged(image, spec, m, env[m])
    BY <1>12
  <2>3. spec[m + 1] \in Settings(K, V) /\ env[n] = AddEntry(env[m], spec[m + 1])
    BY <1>1, <1>10, <2>1
  <2> HIDE DEF m
  <2>4. /\ IsEnvironment(AddEntry(env[m], spec[m + 1]), K, V)
        /\ Merged(image, spec, m + 1, AddEntry(env[m], spec[m + 1]))
    BY <2>1, <2>2, <2>3, NextMerged
  <2>5. QED BY <2>1, <2>3, <2>4
<1>13. N \in P
  <2>1. 0 \in P /\ \A n \in 1 .. N : n - 1 \in P => n \in P
    BY <1>11, <1>12
  <2> HIDE DEF P, N
  <2>2. \A n \in 0 .. N : n \in P
    BY <1>1, <2>1, InductionTo
  <2>3. N \in 0 .. N
    BY <1>1
  <2>4. QED BY <2>2, <2>3
<1>14. IsEnvironment(env[N], K, V) /\ Merged(image, spec, N, env[N])
  BY <1>13
<1>15. IsEnvironment(LastOnes(env[N]), K, V) /\ ToSet(LastOnes(env[N])) = ToSet(env[N])
  <2> HIDE DEF N
  <2>1. QED BY <1>14, AllAreLast
<1>16. QED BY <1>3, <1>14, <1>15 DEF Merged

\* What EnsureDefaultEnviron has to see to.
Ensured(env, podname, list) ==
    /\ [key |-> "HOSTNAME", value |-> podname] \in ToSet(list)
    /\ \A e \in ToSet(env) : e.key # "HOSTNAME" => e \in ToSet(list)
    /\ {"HOSTNAME", "TERM", "HOME", "PATH"} \subseteq KeysOf(list)

\* A default is added without a change to what is there.
LEMMA KeepsOthers ==
    ASSUME NEW K, NEW V, NEW env, IsEnvironment(env, K, V), NEW key \in K, NEW value \in V
    PROVE  LET list == AddToEnvList(env, key, value, FALSE) IN
           /\ IsEnvironment(list, K, V)
           /\ ToSet(env) \subseteq ToSet(list)
           /\ KeysOf(env) \cup {key} \subseteq KeysOf(list)
<1> DEFINE list == AddToEnvList(env, key, value, FALSE)
           new == [key |-> key, value |-> value]
<1>1. FALSE \in BOOLEAN
  OBVIOUS
<1>2. IsEnvironment(list, K, V) /\ Added(env, key, value, FALSE, list)
  BY <1>1, AddToEnvListAdds
<1> HIDE DEF list
<1>3. \A e : e \in ToSet(list) <=> e \in ToSet(env) \/ (e = new /\ key \notin KeysOf(env))
  BY <1>2 DEF Added
<1>4. \A k : k \in KeysOf(list) <=> \E e \in ToSet(list) : e.key = k
  BY <1>2, EnvironmentIs
<1>5. \A k : k \in KeysOf(env) <=> \E e \in ToSet(env) : e.key = k
  BY EnvironmentIs
<1>6. new.key = key
  OBVIOUS
<1> HIDE DEF new
<1>7. key \in KeysOf(list)
  BY <1>3, <1>4, <1>5, <1>6
<1>8. QED BY <1>2, <1>3, <1>4, <1>5, <1>7 DEF list

\* The four calls of EnsureDefaultEnviron.
LEMMA EnsuresDefaults ==
    ASSUME NEW K, NEW V, {"HOSTNAME", "TERM", "HOME", "PATH"} \subseteq K,
           NEW podname \in V, NEW home \in V, {"xterm", "defaultPath"} \subseteq V,
           NEW env, IsEnvironment(env, K, V)
    PROVE  LET list == EnsureDefaultEnviron(env, podname, home) IN
           IsEnvironment(list, K, V) /\ Ensured(env, podname, list)
<1> DEFINE hostname == AddToEnvList(env, "HOSTNAME", podname, TRUE)
           term == AddToEnvList(hostname, "TERM", "xterm", FALSE)
           homedir == AddToEnvList(term, "HOME", home, FALSE)
           path == AddToEnvList(homedir, "PATH", "defaultPath", FALSE)
           new == [key |-> "HOSTNAME", value |-> podname]
<1>1. EnsureDefaultEnviron(env, podname, home) = path
  BY DEF EnsureDefaultEnviron
<1>2. "HOSTNAME" \in K /\ "TERM" \in K /\ "HOME" \in K /\ "PATH" \in K /\ TRUE \in BOOLEAN
      /\ "xterm" \in V /\ "defaultPath" \in V
  OBVIOUS
<1>3. IsEnvironment(hostname, K, V) /\ Added(env, "HOSTNAME", podname, TRUE, hostname)
  BY <1>2, AddToEnvListAdds
<1> HIDE DEF hostname
<1>4. /\ IsEnvironment(term, K, V) /\ ToSet(hostname) \subseteq ToSet(term)
      /\ KeysOf(hostname) \cup {"TERM"} \subseteq KeysOf(term)
  BY <1>2, <1>3, KeepsOthers
<1> HIDE DEF term
<1>5. /\ IsEnvironment(homedir, K, V) /\ ToSet(term) \subseteq ToSet(homedir)
      /\ KeysOf(term) \cup {"HOME"} \subseteq KeysOf(homedir)
  BY <1>2, <1>4, KeepsOthers
<1> HIDE DEF homedir
<1>6. /\ IsEnvironment(path, K, V) /\ ToSet(homedir) \subseteq ToSet(path)
      /\ KeysOf(homedir) \cup {"PATH"} \subseteq KeysOf(path)
  BY <1>2, <1>5, KeepsOthers
<1> HIDE DEF path
<1>7. \A e : e \in ToSet(hostname) <=> (e \in ToSet(env) /\ e.key # "HOSTNAME") \/ e = new
  BY <1>3 DEF Added
<1>8. "HOSTNAME" \in KeysOf(hostname)
  <2>1. new \in ToSet(hostname) /\ new.key = "HOSTNAME"
    BY <1>7
  <2>2. \A k : k \in KeysOf(hostname) <=> \E e \in ToSet(hostname) : e.key = k
    BY <1>3, EnvironmentIs
  <2> HIDE DEF new
  <2>3. QED BY <2>1, <2>2
<1>9. Ensured(env, podname, path)
  <2>1. new \in ToSet(path) /\ \A e \in ToSet(env) : e.key # "HOSTNAME" => e \in ToSet(path)
    <3> HIDE DEF new
    <3>1. QED BY <1>4, <1>5, <1>6, <1>7
  <2>2. {"HOSTNAME", "TERM", "HOME", "PATH"} \subseteq KeysOf(path)
    BY <1>4, <1>5, <1>6, <1>8
  <2>3. QED BY <2>1, <2>2 DEF Ensured
<1>10. QED BY <1>1, <1>6, <1>9

\* With unique keys every entry is seen.
LEMMA EnvironShows ==
    ASSUME NEW K, NEW V, NEW env, IsEnvironment(env, K, V)
    PROVE  /\ DOMAIN Environ(env) = KeysOf(env)
           /\ \A e \in ToSet(env) : Environ(env)[e.key] = e.value
<1> DEFINE n == Len(env)
<1>1. /\ n \in Nat /\ DOMAIN env = 1 .. n
      /\ \A x, y \in ToSet(env) : x.key = y.key => x = y
      /\ \A k : k \in KeysOf(env) <=> \E e \in ToSet(env) : e.key = k
  BY EnvironmentIs
<1>2. ASSUME NEW e \in ToSet(env)
      PROVE  Environ(env)[e.key] = e.value
  <2> DEFINE I == {i \in 1 .. n : env[i].key = e.key}
             last == Max(I)
  <2>1. PICK i \in 1 .. n : env[i] = e
    BY <1>1 DEF ToSet
  <2>2. last \in I
    <3>1. I \subseteq 1 .. n /\ I # {}
      BY <2>1
    <3> HIDE DEF I, n
    <3>2. QED BY <1>1, <3>1, FirstAndLast
  <2>3. SelectLastInSeq(env, LAMBDA x : x.key = e.key) = last
    BY <2>1 DEF SelectLastInSeq
  <2>4. e.key \in KeysOf(env)
    BY <1>1
  <2>5. Environ(env)[e.key] = env[last].value
    BY <2>3, <2>4 DEF Environ
  <2> HIDE DEF last
  <2>6. env[last] \in ToSet(env) /\ env[last].key = e.key
    BY <1>1, <2>2 DEF ToSet
  <2>7. env[last] = e
    BY <1>1, <2>6
  <2>8. QED BY <2>5, <2>7
<1>3. DOMAIN Environ(env) = KeysOf(env)
  BY DEF Environ
<1>4. QED BY <1>2, <1>3

\* The last entry of a key is there if the key is.
LEMMA SaidIs ==
    ASSUME NEW K, NEW V, NEW env \in Seq(Settings(K, V)), NEW key
    PROVE  /\ key \notin KeysOf(env) => Said(env, key) = {}
           /\ key \in KeysOf(env) =>
                \E i \in 1 .. Len(env) :
                    /\ env[i].key = key /\ Said(env, key) = {env[i].value}
                    /\ \A j \in 1 .. Len(env) : j > i => env[j].key # key
<1> DEFINE n == Len(env)
           I == {i \in 1 .. n : env[i].key = key}
           J == {j \in DOMAIN env : /\ env[j].key = key
                                    /\ \A k \in DOMAIN env : k > j => env[k].key # key}
<1>1. n \in Nat /\ DOMAIN env = 1 .. n
  BY LenProperties
<1>2. Said(env, key) = {env[i].value : i \in J}
  BY DEF Said
<1>3. key \in KeysOf(env) <=> I # {}
  BY <1>1 DEF KeysOf
<1>4. CASE I = {}
  <2>1. J = {}
    BY <1>1, <1>4
  <2>2. QED BY <1>2, <1>3, <1>4, <2>1
<1>5. CASE I # {}
  <2> DEFINE i == Max(I)
  <2>1. i \in I /\ \A j \in I : j <= i
    <3>1. I \subseteq 1 .. n
      OBVIOUS
    <3> HIDE DEF I, n
    <3>2. QED BY <1>1, <1>5, <3>1, FirstAndLast
  <2> HIDE DEF i
  <2>2. i \in 1 .. n /\ env[i].key = key
    BY <2>1
  <2>3. \A j \in 1 .. n : j > i => env[j].key # key
    BY <1>1, <2>1
  <2>4. J = {i}
    <3>1. \A j \in 1 .. n : j # i => j > i \/ i > j
      BY <1>1, <2>2
    <3>2. QED BY <1>1, <2>2, <2>3, <3>1
  <2>5. Said(env, key) = {env[i].value}
    BY <1>2, <2>4
  <2>6. QED BY <1>3, <1>5, <2>2, <2>3, <2>5
<1>6. QED BY <1>4, <1>5

\* Secrets become values: what is left is a list of keys with values.
LEMMA MergeSecretsIs ==
    ASSUME NEW K, NEW V, NEW S, NEW secrets, secrets \in [DOMAIN secrets -> V],
           NEW env, env \in Seq([key : K, value : V, secret : S])
    PROVE  MergeSecrets(secrets, env) \in Seq(Settings(K, V))
<1> DEFINE n == Len(env)
           P == {i \in DOMAIN env : env[i].secret \subseteq DOMAIN secrets}
           at == InOrder(P)
           m == Cardinality(P)
           usable == Pick(env, P)
           Value(e) == Override(e.value, {secrets[s] : s \in e.secret})
<1>1. /\ n \in Nat /\ DOMAIN env = 1 .. n
      /\ \A i \in 1 .. n : env[i].key \in K /\ env[i].value \in V
  <2> DEFINE E == [key : K, value : V, secret : S]
  <2>1. \A e \in E : e.key \in K /\ e.value \in V
    OBVIOUS
  <2> HIDE DEF E
  <2>2. env \in Seq(E)
    BY DEF E
  <2>3. /\ Len(env) \in Nat /\ DOMAIN env = 1 .. Len(env)
        /\ \A i \in 1 .. Len(env) : env[i] \in E
    BY <2>2, LenProperties, ElementOfSeq
  <2>4. QED BY <2>1, <2>3
<1>2. m \in Nat /\ Enumerates(at, m, P)
  <2>1. P \subseteq 1 .. n
    BY <1>1
  <2> HIDE DEF P, n
  <2>2. QED BY <1>1, <2>1, InOrderEnumerates
<1>3. usable = [k \in DOMAIN at |-> env[at[k]]]
  BY DEF Pick
<1>4. \A i \in P : i \in 1 .. n /\ env[i].secret \subseteq DOMAIN secrets
  BY <1>1
<1>5. MergeSecrets(secrets, env) =
        [i \in DOMAIN usable |-> [key |-> usable[i].key, value |-> Value(usable[i])]]
  BY DEF MergeSecrets
<1>6. \A i \in P : Value(env[i]) \in V
  <2>1. ASSUME NEW i \in P
        PROVE  Value(env[i]) \in V
    <3> DEFINE others == {secrets[s] : s \in env[i].secret}
    <3>1. others \subseteq V
      BY <1>4
    <3>2. env[i].value \in V
      BY <1>1, <1>4
    <3> HIDE DEF others
    <3>3. Override(env[i].value, others) \in V
      BY <3>1, <3>2 DEF Override
    <3>4. QED BY <3>3 DEF others
  <2>2. QED BY <2>1
<1> HIDE DEF P, at, m, usable, Value, n
<1>7. /\ DOMAIN usable = 1 .. m
      /\ \A k \in 1 .. m : at[k] \in P /\ usable[k] = env[at[k]]
  BY <1>2, <1>3 DEF Enumerates
<1>8. \A k \in 1 .. m : [key |-> usable[k].key, value |-> Value(usable[k])] \in Settings(K, V)
  <2>1. \A k \in 1 .. m : usable[k].key \in K /\ Value(usable[k]) \in V
    BY <1>1, <1>4, <1>6, <1>7
  <2>2. QED BY <2>1 DEF Settings
<1>9. QED BY <1>2, <1>5, <1>7, <1>8

\* What the command sees under a key.
Shows(image, spec, podname, seen) ==
    /\ \A key \in KeysOf(spec) \cup KeysOf(image) :
        {seen[key]} = Preferred(<<{podname} \cap {x \in {podname} : key = "HOSTNAME"},
                                  Said(spec, key), Said(image, key)>>)
    /\ {"HOSTNAME", "TERM", "HOME", "PATH"} \subseteq DOMAIN seen

\* From the image's and the unit's environment to what the command sees.
LEMMA CommandSees ==
    ASSUME NEW K, NEW V, {"HOSTNAME", "TERM", "HOME", "PATH"} \subseteq K,
           NEW podname \in V, NEW home \in V, {"xterm", "defaultPath"} \subseteq V,
           NEW image, IsEnvironment(image, K, V), NEW spec \in Seq(Settings(K, V))
    PROVE  Shows(image, spec, podname,
                 Environ(EnsureDefaultEnviron(HelperEnv(image, spec), podname, home)))
<1> DEFINE env == HelperEnv(image, spec)
           list == EnsureDefaultEnviron(env, podname, home)
           seen == Environ(list)
           n == Len(spec)
<1>1. IsEnvironment(env, K, V) /\ Merged(image, spec, n, env)
  BY HelperEnvMerges
<1> HIDE DEF env
<1>2. IsEnvironment(list, K, V) /\ Ensured(env, podname, list)
  BY <1>1, EnsuresDefaults
<1> HIDE DEF list
<1>3. DOMAIN seen = KeysOf(list) /\ \A e \in ToSet(list) : seen[e.key] = e.value
  BY <1>2, EnvironShows
<1> HIDE DEF seen
<1>4. ASSUME NEW key \in KeysOf(spec) \cup KeysOf(image)
      PROVE  {seen[key]} = Preferred(<<{podname} \cap {x \in {podname} : key = "HOSTNAME"},
                                       Said(spec, key), Said(image, key)>>)
  <2> DEFINE host == {podname} \cap {x \in {podname} : key = "HOSTNAME"}
  <2>1. Preferred(<<host, Said(spec, key), Said(image, key)>>)
          = IF host # {} THEN host
            ELSE IF Said(spec, key) # {} THEN Said(spec, key) ELSE Said(image, key)
    <3> HIDE DEF host
    <3>1. QED BY PreferredIs
  <2>2. CASE key = "HOSTNAME"
    <3>1. host = {podname}
      BY <2>2
    <3> DEFINE new == [key |-> "HOSTNAME", value |-> podname]
    <3>2. new \in ToSet(list) /\ new.key = key /\ new.value = podname
      BY <1>2, <2>2 DEF Ensured
    <3> HIDE DEF new
    <3>3. seen[key] = podname
      BY <1>3, <3>2
    <3>4. QED BY <2>1, <3>1, <3>3
  <2>3. CASE key # "HOSTNAME"
    <3>1. host = {}
      BY <2>3
    <3>2. \A e \in ToSet(env) : e.key = key => seen[key] = e.value
      BY <1>2, <1>3, <2>3 DEF Ensured
    <3>3. CASE key \in KeysOf(spec)
      <4>1. PICK i \in 1 .. n :
              /\ spec[i].key = key /\ Said(spec, key) = {spec[i].value}
              /\ \A j \in 1 .. n : j > i => spec[j].key # key
        BY <3>3, SaidIs
      <4>2. spec[i] \in ToSet(env)
        BY <1>1, <4>1 DEF Merged
      <4>3. QED BY <2>1, <3>1, <3>2, <4>1, <4>2
    <3>4. CASE key \notin KeysOf(spec)
      <4>1. Said(spec, key) = {} /\ key \in KeysOf(image)
        BY <3>4, SaidIs
      <4>2. image \in Seq(Settings(K, V))
        BY DEF IsEnvironment
      <4>3. PICK i \in 1 .. Len(image) : image[i].key = key /\ Said(image, key) = {image[i].value}
        BY <4>1, <4>2, SaidIs
      <4>4. image[i] \in ToSet(image)
        <5>1. DOMAIN image = 1 .. Len(image)
          BY <4>2, LenProperties
        <5>2. QED BY <5>1 DEF ToSet
      <4>5. \A j \in 1 .. n : spec[j].key # key
        <5>1. DOMAIN spec = 1 .. n
          BY LenProperties
        <5>2. QED BY <3>4, <5>1 DEF KeysOf
      <4>6. image[i] \in ToSet(env)
        BY <1>1, <4>3, <4>4, <4>5 DEF Merged
      <4>7. QED BY <2>1, <3>1, <3>2, <4>1, <4>3, <4>6
    <3>5. QED BY <3>3, <3>4
  <2>4. QED BY <2>2, <2>3
<1>5. {"HOSTNAME", "TERM", "HOME", "PATH"} \subseteq DOMAIN seen
  BY <1>2, <1>3 DEF Ensured
<1>6. Shows(image, spec, podname, seen)
  BY <1>4, <1>5 DEF Shows
<1>7. QED BY <1>6 DEF seen, list, env

\* Whether the image's arguments are those of the command.
RunsArguments(image, command, args, argv) ==
    image.cmd # <<>> /\ ToSet(image.cmd) \cap ToSet(command \o args) = {}
      => (IsSuffix(image.cmd, argv) <=> command = <<>> /\ args = <<>>)

\* The last word of the command line tells whose it is.
LEMMA CreateCommandFollows ==
    ASSUME NEW S, NEW image, NEW command \in Seq(S), NEW args \in Seq(S),
           image.entrypoint \in Seq(S), image.cmd \in Seq(S)
    PROVE  RunsArguments(image, command, args, CreateCommand(image, command, args))
<1> DEFINE cmd == image.cmd
           argv == CreateCommand(image, command, args)
<1>1. SUFFICES ASSUME cmd # <<>>, ToSet(cmd) \cap ToSet(command \o args) = {}
               PROVE  IsSuffix(cmd, argv) <=> command = <<>> /\ args = <<>>
  BY DEF RunsArguments
<1>2. /\ cmd \in Seq(S) /\ Len(cmd) \in Nat /\ DOMAIN cmd = 1 .. Len(cmd) /\ Len(cmd) # 0
      /\ cmd[Len(cmd)] \in ToSet(cmd)
  <2>1. cmd \in Seq(S) /\ Len(cmd) \in Nat /\ DOMAIN cmd = 1 .. Len(cmd)
    BY LenProperties
  <2>2. Len(cmd) # 0
    BY <1>1, EmptySeq
  <2> HIDE DEF cmd
  <2>3. Len(cmd) \in DOMAIN cmd
    BY <2>1, <2>2
  <2>4. QED BY <2>1, <2>2, <2>3 DEF ToSet
<1> DEFINE both == command \o args
<1>3. CASE command = <<>> /\ args = <<>>
  <2>1. argv = image.entrypoint \o cmd
    BY <1>3 DEF CreateCommand
  <2> DEFINE a == image.entrypoint
  <2> HIDE DEF cmd
  <2>2. /\ a \o cmd \in Seq(S) /\ Len(a \o cmd) = Len(a) + Len(cmd) /\ Len(a) \in Nat
        /\ \A i \in 1 .. Len(cmd) : (a \o cmd)[Len(a) + i] = cmd[i]
    BY <1>2, Concatenated
  <2>3. \A i \in 1 .. Len(cmd) : /\ Len(cmd) - i + 1 \in 1 .. Len(cmd)
                                 /\ Len(a) + Len(cmd) - i + 1 = Len(a) + (Len(cmd) - i + 1)
    <3>1. Len(cmd) \in Nat /\ Len(a) \in Nat
      BY <1>2, <2>2
    <3> DEFINE m == Len(cmd)
               k == Len(a)
    <3> HIDE DEF m, k
    <3>2. m \in Nat /\ k \in Nat
      BY <3>1 DEF m, k
    <3>3. \A i \in 1 .. m : m - i + 1 \in 1 .. m
      BY <3>2
    <3>4. \A i \in 1 .. m : k + m - i + 1 = k + (m - i + 1)
      BY <3>2
    <3>5. QED BY <3>3, <3>4 DEF m, k
  <2>4. /\ Len(cmd) <= Len(a \o cmd)
        /\ \A i \in 1 .. Len(cmd) : cmd[Len(cmd) - i + 1] = (a \o cmd)[Len(a \o cmd) - i + 1]
    BY <1>2, <2>2, <2>3
  <2>5. IsSuffix(cmd, a \o cmd)
    BY <1>2, <2>2, <2>4, SuffixIs
  <2>6. QED BY <1>3, <2>1, <2>5
<1>4. CASE ~(command = <<>> /\ args = <<>>)
  <2> DEFINE last == argv[Len(argv)]
  <2>1. argv \in Seq(S) /\ Len(argv) \in Nat /\ last \in ToSet(both)
    <3>1. /\ both \in Seq(S) /\ Len(both) = Len(command) + Len(args)
          /\ Len(command) \in Nat /\ Len(args) \in Nat
          /\ DOMAIN both = 1 .. Len(both)
          /\ ToSet(both) = ToSet(command) \cup ToSet(args)
      BY Concatenated
    <3>2. CASE command # <<>>
      <4>1. argv = both
        BY <3>2 DEF CreateCommand
      <4>2. Len(command) # 0
        BY <3>2, EmptySeq
      <4> HIDE DEF both, argv
      <4>3. Len(both) \in Nat /\ Len(both) # 0
        BY <3>1, <4>2
      <4>4. Len(both) \in DOMAIN both
        BY <3>1, <4>3
      <4>5. both[Len(both)] \in ToSet(both)
        BY <4>4 DEF ToSet
      <4>6. QED BY <3>1, <4>1, <4>3, <4>5
    <3>3. CASE command = <<>>
      <4>1. args # <<>>
        BY <1>4, <3>3
      <4> DEFINE a == image.entrypoint
      <4>2. argv = a \o args
        BY <3>3, <4>1 DEF CreateCommand
      <4>3. /\ a \o args \in Seq(S) /\ Len(a \o args) = Len(a) + Len(args) /\ Len(a) \in Nat
            /\ \A i \in 1 .. Len(args) : (a \o args)[Len(a) + i] = args[i]
            /\ DOMAIN args = 1 .. Len(args)
        BY Concatenated
      <4>4. Len(args) # 0
        BY <4>1, EmptySeq
      <4>5. Len(args) \in 1 .. Len(args)
        BY <3>1, <4>4
      <4>6. last = args[Len(args)]
        BY <4>2, <4>3, <4>5
      <4>7. last \in ToSet(args)
        BY <4>3, <4>5, <4>6 DEF ToSet
      <4>8. Len(argv) \in Nat
        <5>1. Len(argv) = Len(a) + Len(args)
          BY <4>2, <4>3
        <5> HIDE DEF argv, a
        <5>2. QED BY <3>1, <4>3, <5>1
      <4> HIDE DEF both, last
      <4>9. last \in ToSet(both)
        BY <3>1, <4>7
      <4>10. QED BY <4>2, <4>3, <4>8, <4>9
    <3>4. QED BY <3>2, <3>3
  <2> HIDE DEF cmd, argv
  <2>2. ~IsSuffix(cmd, argv)
    <3>1. SUFFICES ASSUME IsSuffix(cmd, argv) PROVE FALSE
      OBVIOUS
    <3>2. \A i \in 1 .. Len(cmd) : cmd[Len(cmd) - i + 1] = argv[Len(argv) - i + 1]
      BY <1>2, <2>1, <3>1, SuffixIs
    <3>3. /\ 1 \in 1 .. Len(cmd) /\ Len(cmd) - 1 + 1 = Len(cmd)
          /\ Len(argv) - 1 + 1 = Len(argv)
      BY <1>2, <2>1
    <3>4. cmd[Len(cmd)] = last
      BY <3>2, <3>3
    <3>5. QED BY <1>1, <1>2, <2>1, <3>4
  <2>3. QED BY <1>4, <2>2
<1>5. QED BY <1>3, <1>4

-------------------------------------------------------------------------------
(* The theorems.                                                           *)

\* What a task is to give.
Value(t) ==
    CASE t.op = "killTree" -> KillProcessTree(t.pid, t.processes)
      [] t.op = "killChildren" -> KillChildren(t.pid, t.adopter, t.orphans, t.processes)
      [] t.op = "tail" -> TailFile(t.file, t.lines, BytesAsked(t.lines, t.bytes))
      [] t.op = "deploy" -> DeployPackage(t.entries, t.files)
      [] t.op = "resize" -> ResizeVolume(t.partitioned, t.growpart, t.resize2fs)
      [] t.op = "user" ->
            [command |-> GetUser("os", t.files, t.image, t.pod, t.unit),
             session |-> GetUser("passwd", t.files, t.image, t.pod, t.unit)]
      [] t.op = "command" ->
            [argv |-> CreateCommand(t.image, t.command, t.args),
             env |-> Environ(EnsureDefaultEnviron(
                        HelperEnv(t.image.env, MergeSecrets(t.secrets, t.env)), "pod", "home"))]
      [] t.op = "caps" -> {MapCapabilities(c) : c \in TweakCapabilities(t.basics, t.adds, t.drops)}
      [] t.op = "convert" ->
            [ports |-> UnitPortsToPodmanPortMapping(t.ports),
             volume |-> MilpaToK8sVolume(t.volume, t.packages),
             state |-> ContainerStateToUnit(t.state)]

\* A result is that of the task's own computation, and none comes from a panic.
Computed ==
    /\ task \in Tasks
    /\ result \subseteq {Value(task)}
    /\ task.op = "tail" /\ TailPanics(task.lines, task.bytes) => result = {}

\* Every action finishes the task it is for.
LEMMA ComputedStep ==
    ASSUME Computed, [Next]_vars
    PROVE  Computed'
<1>1. CASE UNCHANGED vars
  BY <1>1 DEF Computed, vars
<1>2. ASSUME NEW op, NEW value, Finish(op, value), value = Value(task),
             op = "tail" => ~TailPanics(task.lines, task.bytes)
      PROVE  Computed'
  BY <1>2 DEF Computed, Finish
<1>3. ASSUME NEW op, NEW value, Finish(op, value)
      PROVE  task.op = op
  BY <1>3 DEF Finish
<1>4. CASE KillTree
  BY <1>2, <1>3, <1>4 DEF KillTree, Value
<1>5. CASE KillDaemonsChildren
  BY <1>2, <1>3, <1>5 DEF KillDaemonsChildren, Value
<1>6. CASE FileHandler
  BY <1>2, <1>3, <1>6 DEF FileHandler, Value
<1>7. CASE DeployHandler
  BY <1>2, <1>3, <1>7 DEF DeployHandler, Value
<1>8. CASE ResizevolumeHandler
  BY <1>2, <1>3, <1>8 DEF ResizevolumeHandler, Value
<1>9. CASE LookUpUsers
  BY <1>2, <1>3, <1>9 DEF LookUpUsers, Value
<1>10. CASE PrepareCommand
  BY <1>2, <1>3, <1>10 DEF PrepareCommand, Value
<1>11. CASE SetCapabilities
  BY <1>2, <1>3, <1>11 DEF SetCapabilities, Value
<1>12. CASE ConvertUnit
  BY <1>2, <1>3, <1>12 DEF ConvertUnit, Value
<1>13. QED BY <1>1, <1>4, <1>5, <1>6, <1>7, <1>8, <1>9, <1>10, <1>11, <1>12 DEF Next

\* Whatever is returned was computed from the task: the invariant from which the
\* properties follow by what the computations do.
THEOREM ResultsAreComputed == Spec => []Computed
<1>1. Init => Computed
  BY DEF Init, Computed
<1>2. QED BY <1>1, ComputedStep, PTL DEF Spec

\* What Computed says of the result of one operation.
LEMMA ResultsOf ==
    ASSUME Computed, NEW op, NEW value \in Results(op)
    PROVE  /\ task \in Tasks /\ task.op = op /\ value = Value(task)
           /\ op = "tail" => ~TailPanics(task.lines, task.bytes)
  BY DEF Computed, Results

-------------------------------------------------------------------------------
\* killProcessTree kills the process and everything below it, children first and
\* nothing twice; KillChildren kills only descendants, all children, and all
\* descendants when they come in order and none is orphaned before its turn, for
\* listings of /proc of any length.
THEOREM KillersAlwaysReachTheTree == Spec => []KillersReachTheTree
<1>1. ASSUME Computed
      PROVE  KillersReachTheTree
  <2> DEFINE ps == task.processes
  <2>1. ASSUME NEW order \in Results("killTree")
        PROVE  /\ ToSet(order) = Tree(task.pid, ps)
               /\ IsForest(ps) =>
                    /\ IsInjective(order)
                    /\ \A i \in DOMAIN ps :
                        \A c \in Positions(ps[i].pid, order),
                           p \in Positions(ps[i].ppid, order) : c < p
    <3>1. task \in Tasks /\ task.op = "killTree" /\ order = Value(task)
      BY <1>1, <2>1, ResultsOf
    <3>2. order = KillProcessTree(task.pid, ps)
      BY <3>1 DEF Value
    <3>3. Listing(ps)
      BY <3>1, TasksAssumption DEF Listing
    <3> HIDE DEF ps
    <3>4. /\ ToSet(order) = Tree(task.pid, ps)
          /\ IsForest(ps) => Once(order) /\ Sorted(order, ChildFirst(ps))
      BY <3>2, <3>3, KillProcessTreeReaches
    <3>5. ASSUME Sorted(order, ChildFirst(ps)), NEW i \in DOMAIN ps,
                 NEW c \in Positions(ps[i].pid, order), NEW p \in Positions(ps[i].ppid, order)
          PROVE  c < p
      <4>1. /\ c \in DOMAIN order /\ p \in DOMAIN order
            /\ <<order[c], order[p]>> = <<ps[i].pid, ps[i].ppid>>
        BY DEF Positions
      <4>2. <<ps[i].pid, ps[i].ppid>> \in ChildFirst(ps)
        BY DEF ChildFirst
      <4>3. QED BY <3>5, <4>1, <4>2 DEF Sorted
    <3>6. QED BY <3>4, <3>5 DEF Once, IsInjective
  <2>2. ASSUME NEW killed \in Results("killChildren")
        PROVE  LET below == Tree(task.pid, ps) \ {task.pid} IN
               /\ killed \subseteq below
               /\ \A i \in DOMAIN ps : ps[i].ppid = task.pid /\ ps[i].pid # task.pid
                                        => ps[i].pid \in killed
               /\ task.orphans = {} \/ task.adopter = task.pid
                    => ((\A i \in DOMAIN ps : ps[i].ppid < ps[i].pid) => killed = below)
    <3>1. task \in Tasks /\ task.op = "killChildren" /\ killed = Value(task)
      BY <1>1, <2>2, ResultsOf
    <3>2. killed = KillChildren(task.pid, task.adopter, task.orphans, ps)
      BY <3>1 DEF Value
    <3>3. Listing(ps)
      BY <3>1, TasksAssumption DEF Listing
    <3> HIDE DEF ps
    <3>4. QED BY <3>2, <3>3, KillChildrenFindsDescendants
  <2>3. QED BY <2>1, <2>2 DEF KillersReachTheTree
<1>2. QED BY <1>1, ResultsAreComputed, PTL

\* TailFile returns the end of the file, within the limit of lines and, up to a part
\* of a chunk, that of bytes; of a package with distinct names all that can be written
\* is there, and all its links if the deploy succeeds: for files, archives and limits
\* of any size, negative ones included, and all sizes of chunks and buffers.
THEOREM FilesAlwaysArriveWhole == Spec => []FilesArriveWhole
<1>1. ASSUME Computed
      PROVE  FilesArriveWhole
  <2>1. ASSUME NEW text \in Results("tail")
        PROVE  TailArrives(text, task.file, task.lines, BytesAsked(task.lines, task.bytes))
    <3>1. task \in Tasks /\ task.op = "tail" /\ text = Value(task)
          /\ ~TailPanics(task.lines, task.bytes)
      BY <1>1, <2>1, ResultsOf
    <3>2. text = TailFile(task.file, task.lines, BytesAsked(task.lines, task.bytes))
      BY <3>1 DEF Value
    <3>3. task.file \in Seq({"x", "newline"}) /\ task.lines \in Int /\ task.bytes \in Int
      BY <3>1, TasksAssumption
    <3>4. /\ BytesAsked(task.lines, task.bytes) \in Int
          /\ ~TailPanics(task.lines, BytesAsked(task.lines, task.bytes))
      BY <3>1, <3>3, SizesAssumption DEF BytesAsked, TailPanics
    <3>5. QED BY <3>2, <3>3, <3>4, TailFileArrives
  <2>2. ASSUME NEW deployed \in Results("deploy")
        PROVE  DeployArrives(deployed, task.entries, task.files)
    <3>1. task \in Tasks /\ task.op = "deploy" /\ deployed = Value(task)
      BY <1>1, <2>2, ResultsOf
    <3>2. deployed = DeployPackage(task.entries, task.files)
      BY <3>1 DEF Value
    <3>3. Archive(task.entries, task.files, DOMAIN task.files)
      BY <3>1, TasksAssumption DEF Archive
    <3>4. QED BY <3>2, <3>3, DeployPackageArrives
  <2>3. QED BY <2>1, <2>2
        DEF FilesArriveWhole, TailArrives, DeployArrives, Deployable, Like, KindsOf
<1>2. QED BY <1>1, ResultsAreComputed, PTL

-------------------------------------------------------------------------------
\* A unit's command and the sessions in it run as the user that is configured.
LEMMA UsersFollow ==
    ASSUME Computed, NEW users \in Results("user"),
           \A spec \in task.image : Unambiguous(task.files, spec)
    PROVE  UsersAsConfigured(users)
<1>1. task \in Tasks /\ task.op = "user" /\ users = Value(task)
  BY ResultsOf
<1>2. /\ users.command = GetUser("os", task.files, task.image, task.pod, task.unit)
      /\ users.session = GetUser("passwd", task.files, task.image, task.pod, task.unit)
  BY <1>1 DEF Value
<1>3. /\ task.files.users \in Seq([name : STRING, uid : Nat, gid : Nat, home : STRING])
      /\ task.files.groups \in Seq([name : STRING, gid : Nat])
      /\ AtMostOne(task.pod.user) /\ AtMostOne(task.pod.group)
      /\ AtMostOne(task.unit.user) /\ AtMostOne(task.unit.group)
  BY <1>1, TasksAssumption
<1> DEFINE files == task.files
           image == task.image
           pod == task.pod
           unit == task.unit
           S == [name : STRING, uid : Nat, gid : Nat, home : STRING]
           R == [name : STRING, gid : Nat]
<1>4. files.users \in Seq(S) /\ files.groups \in Seq(R)
      /\ \A spec \in image : Unambiguous(files, spec)
  BY <1>3
<1> HIDE DEF files, image, S, R
<1>5. GetUser("os", files, image, pod, unit) = GetUser("passwd", files, image, pod, unit)
  <2> HIDE DEF pod, unit
  <2>1. QED BY <1>4, BothWaysLookUp
<1>6. users.session = users.command
  BY <1>2, <1>5 DEF files, image
<1>7. /\ AtMostOne(pod.user) /\ AtMostOne(pod.group)
      /\ AtMostOne(unit.user) /\ AtMostOne(unit.group)
  BY <1>3
<1> HIDE DEF pod, unit
<1>8. \A u \in GetUser("os", files, image, pod, unit) :
        /\ Preferred(<<unit.user, pod.user, {u.uid}>>) = {u.uid}
        /\ Preferred(<<unit.group, pod.group, {u.gid}>>) = {u.gid}
  BY <1>7, GetUserFollows
<1>9. users.command = GetUser("os", files, image, pod, unit)
  BY <1>2 DEF files, image, pod, unit
<1>10. \A u \in users.command :
        /\ Preferred(<<unit.user, pod.user, {u.uid}>>) = {u.uid}
        /\ Preferred(<<unit.group, pod.group, {u.gid}>>) = {u.gid}
  BY <1>8, <1>9
<1>11. QED BY <1>6, <1>10 DEF UsersAsConfigured, pod, unit

\* The words that the model uses (the provers know of no string that it is in
\* STRING) and all others.
Strings ==
    STRING \cup {"HOSTNAME", "TERM", "HOME", "PATH", "pod", "home", "xterm", "defaultPath"}

\* A sequence over a set is one over every larger set.
LEMMA SequencesGrow ==
    ASSUME NEW S, NEW T, S \subseteq T, NEW s \in Seq(S)
    PROVE  s \in Seq(T)
<1>1. /\ Len(s) \in Nat /\ s \in [1 .. Len(s) -> S]
  BY LenProperties
<1>2. s \in [1 .. Len(s) -> T]
  BY <1>1
<1>3. QED BY <1>1, <1>2

\* A unit's command sees the environment and gets the words that are configured.
LEMMA CommandFollows ==
    ASSUME Computed, NEW command \in Results("command"),
           \A i, j \in DOMAIN task.image.env :
             task.image.env[i].key = task.image.env[j].key => i = j
    PROVE  CommandAsConfigured(command)
<1> DEFINE spec == MergeSecrets(task.secrets, task.env)
           image == task.image.env
           env == HelperEnv(image, spec)
<1>1. task \in Tasks /\ task.op = "command" /\ command = Value(task)
  BY ResultsOf
<1>2. /\ command.argv = CreateCommand(task.image, task.command, task.args)
      /\ command.env = Environ(EnsureDefaultEnviron(env, "pod", "home"))
  BY <1>1 DEF Value
<1>3. /\ task.secrets \in [DOMAIN task.secrets -> STRING]
      /\ task.env \in Seq([key : STRING, value : STRING, secret : SUBSET STRING])
      /\ image \in Seq([key : STRING, value : STRING])
      /\ task.image.entrypoint \in Seq(STRING) /\ task.image.cmd \in Seq(STRING)
      /\ task.command \in Seq(STRING) /\ task.args \in Seq(STRING)
  BY <1>1, TasksAssumption
<1>4. spec \in Seq(Settings(Strings, Strings))
  <2> DEFINE secrets == task.secrets
             list == task.env
             N == SUBSET STRING
  <2>1. secrets \in [DOMAIN secrets -> Strings]
    BY <1>3 DEF Strings
  <2>2. list \in Seq([key : Strings, value : Strings, secret : N])
    <3>1. [key : STRING, value : STRING, secret : N]
            \subseteq [key : Strings, value : Strings, secret : N]
      BY DEF Strings
    <3>2. list \in Seq([key : STRING, value : STRING, secret : N])
      BY <1>3
    <3> HIDE DEF list, N
    <3>3. QED BY <3>1, <3>2, SequencesGrow
  <2> HIDE DEF secrets, list, N
  <2>3. MergeSecrets(secrets, list) \in Seq(Settings(Strings, Strings))
    BY <2>1, <2>2, MergeSecretsIs
  <2>4. QED BY <2>3 DEF secrets, list
<1>5. IsEnvironment(image, Strings, Strings)
  <2>1. [key : STRING, value : STRING] \subseteq Settings(Strings, Strings)
    BY DEF Strings, Settings
  <2>2. image \in Seq(Settings(Strings, Strings))
    <3> HIDE DEF image
    <3>1. QED BY <1>3, <2>1, SequencesGrow
  <2>3. QED BY <2>2 DEF IsEnvironment, UniqueKeys
<1>6. /\ {"HOSTNAME", "TERM", "HOME", "PATH"} \subseteq Strings
      /\ "pod" \in Strings /\ "home" \in Strings /\ {"xterm", "defaultPath"} \subseteq Strings
  BY DEF Strings
<1> HIDE DEF spec, image
<1>7. Shows(image, spec, "pod", command.env)
  BY <1>2, <1>4, <1>5, <1>6, CommandSees
<1>8. RunsArguments(task.image, task.command, task.args, command.argv)
  <2> DEFINE i == task.image
             c == task.command
             a == task.args
  <2>1. /\ i.entrypoint \in Seq(STRING) /\ i.cmd \in Seq(STRING)
        /\ c \in Seq(STRING) /\ a \in Seq(STRING)
    BY <1>3
  <2> HIDE DEF i, c, a
  <2>2. RunsArguments(i, c, a, CreateCommand(i, c, a))
    BY <2>1, CreateCommandFollows
  <2>3. QED BY <1>2, <2>2 DEF i, c, a
<1>9. QED BY <1>7, <1>8 DEF CommandAsConfigured, Shows, RunsArguments, spec, image

\* A unit has the capabilities that are configured.
LEMMA CapabilitiesAreFollowed ==
    ASSUME Computed, NEW granted \in Results("caps")
    PROVE  CapabilitiesAsConfigured(granted)
<1>1. task.op = "caps" /\ granted = Value(task)
  BY ResultsOf
<1>2. granted = {MapCapabilities(c) : c \in TweakCapabilities(task.basics, task.adds, task.drops)}
  BY <1>1 DEF Value
<1>3. CapabilitiesFollow(task.basics, task.adds, task.drops, granted)
  BY <1>2, TweakCapabilitiesFollows
<1>4. QED BY <1>3 DEF CapabilitiesFollow, CapabilitiesAsConfigured

\* A container has the ports, volumes and state that are configured.
LEMMA ContainerFollows ==
    ASSUME Computed, NEW converted \in Results("convert")
    PROVE  ContainerAsConfigured(converted)
<1>1. task \in Tasks /\ task.op = "convert" /\ converted = Value(task)
  BY ResultsOf
<1>2. /\ converted.ports = UnitPortsToPodmanPortMapping(task.ports)
      /\ converted.volume = MilpaToK8sVolume(task.volume, task.packages)
      /\ converted.state = ContainerStateToUnit(task.state)
  BY <1>1 DEF Value
<1>3. PortsArrive(task.ports, converted.ports)
  BY <1>2, PortSpanAssumption, PortsKeepTheirNumbers
<1>4. VolumeArrives(task.volume, task.packages, converted.volume)
  <2>1. /\ task.volume.fields \subseteq ToSet(VolumeOrder)
        /\ \A i \in DOMAIN task.volume.sources : task.volume.sources[i] \subseteq ToSet(SourceOrder)
    BY <1>1, TasksAssumption
  <2>2. QED BY <1>2, <2>1, VolumesKeepTheirKind
<1>5. converted.state = "running" <=> task.state = "running"
  BY <1>2 DEF ContainerStateToUnit
<1>6. QED BY <1>3, <1>4, <1>5 DEF ContainerAsConfigured, PortsArrive, VolumeArrives

\* Environments, command lines, capabilities and what Podman gets are as unit, pod
\* and image say, for all settings, and so are users, for all files that name what
\* the image asks for once and hold no user with the number of its group (LookupUser,
\* AddToEnvList, EnsureDefaultEnviron, CreateCommand, TweakCapabilities, pkg/convert).
THEOREM UnitsAlwaysRunAsConfigured == Spec => []UnitsRunAsConfigured
<1>1. ASSUME Computed
      PROVE  UnitsRunAsConfigured
  <2>1. /\ \A users \in Results("user") :
             (\A spec \in task.image : Unambiguous(task.files, spec)) => UsersAsConfigured(users)
        /\ \A command \in Results("command") :
             (\A i, j \in DOMAIN task.image.env :
                 task.image.env[i].key = task.image.env[j].key => i = j)
               => CommandAsConfigured(command)
    BY <1>1, UsersFollow, CommandFollows
  <2>2. /\ \A granted \in Results("caps") : CapabilitiesAsConfigured(granted)
        /\ \A converted \in Results("convert") : ContainerAsConfigured(converted)
    BY <1>1, CapabilitiesAreFollowed, ContainerFollows
  <2>3. QED BY <2>1, <2>2 DEF UnitsRunAsConfigured
<1>2. QED BY <1>1, ResultsAreComputed, PTL

===============================================================================
