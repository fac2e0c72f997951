---------------------------- MODULE RuntimesProofs ----------------------------
(***************************************************************************)
(* Proofs about Runtimes: the types of its state, that the daemon only     *)
(* dies of units nobody has a machine of, that what the controller         *)
(* believes to be deployed is, and that no volume is emptied.              *)
(***************************************************************************)
EXTENDS Runtimes, FiniteSetTheorems, SequenceTheorems, TLAPS

-------------------------------------------------------------------------------
(* Numbers and positions.                                                  *)

\* A set of natural numbers has a least element: induction, without an operator
\* as a parameter.
LEMMA Least ==
    ASSUME NEW T, T \subseteq Nat, T # {}
    PROVE  \E x \in T : \A y \in T : x <= y
<1> DEFINE R == OpToRel(<, Nat)
<1>1. IsWellFoundedOn(R, Nat)
  BY NatLessThanWellFounded
<1>2. \A x, y \in Nat : x < y => <<x, y>> \in R
  BY DEF OpToRel
<1> HIDE DEF R
<1>3. PICK x \in T : \A y \in T : <<y, x>> \notin R
  BY <1>1, WFMin
<1>4. ASSUME NEW y \in T
      PROVE  x <= y
  <2>1. x \in Nat /\ y \in Nat /\ <<y, x>> \notin R
    BY <1>3
  <2>2. ~(y < x)
    BY <1>2, <2>1
  <2>3. QED BY <2>1, <2>2
<1>5. QED BY <1>4

\* A sequence of all the positions in S, in order.
Enumerates(at, n, S) ==
    /\ at \in [1 .. n -> S]
    /\ \A j, k \in 1 .. n : j < k => at[j] < at[k]
    /\ \A p \in S : \E k \in 1 .. n : at[k] = p

Rank(S, p) == Cardinality({q \in S : q <= p})

\* The ranks of n numbers are 1 .. n: no two are equal, so none is left out.
LEMMA Ranks ==
    ASSUME NEW S \in SUBSET Nat, IsFiniteSet(S)
    PROVE  /\ Cardinality(S) \in Nat
           /\ \A p \in S : Rank(S, p) \in 1 .. Cardinality(S)
           /\ \A p, q \in S : Rank(S, p) < Rank(S, q) <=> p < q
           /\ \A k \in 1 .. Cardinality(S) : \E p \in S : Rank(S, p) = k
<1> DEFINE n == Cardinality(S)
           UpTo(p) == {q \in S : q <= p}
<1>1. n \in Nat
  BY FS_CardinalityType
<1>2. ASSUME NEW p \in S
      PROVE  /\ IsFiniteSet(UpTo(p)) /\ Rank(S, p) \in 1 .. n
  <2>1. IsFiniteSet(UpTo(p)) /\ Cardinality(UpTo(p)) <= n
    BY FS_Subset
  <2>2. Cardinality(UpTo(p)) \in Nat
    BY <2>1, FS_CardinalityType
  <2>3. p \in UpTo(p)
    OBVIOUS
  <2>4. Cardinality(UpTo(p)) # 0
    BY <2>1, <2>3, FS_EmptySet
  <2>5. QED BY <1>1, <2>1, <2>2, <2>4 DEF Rank
<1>3. \A p \in S : p \in Nat /\ Rank(S, p) \in Nat
  <2>1. ASSUME NEW p \in S
        PROVE  Rank(S, p) \in Nat
    <3>1. Rank(S, p) \in 1 .. n
      BY <1>2
    <3> HIDE DEF n
    <3>2. QED BY <1>1, <3>1
  <2>2. QED BY <2>1
<1>4. ASSUME NEW p \in S, NEW q \in S, p < q
      PROVE  Rank(S, p) < Rank(S, q)
  <2>1. UpTo(p) \in SUBSET UpTo(q) /\ q \in UpTo(q) /\ q \notin UpTo(p)
    <3>1. p \in Nat /\ q \in Nat /\ ~(q <= p) /\ q <= q
      BY <1>4, <1>3
    <3>2. \A x \in Nat : x <= p => x <= q
      BY <1>4, <3>1
    <3>3. QED BY <3>1, <3>2
  <2>2. /\ Cardinality(UpTo(p)) <= Cardinality(UpTo(q))
        /\ Cardinality(UpTo(q)) # Cardinality(UpTo(p))
    BY <1>2, <2>1, FS_Subset
  <2>3. Rank(S, p) \in Nat /\ Rank(S, q) \in Nat
    BY <1>3
  <2>4. QED BY <2>2, <2>3 DEF Rank
<1>5. ASSUME NEW p \in S, NEW q \in S, Rank(S, p) < Rank(S, q)
      PROVE  p < q
  <2>1. p \in Nat /\ q \in Nat /\ Rank(S, p) \in Nat /\ Rank(S, q) \in Nat
    BY <1>3
  <2>2. CASE q < p
    <3>1. Rank(S, q) < Rank(S, p)
      BY <1>4, <2>2
    <3>2. QED BY <1>5, <2>1, <3>1
  <2>3. CASE q = p
    BY <1>5, <2>1, <2>3
  <2>4. QED BY <2>1, <2>2, <2>3
<1> DEFINE f == [p \in S |-> Rank(S, p)]
<1>6. f \in Injection(S, 1 .. n)
  <2>1. f \in [S -> 1 .. n]
    BY <1>2
  <2>2. ASSUME NEW p \in S, NEW q \in S, f[p] = f[q]
        PROVE  p = q
    <3>1. p \in Nat /\ q \in Nat /\ Rank(S, p) = Rank(S, q) /\ Rank(S, p) \in Nat
      BY <1>3, <2>2
    <3>2. ~(p < q) /\ ~(q < p)
      BY <1>4, <3>1
    <3>3. QED BY <3>1, <3>2
  <2> HIDE DEF f
  <2>3. QED BY <2>1, <2>2 DEF Injection, IsInjective
<1>7. IsFiniteSet(1 .. n) /\ Cardinality(1 .. n) = n
  BY <1>1, FS_Interval
<1>8. f \in Surjection(S, 1 .. n)
  <2> HIDE DEF f
  <2>1. QED BY <1>6, <1>7, FS_Injection
<1>9. ASSUME NEW k \in 1 .. n
      PROVE  \E p \in S : Rank(S, p) = k
  BY <1>8 DEF Surjection
<1>10. QED BY <1>1, <1>2, <1>4, <1>5, <1>9

LEMMA InOrderEnumerates ==
    ASSUME NEW n \in Nat, NEW S, S \subseteq 1 .. n
    PROVE  /\ IsFiniteSet(S) /\ Cardinality(S) \in Nat
           /\ Enumerates(InOrder(S), Cardinality(S), S)
<1> DEFINE at == InOrder(S)
           size == Cardinality(S)
<1>1. IsFiniteSet(S) /\ S \in SUBSET Nat
  <2>1. IsFiniteSet(1 .. n)
    <3>1. n \in Int /\ 1 \in Int
      OBVIOUS
    <3>2. QED BY <3>1, FS_Interval
  <2>2. IsFiniteSet(S)
    BY <2>1, FS_Subset
  <2>3. QED BY <2>2
<1>2. /\ size \in Nat
      /\ \A p \in S : Rank(S, p) \in 1 .. size
      /\ \A p, q \in S : Rank(S, p) < Rank(S, q) <=> p < q
      /\ \A k \in 1 .. size : \E p \in S : Rank(S, p) = k
  BY <1>1, Ranks
<1>3. DOMAIN at = 1 .. size /\ \A k \in 1 .. size : at[k] \in S /\ Rank(S, at[k]) = k
  BY <1>2 DEF InOrder, Rank
<1>4. at = [k \in 1 .. size |-> at[k]]
  BY DEF InOrder
<1> HIDE DEF at, size
<1>5. at \in [1 .. size -> S]
  BY <1>3, <1>4
<1>6. \A j, k \in 1 .. size : j < k => at[j] < at[k]
  BY <1>2, <1>3
<1>7. ASSUME NEW p \in S
      PROVE  \E k \in 1 .. size : at[k] = p
  <2>1. at[Rank(S, p)] \in S /\ Rank(S, at[Rank(S, p)]) = Rank(S, p) /\ Rank(S, p) \in 1 .. size
    BY <1>2, <1>3
  <2> DEFINE q == at[Rank(S, p)]
  <2>2. q \in Nat /\ p \in Nat /\ ~(q < p) /\ ~(p < q)
    <3>1. q \in S /\ Rank(S, q) = Rank(S, p) /\ Rank(S, p) \in Nat
      BY <2>1
    <3> HIDE DEF q
    <3>2. ~(Rank(S, q) < Rank(S, p)) /\ ~(Rank(S, p) < Rank(S, q))
      BY <3>1
    <3>3. QED BY <1>1, <1>2, <3>1, <3>2
  <2>3. q = p
    <3> HIDE DEF q
    <3> QED BY <2>2
  <2>4. QED BY <2>1, <2>3
<1>8. QED BY <1>1, <1>2, <1>5, <1>6, <1>7 DEF Enumerates, at, size

\* What is picked from a sequence: all the elements at the positions, and no other.
LEMMA Picked ==
    ASSUME NEW S, NEW s \in Seq(S), NEW P, P \subseteq DOMAIN s
    PROVE  /\ Pick(s, P) \in Seq(S)
           /\ \A k \in DOMAIN Pick(s, P) : \E p \in P : Pick(s, P)[k] = s[p]
           /\ \A p \in P : \E k \in DOMAIN Pick(s, P) : Pick(s, P)[k] = s[p]
           /\ \A j, k \in DOMAIN Pick(s, P) : \E p, q \in P :
                 Pick(s, P)[j] = s[p] /\ Pick(s, P)[k] = s[q] /\ (p = q => j = k)
<1> DEFINE at == InOrder(P)
           n == Cardinality(P)
<1>1. Len(s) \in Nat /\ P \subseteq 1 .. Len(s)
  BY LenProperties
<1>2. n \in Nat /\ Enumerates(at, n, P)
  BY <1>1, InOrderEnumerates
<1>3. DOMAIN at = 1 .. n /\ \A k \in 1 .. n : at[k] \in P /\ s[at[k]] \in S
  BY <1>2 DEF Enumerates
<1>4. Pick(s, P) = [k \in 1 .. n |-> s[at[k]]]
  BY <1>3 DEF Pick
<1> HIDE DEF at, n
<1>5. Pick(s, P) \in Seq(S)
  BY <1>2, <1>3, <1>4
<1>6. \A j, k \in 1 .. n : at[j] = at[k] => j = k
  <2>1. SUFFICES ASSUME NEW j \in 1 .. n, NEW k \in 1 .. n, at[j] = at[k], j # k
                 PROVE  FALSE
    OBVIOUS
  <2>2. j < k \/ k < j
    BY <2>1
  <2>3. at[j] \in Nat /\ at[k] \in Nat
    BY <1>1, <1>3
  <2>4. QED BY <1>2, <2>1, <2>2, <2>3 DEF Enumerates
<1>7. DOMAIN Pick(s, P) = 1 .. n /\ \A k \in 1 .. n : Pick(s, P)[k] = s[at[k]]
  BY <1>4
<1>8. \A p \in P : \E k \in 1 .. n : at[k] = p
  BY <1>2 DEF Enumerates
<1>9. QED BY <1>3, <1>5, <1>6, <1>7, <1>8

-------------------------------------------------------------------------------
(* Sequences of calls.                                                     *)

Elements(s) == {s[i] : i \in DOMAIN s}

\* No element of D comes after one of C.
Ordered(s, C, D) == \A j, k \in DOMAIN s : j < k /\ s[j] \in C => s[k] \notin D

LEMMA Concatenated ==
    ASSUME NEW S, NEW a \in Seq(S), NEW b \in Seq(S)
    PROVE  /\ a \o b \in Seq(S)
           /\ Elements(a \o b) = Elements(a) \cup Elements(b)
<1>1. /\ a \o b \in Seq(S) /\ Len(a \o b) = Len(a) + Len(b)
      /\ \A i \in 1 .. Len(a) : (a \o b)[i] = a[i]
      /\ \A i \in 1 .. Len(b) : (a \o b)[Len(a) + i] = b[i]
      /\ \A i \in 1 .. Len(a) + Len(b) :
            i \in 1 .. Len(a) \/ \E k \in 1 .. Len(b) : i = Len(a) + k
      /\ Len(a) \in Nat /\ Len(b) \in Nat
  BY ConcatProperties, LenProperties
<1>2. /\ DOMAIN a = 1 .. Len(a) /\ DOMAIN b = 1 .. Len(b)
      /\ DOMAIN (a \o b) = 1 .. Len(a) + Len(b)
  BY <1>1, LenProperties
<1>3. ASSUME NEW x \in Elements(a \o b)
      PROVE  x \in Elements(a) \cup Elements(b)
  <2>1. PICK i \in 1 .. Len(a) + Len(b) : x = (a \o b)[i]
    BY <1>2 DEF Elements
  <2>2. CASE i \in 1 .. Len(a)
    BY <1>1, <1>2, <2>1, <2>2 DEF Elements
  <2>3. ASSUME NEW k \in 1 .. Len(b), i = Len(a) + k
        PROVE  x \in Elements(b)
    BY <1>1, <1>2, <2>1, <2>3 DEF Elements
  <2>4. QED BY <1>1, <2>2, <2>3
<1>4. ASSUME NEW x \in Elements(a)
      PROVE  x \in Elements(a \o b)
  <2>1. PICK i \in 1 .. Len(a) : x = a[i]
    BY <1>2 DEF Elements
  <2>2. i \in 1 .. Len(a) + Len(b) /\ x = (a \o b)[i]
    BY <1>1, <2>1
  <2>3. QED BY <1>2, <2>2 DEF Elements
<1>5. ASSUME NEW x \in Elements(b)
      PROVE  x \in Elements(a \o b)
  <2>1. PICK i \in 1 .. Len(b) : x = b[i]
    BY <1>2 DEF Elements
  <2>2. Len(a) + i \in 1 .. Len(a) + Len(b) /\ x = (a \o b)[Len(a) + i]
    BY <1>1, <2>1
  <2>3. QED BY <1>2, <2>2 DEF Elements
<1>6. QED BY <1>1, <1>3, <1>4, <1>5

LEMMA OrderedConcatenation ==
    ASSUME NEW S, NEW a \in Seq(S), NEW b \in Seq(S), NEW C, NEW D,
           Ordered(a, C, D), Ordered(b, C, D),
           Elements(a) \cap C = {} \/ Elements(b) \cap D = {}
    PROVE  Ordered(a \o b, C, D)
<1>1. /\ \A i \in 1 .. Len(a) : (a \o b)[i] = a[i]
      /\ \A i \in 1 .. Len(b) : (a \o b)[Len(a) + i] = b[i]
      /\ Len(a) \in Nat /\ Len(b) \in Nat
      /\ DOMAIN a = 1 .. Len(a) /\ DOMAIN b = 1 .. Len(b)
      /\ DOMAIN (a \o b) = 1 .. Len(a) + Len(b)
  BY ConcatProperties, LenProperties
<1>2. SUFFICES ASSUME NEW j \in 1 .. Len(a) + Len(b), NEW k \in 1 .. Len(a) + Len(b), j < k,
                      (a \o b)[j] \in C, (a \o b)[k] \in D
               PROVE  FALSE
  BY <1>1 DEF Ordered
<1>3. CASE k <= Len(a)
  <2>1. j \in 1 .. Len(a) /\ k \in 1 .. Len(a)
    BY <1>1, <1>2, <1>3
  <2>2. QED BY <1>1, <1>2, <2>1 DEF Ordered
<1>4. CASE j > Len(a)
  <2> DEFINE x == j - Len(a)
             y == k - Len(a)
  <2>2. /\ x \in 1 .. Len(b) /\ y \in 1 .. Len(b) /\ x < y
        /\ j = Len(a) + x /\ k = Len(a) + y
    BY <1>1, <1>2, <1>4
  <2> HIDE DEF x, y
  <2>3. b[x] \in C /\ b[y] \in D
    BY <1>1, <1>2, <2>2
  <2>4. QED BY <1>1, <2>2, <2>3 DEF Ordered
<1>5. CASE j <= Len(a) /\ k > Len(a)
  <2> DEFINE y == k - Len(a)
  <2>2. j \in 1 .. Len(a) /\ y \in 1 .. Len(b) /\ k = Len(a) + y
    BY <1>1, <1>2, <1>5
  <2> HIDE DEF y
  <2>3. a[j] \in C /\ b[y] \in D
    BY <1>1, <1>2, <2>2
  <2>4. QED BY <1>1, <2>2, <2>3 DEF Elements
<1>6. QED BY <1>1, <1>2, <1>3, <1>4, <1>5

LEMMA HeadAndTail ==
    ASSUME NEW S, NEW s \in Seq(S), s # <<>>
    PROVE  /\ Head(s) \in S /\ Tail(s) \in Seq(S)
           /\ Elements(s) = {Head(s)} \cup Elements(Tail(s))
           /\ Len(Tail(s)) = Len(s) - 1 /\ Len(s) \in Nat
<1>1. /\ Head(s) \in S /\ Head(s) = s[1] /\ Tail(s) \in Seq(S)
      /\ Len(Tail(s)) = Len(s) - 1 /\ Len(s) \in Nat /\ Len(s) > 0
      /\ \A i \in 1 .. Len(Tail(s)) : Tail(s)[i] = s[i + 1]
      /\ DOMAIN s = 1 .. Len(s) /\ DOMAIN Tail(s) = 1 .. Len(Tail(s))
  <2>1. Len(s) \in Nat /\ Len(s) > 0
    BY EmptySeq, LenProperties
  <2>2. Head(s) \in S /\ Head(s) = s[1]
    BY <2>1, HeadTailProperties, LenProperties
  <2>3. QED BY <2>1, <2>2, HeadTailProperties, LenProperties
<1>2. ASSUME NEW x \in Elements(s), x # Head(s)
      PROVE  x \in Elements(Tail(s))
  <2>1. PICK i \in 1 .. Len(s) : x = s[i]
    BY <1>1, <1>2 DEF Elements
  <2>2. i # 1
    BY <1>1, <1>2, <2>1
  <2>3. i - 1 \in 1 .. Len(Tail(s)) /\ Tail(s)[i - 1] = x
    BY <1>1, <2>1, <2>2
  <2>4. QED BY <1>1, <2>3 DEF Elements
<1>3. ASSUME NEW x \in Elements(Tail(s))
      PROVE  x \in Elements(s)
  <2>1. PICK i \in 1 .. Len(Tail(s)) : x = Tail(s)[i]
    BY <1>1, <1>3 DEF Elements
  <2>2. i + 1 \in 1 .. Len(s) /\ s[i + 1] = x
    BY <1>1, <2>1
  <2>3. QED BY <1>1, <2>2 DEF Elements
<1>4. Head(s) \in Elements(s)
  BY <1>1 DEF Elements
<1>5. QED BY <1>1, <1>2, <1>3, <1>4

LEMMA OrderedTail ==
    ASSUME NEW S, NEW s \in Seq(S), s # <<>>, NEW C, NEW D, Ordered(s, C, D)
    PROVE  /\ Ordered(Tail(s), C, D)
           /\ Head(s) \in C => Elements(Tail(s)) \cap D = {}
<1>1. /\ Head(s) = s[1] /\ Len(s) \in Nat /\ Len(s) > 0
      /\ Len(Tail(s)) = Len(s) - 1
      /\ \A i \in 1 .. Len(Tail(s)) : Tail(s)[i] = s[i + 1] /\ i + 1 \in 1 .. Len(s)
      /\ DOMAIN s = 1 .. Len(s) /\ DOMAIN Tail(s) = 1 .. Len(Tail(s))
  <2>1. Len(s) \in Nat /\ Len(s) > 0
    BY EmptySeq, LenProperties
  <2>2. Head(s) = s[1]
    BY <2>1, HeadTailProperties, LenProperties
  <2>3. QED BY <2>1, <2>2, HeadTailProperties, LenProperties
<1>2. ASSUME NEW j \in 1 .. Len(Tail(s)), NEW k \in 1 .. Len(Tail(s)), j < k,
             Tail(s)[j] \in C
      PROVE  Tail(s)[k] \notin D
  BY <1>1, <1>2 DEF Ordered
<1>3. ASSUME Head(s) \in C, NEW k \in 1 .. Len(Tail(s))
      PROVE  Tail(s)[k] \notin D
  BY <1>1, <1>3 DEF Ordered
<1>4. QED BY <1>1, <1>2, <1>3 DEF Ordered, Elements

LEMMA OneElement ==
    ASSUME NEW S, NEW x \in S
    PROVE  /\ <<x>> \in Seq(S)
           /\ Elements(<<x>>) = {x}
           /\ \A C, D : Ordered(<<x>>, C, D)
  BY DEF Elements, Ordered

LEMMA NoElement ==
    /\ Elements(<<>>) = {}
    /\ \A C, D : Ordered(<<>>, C, D)
    /\ \A S : <<>> \in Seq(S)
  BY DEF Elements, Ordered

LEMMA Unordered ==
    ASSUME NEW s, NEW C, NEW D, Elements(s) \cap C = {} \/ Elements(s) \cap D = {}
    PROVE  Ordered(s, C, D)
  BY DEF Elements, Ordered

-------------------------------------------------------------------------------
(* The calls of an update.                                                 *)

AllRequests == Requests \cup {NoRequest}

UnitCalls ==
    [op : {"CreateContainer", "RemoveContainer"}, unit : Unit, request : AllRequests]
SandboxCalls ==
    [op : {"RunPodSandbox", "StopPodSandbox", "RemovePodSandbox"}, unit : {NoUnit},
     request : AllRequests]
MountCalls == [op : {"CreateMount", "DeleteMount"}, volume : Volumes]
SpawnCalls == [op : {"spawn"}, units : Seq(Unit)]

AllCalls == UnitCalls \cup SandboxCalls \cup MountCalls \cup SpawnCalls

Creations == {c \in UnitCalls : c.op = "CreateContainer"}
Removals == {c \in UnitCalls : c.op = "RemoveContainer"}
Wipes == {c \in SandboxCalls : c.op = "RemovePodSandbox"}
CreationsOf(n) == {c \in Creations : c.unit.name = n}
RemovalsOf(n) == {c \in Removals : c.unit.name = n}

LEMMA CallKinds ==
    ASSUME NEW c \in AllCalls
    PROVE  /\ c.op = "CreateContainer" => c \in Creations
           /\ c.op = "RemoveContainer" => c \in Removals
           /\ c.op = "RemovePodSandbox" => c \in Wipes
           /\ c.op \in {"RunPodSandbox", "StopPodSandbox"} =>
                 c \in SandboxCalls /\ c \notin Wipes
           /\ c.op \in {"CreateMount", "DeleteMount"} => c \in MountCalls
           /\ c.op = "spawn" => c \in SpawnCalls
BY DEF AllCalls, UnitCalls, SandboxCalls, MountCalls, SpawnCalls, Creations, Removals, Wipes

\* The kinds of calls have nothing in common.
LEMMA KindsDiffer ==
    ASSUME NEW c
    PROVE  /\ c \in Creations => c.op = "CreateContainer" /\ c \in UnitCalls
           /\ c \in Removals => c.op = "RemoveContainer" /\ c \in UnitCalls
           /\ c \in Wipes => c.op = "RemovePodSandbox"
           /\ c \in SandboxCalls =>
                 c.op \in {"RunPodSandbox", "StopPodSandbox", "RemovePodSandbox"}
           /\ c \in MountCalls => c.op \in {"CreateMount", "DeleteMount"}
           /\ c \in SpawnCalls => c.op = "spawn"
           /\ c \in UnitCalls => c.unit \in Unit /\ c.request \in AllRequests
                                 /\ c.unit.name \in Names /\ c.unit.image \in Images
BY DEF UnitCalls, SandboxCalls, MountCalls, SpawnCalls, Creations, Removals, Wipes, Unit

LEMMA RequestTypes ==
    ASSUME NEW r \in AllRequests
    PROVE  /\ r.pod \in Specs \cup {EmptyStatus}
           /\ r.pod.units \in Seq(Unit) /\ r.pod.inits \in Seq(Unit)
           /\ r.volumes \in Seq(Volumes)
           /\ r.mounts \in [Names -> Seq(Volumes)]
<1>1. CASE r \in Requests
  BY <1>1, RequestsAssumption, SpecsAssumption DEF PodSpec
<1>2. CASE r = NoRequest
  BY <1>2, NoElement DEF NoRequest, EmptyStatus
<1>3. QED BY <1>1, <1>2 DEF AllRequests

LEMMA CallsOfUnits ==
    ASSUME NEW op \in {"CreateContainer", "RemoveContainer"}, NEW units \in Seq(Unit),
           NEW r \in AllRequests
    PROVE  /\ Calls(op, units, r) \in Seq(AllCalls)
           /\ Elements(Calls(op, units, r)) = {Call(op, u, r) : u \in Elements(units)}
           /\ DOMAIN Calls(op, units, r) = DOMAIN units
           /\ \A i \in DOMAIN units : Calls(op, units, r)[i] = Call(op, units[i], r)
           /\ \A u \in Unit : /\ Call(op, u, r) \in UnitCalls /\ Call(op, u, r).op = op
                              /\ Call(op, u, r).unit = u /\ Call(op, u, r).request = r
<1>1. \A u \in Unit : /\ Call(op, u, r) \in UnitCalls /\ Call(op, u, r).op = op
                      /\ Call(op, u, r).unit = u /\ Call(op, u, r).request = r
  BY DEF Call, UnitCalls
<1>2. Len(units) \in Nat /\ DOMAIN units = 1 .. Len(units)
      /\ \A i \in 1 .. Len(units) : units[i] \in Unit
  BY LenProperties, ElementOfSeq
<1>3. Calls(op, units, r) = [i \in 1 .. Len(units) |-> Call(op, units[i], r)]
  BY <1>2 DEF Calls
<1>4. \A i \in 1 .. Len(units) : Call(op, units[i], r) \in AllCalls
  BY <1>1, <1>2 DEF AllCalls
<1>5. Calls(op, units, r) \in Seq(AllCalls)
  BY <1>2, <1>3, <1>4
<1>6. Elements(Calls(op, units, r)) = {Call(op, u, r) : u \in Elements(units)}
  BY <1>2, <1>3 DEF Elements
<1>7. QED BY <1>1, <1>2, <1>3, <1>5, <1>6

LEMMA SandboxTypes ==
    ASSUME NEW r \in AllRequests,
           NEW op \in {"RunPodSandbox", "StopPodSandbox", "RemovePodSandbox"}
    PROVE  /\ Call(op, NoUnit, r) \in SandboxCalls
           /\ Call(op, NoUnit, r).op = op /\ Call(op, NoUnit, r).request = r
BY DEF Call, SandboxCalls

LEMMA VolumeCallTypes ==
    ASSUME NEW op \in {"CreateMount", "DeleteMount"}, NEW r \in AllRequests
    PROVE  /\ VolumeCalls(op, r) \in Seq(AllCalls)
           /\ \A c \in Elements(VolumeCalls(op, r)) : c \in MountCalls
<1>1. Len(r.volumes) \in Nat /\ DOMAIN r.volumes = 1 .. Len(r.volumes)
      /\ \A i \in 1 .. Len(r.volumes) : r.volumes[i] \in Volumes
  BY RequestTypes, LenProperties, ElementOfSeq
<1>2. VolumeCalls(op, r) =
        [i \in 1 .. Len(r.volumes) |-> [op |-> op, volume |-> r.volumes[i]]]
  BY <1>1 DEF VolumeCalls
<1>3. \A i \in 1 .. Len(r.volumes) : [op |-> op, volume |-> r.volumes[i]] \in MountCalls
  BY <1>1 DEF MountCalls
<1>4. VolumeCalls(op, r) \in Seq(AllCalls)
  BY <1>1, <1>2, <1>3 DEF AllCalls
<1>5. QED BY <1>1, <1>2, <1>3, <1>4 DEF Elements

\* The calls of an update come in three phases: nothing is created, units are
\* created, and the starter is spawned.
LEMMA ThreePhases ==
    ASSUME NEW a \in Seq(AllCalls), NEW c \in Seq(AllCalls), NEW sp \in SpawnCalls,
           Elements(a) \cap (Creations \cup SpawnCalls) = {}, Elements(c) \subseteq Creations
    PROVE  LET w == a \o c \o <<sp>> IN
           /\ w \in Seq(AllCalls) /\ w # <<>>
           /\ Elements(w) = Elements(a) \cup Elements(c) \cup {sp}
           /\ Ordered(w, Creations, Removals \cup Wipes)
           /\ Ordered(w, SpawnCalls, AllCalls)
           /\ \A S : S \subseteq Creations /\ Ordered(c, S, S) => Ordered(w, S, S)
<1> DEFINE b == a \o c
           w == b \o <<sp>>
<1>1. sp \in AllCalls /\ sp \notin Creations /\ sp \notin Removals \cup Wipes
  BY KindsDiffer DEF AllCalls
<1>2. /\ <<sp>> \in Seq(AllCalls) /\ Elements(<<sp>>) = {sp}
      /\ \A C, D : Ordered(<<sp>>, C, D)
  BY <1>1, OneElement
<1>3. b \in Seq(AllCalls) /\ Elements(b) = Elements(a) \cup Elements(c)
  BY Concatenated
<1>4. w \in Seq(AllCalls) /\ Elements(w) = Elements(b) \cup {sp}
  <2> DEFINE q == <<sp>>
  <2>1. q \in Seq(AllCalls) /\ Elements(q) = {sp}
    BY <1>2
  <2> HIDE DEF b, q
  <2>2. b \o q \in Seq(AllCalls) /\ Elements(b \o q) = Elements(b) \cup {sp}
    BY <1>3, <2>1, Concatenated
  <2>3. QED BY <2>2 DEF q
<1>5. w # <<>>
  BY <1>4, NoElement
<1>6. Elements(c) \cap (Removals \cup Wipes) = {} /\ Elements(c) \cap SpawnCalls = {}
  BY KindsDiffer
<1> HIDE DEF b
<1>7. Ordered(w, Creations, Removals \cup Wipes)
  <2>1. Ordered(a, Creations, Removals \cup Wipes) /\ Ordered(c, Creations, Removals \cup Wipes)
    BY <1>6, Unordered
  <2>2. Ordered(b, Creations, Removals \cup Wipes)
    BY <1>6, <2>1, OrderedConcatenation DEF b
  <2>3. QED BY <1>1, <1>2, <1>3, <2>2, OrderedConcatenation
<1>8. Ordered(w, SpawnCalls, AllCalls)
  <2>1. Elements(b) \cap SpawnCalls = {}
    BY <1>3, <1>6
  <2>2. Ordered(b, SpawnCalls, AllCalls)
    BY <2>1, Unordered
  <2>3. QED BY <1>2, <1>3, <2>1, <2>2, OrderedConcatenation
<1>9. ASSUME NEW S, S \subseteq Creations, Ordered(c, S, S)
      PROVE  Ordered(w, S, S)
  <2>1. Elements(a) \cap S = {} /\ Ordered(a, S, S)
    BY <1>9, Unordered
  <2>2. Ordered(b, S, S)
    BY <1>9, <2>1, OrderedConcatenation DEF b
  <2>3. Elements(<<sp>>) \cap S = {}
    BY <1>1, <1>2, <1>9
  <2>4. QED BY <1>2, <1>3, <2>2, <2>3, OrderedConcatenation
<1>10. QED BY <1>3, <1>4, <1>5, <1>7, <1>8, <1>9 DEF b

\* What the calls of an update are.
Planned(w, spec, old) ==
    /\ w \in Seq(AllCalls)
    /\ Ordered(w, Creations, Removals \cup Wipes)
    /\ Ordered(w, SpawnCalls, AllCalls)
    /\ \A c \in Elements(w) :
          /\ c \in Creations => c.request = spec
          /\ c \in Removals \cup Wipes => c.request = old
          /\ c \in SpawnCalls => \A u \in Elements(c.units) :
                u \in Elements(spec.pod.inits) \/ Call("CreateContainer", u, spec) \in Elements(w)

\* They are planned when the calls before the creations create and spawn nothing,
\* and the starter gets units that are created and init units.
LEMMA Plans ==
    ASSUME NEW spec \in AllRequests, NEW old \in AllRequests,
           NEW a \in Seq(AllCalls), NEW units \in Seq(Unit), NEW inits \in Seq(Unit),
           Elements(inits) \subseteq Elements(spec.pod.inits),
           \A c \in Elements(a) : /\ c \notin Creations /\ c \notin SpawnCalls
                                  /\ c \in Removals \cup Wipes => c.request = old
    PROVE  LET w == a \o Calls("CreateContainer", units, spec) \o Spawn(inits, units) IN
           /\ Planned(w, spec, old)
           /\ w # <<>>
           /\ \E sp \in SpawnCalls :
                 Elements(w) = Elements(a)
                                 \cup {Call("CreateContainer", u, spec) : u \in Elements(units)}
                                 \cup {sp}
           /\ \A S : S \subseteq Creations /\ Ordered(Calls("CreateContainer", units, spec), S, S)
                 => Ordered(w, S, S)
<1> DEFINE c == Calls("CreateContainer", units, spec)
           sp == [op |-> "spawn", units |-> inits \o units]
           w == a \o c \o <<sp>>
<1>1. /\ c \in Seq(AllCalls)
      /\ Elements(c) = {Call("CreateContainer", u, spec) : u \in Elements(units)}
      /\ \A u \in Unit : /\ Call("CreateContainer", u, spec) \in UnitCalls
                         /\ Call("CreateContainer", u, spec).op = "CreateContainer"
                         /\ Call("CreateContainer", u, spec).request = spec
  BY CallsOfUnits
<1>2. Elements(units) \subseteq Unit
  BY ElementOfSeq, LenProperties DEF Elements
<1>3. Elements(c) \subseteq Creations /\ \A e \in Elements(c) : e.request = spec
  BY <1>1, <1>2 DEF Creations
<1>4. inits \o units \in Seq(Unit) /\ Elements(inits \o units) = Elements(inits) \cup Elements(units)
  BY Concatenated
<1>5. sp \in SpawnCalls /\ sp.units = inits \o units
  BY <1>4 DEF SpawnCalls
<1> HIDE DEF c, sp
<1>6. Elements(a) \cap (Creations \cup SpawnCalls) = {}
  OBVIOUS
<1>7. /\ w \in Seq(AllCalls) /\ w # <<>>
      /\ Elements(w) = Elements(a) \cup Elements(c) \cup {sp}
      /\ Ordered(w, Creations, Removals \cup Wipes)
      /\ Ordered(w, SpawnCalls, AllCalls)
      /\ \A S : S \subseteq Creations /\ Ordered(c, S, S) => Ordered(w, S, S)
  BY <1>1, <1>3, <1>5, <1>6, ThreePhases
<1> HIDE DEF w
<1>8. \A e \in Elements(w) :
         /\ e \in Creations => e.request = spec
         /\ e \in Removals \cup Wipes => e.request = old
  BY <1>3, <1>5, <1>7, KindsDiffer
<1>9. ASSUME NEW e \in Elements(w), e \in SpawnCalls, NEW u \in Elements(e.units)
      PROVE  u \in Elements(spec.pod.inits) \/ Call("CreateContainer", u, spec) \in Elements(w)
  <2>1. e = sp
    BY <1>3, <1>7, <1>9, KindsDiffer
  <2>2. u \in Elements(inits) \/ u \in Elements(units)
    BY <1>4, <1>5, <1>9, <2>1
  <2>3. QED BY <1>1, <1>7, <2>2
<1>10. Planned(w, spec, old)
  BY <1>7, <1>8, <1>9 DEF Planned
<1>11. w = a \o Calls("CreateContainer", units, spec) \o Spawn(inits, units)
  BY DEF w, c, sp, Spawn
<1>12. \E x \in SpawnCalls :
          Elements(w) = Elements(a)
                          \cup {Call("CreateContainer", u, spec) : u \in Elements(units)} \cup {x}
  BY <1>1, <1>5, <1>7
<1>13. QED BY <1>7, <1>10, <1>11, <1>12 DEF c

OneOfEachName(units) == \A j, k \in DOMAIN units : units[j].name = units[k].name => j = k

\* Which units such calls create and remove.
LEMMA PlansUnits ==
    ASSUME NEW spec \in AllRequests, NEW old \in AllRequests,
           NEW a \in Seq(AllCalls), NEW units \in Seq(Unit), NEW inits \in Seq(Unit),
           Elements(inits) \subseteq Elements(spec.pod.inits),
           \A c \in Elements(a) : /\ c \notin Creations /\ c \notin SpawnCalls
                                  /\ c \in Removals \cup Wipes => c.request = old
    PROVE  LET w == a \o Calls("CreateContainer", units, spec) \o Spawn(inits, units) IN
           /\ Planned(w, spec, old)
           /\ \A n : Elements(w) \cap CreationsOf(n) # {} <=> n \in UnitNames(units)
           /\ \A n : Elements(w) \cap RemovalsOf(n) = Elements(a) \cap RemovalsOf(n)
           /\ Elements(w) \cap Wipes = Elements(a) \cap Wipes
           /\ OneOfEachName(units) =>
                 \A n : Ordered(w, CreationsOf(n), CreationsOf(n))
<1> DEFINE c == Calls("CreateContainer", units, spec)
           w == a \o c \o Spawn(inits, units)
<1>1. /\ Planned(w, spec, old)
      /\ \E sp \in SpawnCalls :
            Elements(w) = Elements(a)
                            \cup {Call("CreateContainer", u, spec) : u \in Elements(units)}
                            \cup {sp}
      /\ \A S : S \subseteq Creations /\ Ordered(c, S, S) => Ordered(w, S, S)
  BY Plans
<1>2. PICK sp \in SpawnCalls :
         Elements(w) = Elements(a)
                         \cup {Call("CreateContainer", u, spec) : u \in Elements(units)}
                         \cup {sp}
  BY <1>1
<1>3. /\ DOMAIN c = DOMAIN units
      /\ \A i \in DOMAIN units : c[i] = Call("CreateContainer", units[i], spec)
      /\ \A u \in Unit : /\ Call("CreateContainer", u, spec) \in UnitCalls
                         /\ Call("CreateContainer", u, spec).op = "CreateContainer"
                         /\ Call("CreateContainer", u, spec).unit = u
  BY CallsOfUnits
<1>4. \A i \in DOMAIN units : units[i] \in Unit
  BY LenProperties, ElementOfSeq
<1> HIDE DEF c, w
<1>5. sp \notin Creations /\ sp \notin Removals /\ sp \notin Wipes
  BY KindsDiffer
<1>6. \A u \in Elements(units) : /\ Call("CreateContainer", u, spec) \in CreationsOf(u.name)
                                 /\ Call("CreateContainer", u, spec) \notin Removals \cup Wipes
                                 /\ Call("CreateContainer", u, spec).unit = u
  BY <1>3, <1>4, KindsDiffer DEF Elements, Creations, CreationsOf
<1>7. ASSUME NEW n
      PROVE  Elements(w) \cap CreationsOf(n) # {} <=> n \in UnitNames(units)
  <2>1. ASSUME NEW x \in Elements(w), x \in CreationsOf(n)
        PROVE  n \in UnitNames(units)
    <3>1. PICK u \in Elements(units) : x = Call("CreateContainer", u, spec)
      BY <1>2, <1>5, <2>1 DEF CreationsOf
    <3>2. u.name = n
      BY <1>6, <2>1, <3>1 DEF CreationsOf
    <3>3. QED BY <3>2 DEF UnitNames, Elements
  <2>2. ASSUME n \in UnitNames(units)
        PROVE  Elements(w) \cap CreationsOf(n) # {}
    <3>1. PICK u \in Elements(units) : u.name = n
      BY <2>2 DEF UnitNames, Elements
    <3>2. QED BY <1>2, <1>6, <3>1
  <2>3. QED BY <2>1, <2>2
<1>8. \A n : Elements(w) \cap RemovalsOf(n) = Elements(a) \cap RemovalsOf(n)
  BY <1>2, <1>5, <1>6 DEF RemovalsOf
<1>9. Elements(w) \cap Wipes = Elements(a) \cap Wipes
  BY <1>2, <1>5, <1>6
<1>10. ASSUME OneOfEachName(units), NEW n
       PROVE  Ordered(w, CreationsOf(n), CreationsOf(n))
  <2>1. ASSUME NEW j \in DOMAIN units, NEW k \in DOMAIN units, j < k,
               c[j] \in CreationsOf(n), c[k] \in CreationsOf(n)
        PROVE  FALSE
    <3>1. units[j].name = n /\ units[k].name = n
      BY <1>3, <1>4, <2>1 DEF CreationsOf
    <3>2. j = k
      BY <1>10, <3>1 DEF OneOfEachName
    <3>3. Len(units) \in Nat /\ DOMAIN units = 1 .. Len(units)
      BY LenProperties
    <3>4. QED BY <2>1, <3>2, <3>3
  <2>2. Ordered(c, CreationsOf(n), CreationsOf(n))
    BY <1>3, <2>1 DEF Ordered
  <2>3. CreationsOf(n) \subseteq Creations
    BY DEF CreationsOf
  <2>4. QED BY <1>1, <2>2, <2>3
<1>11. QED BY <1>1, <1>7, <1>8, <1>9, <1>10 DEF w, c

\* Which units a row of removals removes.
LEMMA RemovalCalls ==
    ASSUME NEW units \in Seq(Unit), NEW old \in AllRequests
    PROVE  LET a == Calls("RemoveContainer", units, old) IN
           /\ a \in Seq(AllCalls)
           /\ \A c \in Elements(a) : c \in Removals /\ c.request = old
                                     /\ c \notin Creations /\ c \notin SpawnCalls /\ c \notin Wipes
           /\ \A n : Elements(a) \cap RemovalsOf(n) # {} <=> n \in UnitNames(units)
<1> DEFINE a == Calls("RemoveContainer", units, old)
<1>1. /\ a \in Seq(AllCalls)
      /\ Elements(a) = {Call("RemoveContainer", u, old) : u \in Elements(units)}
      /\ \A u \in Unit : /\ Call("RemoveContainer", u, old) \in UnitCalls
                         /\ Call("RemoveContainer", u, old).op = "RemoveContainer"
                         /\ Call("RemoveContainer", u, old).unit = u
                         /\ Call("RemoveContainer", u, old).request = old
  BY CallsOfUnits
<1>2. \A u \in Elements(units) : u \in Unit
  BY LenProperties, ElementOfSeq DEF Elements
<1> HIDE DEF a
<1>3. \A u \in Elements(units) : LET c == Call("RemoveContainer", u, old) IN
         /\ c \in Removals /\ c.unit = u /\ c.request = old
         /\ c \notin Creations /\ c \notin SpawnCalls /\ c \notin Wipes
  BY <1>1, <1>2, KindsDiffer DEF Removals
<1>4. ASSUME NEW n
      PROVE  Elements(a) \cap RemovalsOf(n) # {} <=> n \in UnitNames(units)
  <2>1. ASSUME NEW x \in Elements(a), x \in RemovalsOf(n)
        PROVE  n \in UnitNames(units)
    <3>1. PICK u \in Elements(units) : x = Call("RemoveContainer", u, old)
      BY <1>1, <2>1
    <3>2. u.name = n
      BY <1>3, <2>1, <3>1 DEF RemovalsOf
    <3>3. QED BY <3>2 DEF UnitNames, Elements
  <2>2. ASSUME n \in UnitNames(units)
        PROVE  Elements(a) \cap RemovalsOf(n) # {}
    <3>1. PICK u \in Elements(units) : u.name = n
      BY <2>2 DEF UnitNames, Elements
    <3>2. QED BY <1>1, <1>3, <3>1 DEF RemovalsOf
  <2>3. QED BY <2>1, <2>2
<1>5. QED BY <1>1, <1>3, <1>4 DEF a

\* A unit of the request in both specifications at the same place.
Kept(n, spec, old) ==
    \E j \in DOMAIN spec.pod.units, k \in DOMAIN old.pod.units :
        spec.pod.units[j] = old.pod.units[k] /\ spec.pod.units[j].name = n

\* What the calls of an update create and remove: each unit of the request is
\* created once, after it was removed if the old specification has it, or it is in
\* both and left alone; a unit that only the old one has is removed.
Deploys(w, spec, old) ==
    /\ \A n \in Names : Ordered(w, CreationsOf(n), CreationsOf(n))
    /\ \A n \in UnitNames(spec.pod.units) :
          \/ /\ Elements(w) \cap CreationsOf(n) # {}
             /\ n \notin UnitNames(old.pod.units) \/ Elements(w) \cap RemovalsOf(n) # {}
          \/ /\ Elements(w) \cap CreationsOf(n) = {}
             /\ Elements(w) \cap RemovalsOf(n) = {}
             /\ Elements(w) \cap Wipes = {}
             /\ Kept(n, spec, old)
    /\ \A n \in Names \ UnitNames(spec.pod.units) :
          /\ Elements(w) \cap CreationsOf(n) = {}
          /\ n \notin UnitNames(old.pod.units) \/ Elements(w) \cap RemovalsOf(n) # {}

LEMMA DistinctInRequests ==
    ASSUME DistinctNames, NEW r \in AllRequests
    PROVE  OneOfEachName(r.pod.units)
<1>1. CASE r.pod \in Specs
  BY <1>1 DEF DistinctNames, OneOfEachName
<1>2. CASE r.pod = EmptyStatus
  BY <1>2 DEF EmptyStatus, OneOfEachName
<1>3. QED BY <1>1, <1>2, RequestTypes

LEMMA PickedOnce ==
    ASSUME NEW s \in Seq(Unit), OneOfEachName(s), NEW P, P \subseteq DOMAIN s
    PROVE  OneOfEachName(Pick(s, P))
<1>1. \A j, k \in DOMAIN Pick(s, P) : \E p, q \in P :
         Pick(s, P)[j] = s[p] /\ Pick(s, P)[k] = s[q] /\ (p = q => j = k)
  BY Picked
<1>2. QED BY <1>1 DEF OneOfEachName

LEMMA PickedNames ==
    ASSUME NEW s \in Seq(Unit), NEW P, P \subseteq DOMAIN s
    PROVE  \A n : n \in UnitNames(Pick(s, P)) <=> \E p \in P : s[p].name = n
<1>1. \A k \in DOMAIN Pick(s, P) : \E p \in P : Pick(s, P)[k] = s[p]
  BY Picked
<1>2. \A p \in P : \E k \in DOMAIN Pick(s, P) : Pick(s, P)[k] = s[p]
  BY Picked
<1>3. QED BY <1>1, <1>2 DEF UnitNames

\* A pod's first units, and its restart.
LEMMA PodCreated ==
    ASSUME NEW spec \in Requests, NEW old \in AllRequests,
           old.pod.units = <<>>
    PROVE  LET w == CreatePod(spec) \o Spawn(spec.pod.inits, spec.pod.units) IN
           /\ Planned(w, spec, old)
           /\ DistinctNames => Deploys(w, spec, old)
<1> DEFINE run == Call("RunPodSandbox", NoUnit, spec)
           a == <<run>>
           w == a \o Calls("CreateContainer", spec.pod.units, spec)
                  \o Spawn(spec.pod.inits, spec.pod.units)
<1>1. spec \in AllRequests /\ spec.pod.units \in Seq(Unit) /\ spec.pod.inits \in Seq(Unit)
  BY RequestTypes DEF AllRequests
<1>2. run \in SandboxCalls /\ run.op = "RunPodSandbox"
  BY <1>1, SandboxTypes
<1>3. run \in AllCalls /\ run \notin Creations /\ run \notin SpawnCalls /\ run \notin Removals
         /\ run \notin Wipes
  BY <1>2, KindsDiffer DEF AllCalls
<1>4. a \in Seq(AllCalls) /\ Elements(a) = {run}
  BY <1>3, OneElement
<1> HIDE DEF run, a
<1>5. /\ Planned(w, spec, old)
      /\ \A n : Elements(w) \cap CreationsOf(n) # {} <=> n \in UnitNames(spec.pod.units)
      /\ OneOfEachName(spec.pod.units) =>
            \A n : Ordered(w, CreationsOf(n), CreationsOf(n))
  BY <1>1, <1>3, <1>4, PlansUnits
<1>6. w = CreatePod(spec) \o Spawn(spec.pod.inits, spec.pod.units)
  BY DEF CreatePod, a, run
<1>7. UnitNames(old.pod.units) = {}
  BY DEF UnitNames
<1>8. DistinctNames => OneOfEachName(spec.pod.units)
  BY <1>1, DistinctInRequests
<1> HIDE DEF w
<1>9. DistinctNames => Deploys(w, spec, old)
  BY <1>5, <1>7, <1>8 DEF Deploys
<1>10. QED BY <1>5, <1>6, <1>9

LEMMA PodRestart ==
    ASSUME NEW spec \in Requests, NEW old \in AllRequests
    PROVE  LET w == RestartPod(spec, old) \o Spawn(spec.pod.inits, spec.pod.units) IN
           /\ Planned(w, spec, old)
           /\ DistinctNames => Deploys(w, spec, old)
<1> DEFINE run == Call("RunPodSandbox", NoUnit, spec)
           stop == Call("StopPodSandbox", NoUnit, old)
           wipe == Call("RemovePodSandbox", NoUnit, old)
           r == Calls("RemoveContainer", old.pod.units, old)
           s == <<stop, wipe>>
           t == <<run>>
           c == Calls("CreateContainer", spec.pod.units, spec)
           a == (r \o s) \o t
           w == a \o c \o Spawn(spec.pod.inits, spec.pod.units)
<1>1. /\ spec \in AllRequests /\ spec.pod.units \in Seq(Unit) /\ spec.pod.inits \in Seq(Unit)
      /\ old.pod.units \in Seq(Unit)
  BY RequestTypes DEF AllRequests
<1>2. /\ run \in SandboxCalls /\ run.op = "RunPodSandbox"
      /\ stop \in SandboxCalls /\ stop.op = "StopPodSandbox"
      /\ wipe \in SandboxCalls /\ wipe.op = "RemovePodSandbox" /\ wipe.request = old
  BY <1>1, SandboxTypes
<1>3. /\ run \in AllCalls /\ run \notin Creations \cup SpawnCalls \cup Removals \cup Wipes
      /\ stop \in AllCalls /\ stop \notin Creations \cup SpawnCalls \cup Removals \cup Wipes
      /\ wipe \in AllCalls /\ wipe \notin Creations \cup SpawnCalls
  BY <1>2, KindsDiffer DEF AllCalls
<1>4. t \in Seq(AllCalls) /\ Elements(t) = {run}
  BY <1>3, OneElement
<1>5. s \in Seq(AllCalls) /\ Elements(s) = {stop, wipe}
  <2> HIDE DEF stop, wipe
  <2>1. QED BY <1>3 DEF Elements
<1>6. /\ r \in Seq(AllCalls)
      /\ \A e \in Elements(r) : e.request = old /\ e \notin Creations /\ e \notin SpawnCalls
      /\ \A n : Elements(r) \cap RemovalsOf(n) # {} <=> n \in UnitNames(old.pod.units)
  BY <1>1, RemovalCalls
<1>7. c \in Seq(AllCalls)
  BY <1>1, CallsOfUnits
<1> HIDE DEF run, stop, wipe, r, s, t, c
<1>8. r \o s \in Seq(AllCalls) /\ Elements(r \o s) = Elements(r) \cup {stop, wipe}
  BY <1>5, <1>6, Concatenated
<1>9. a \in Seq(AllCalls) /\ Elements(a) = Elements(r) \cup {stop, wipe, run}
  <2> DEFINE q == r \o s
  <2>1. q \in Seq(AllCalls) /\ Elements(q) = Elements(r) \cup {stop, wipe}
    BY <1>8
  <2> HIDE DEF q
  <2>2. q \o t \in Seq(AllCalls) /\ Elements(q \o t) = Elements(q) \cup Elements(t)
    BY <1>4, <2>1, Concatenated
  <2>3. QED BY <1>4, <2>1, <2>2 DEF q
<1>10. a \o c = (r \o s) \o (t \o c)
  <2> DEFINE q == r \o s
  <2>1. q \in Seq(AllCalls)
    BY <1>8
  <2> HIDE DEF q
  <2>2. (q \o t) \o c = q \o (t \o c)
    BY <1>4, <1>7, <2>1, ConcatAssociative
  <2>3. QED BY <2>2 DEF q
<1>11. \A e \in Elements(a) : /\ e \notin Creations /\ e \notin SpawnCalls
                              /\ e \in Removals \cup Wipes => e.request = old
  BY <1>2, <1>3, <1>6, <1>9
<1> HIDE DEF a
<1>12. /\ Planned(w, spec, old)
       /\ \A n : Elements(w) \cap CreationsOf(n) # {} <=> n \in UnitNames(spec.pod.units)
       /\ \A n : Elements(w) \cap RemovalsOf(n) = Elements(a) \cap RemovalsOf(n)
       /\ OneOfEachName(spec.pod.units) =>
             \A n : Ordered(w, CreationsOf(n), CreationsOf(n))
  BY <1>1, <1>9, <1>11, PlansUnits DEF c
<1>13. w = RestartPod(spec, old) \o Spawn(spec.pod.inits, spec.pod.units)
  BY <1>10 DEF RestartPod, CreatePod, r, s, t, c, run, stop, wipe
<1>14. DistinctNames => OneOfEachName(spec.pod.units)
  BY <1>1, DistinctInRequests
<1> HIDE DEF w
<1>15. \A n \in UnitNames(old.pod.units) : Elements(w) \cap RemovalsOf(n) # {}
  BY <1>6, <1>9, <1>12
<1>16. DistinctNames => Deploys(w, spec, old)
  BY <1>12, <1>14, <1>15 DEF Deploys
<1>17. QED BY <1>12, <1>13, <1>16

\* What differs between two specifications, name by name: a unit of the request is
\* at a position to add, and the old one's unit of that name at a position to
\* delete; or it is in both, and no position that differs has its name.
LEMMA Differences ==
    ASSUME NEW spec \in AllRequests, NEW old \in AllRequests,
           OneOfEachName(spec.pod.units), OneOfEachName(old.pod.units)
    PROVE  LET add == ToAdd(spec.pod, old.pod)
               del == ToDelete(spec.pod, old.pod) IN
           /\ add \subseteq DOMAIN spec.pod.units /\ del \subseteq DOMAIN old.pod.units
           /\ \A n \in UnitNames(spec.pod.units) :
                 \/ /\ \E p \in add : spec.pod.units[p].name = n
                    /\ n \notin UnitNames(old.pod.units)
                         \/ \E q \in del : old.pod.units[q].name = n
                 \/ /\ ~\E p \in add : spec.pod.units[p].name = n
                    /\ ~\E q \in del : old.pod.units[q].name = n
                    /\ Kept(n, spec, old)
           /\ \A n : n \notin UnitNames(spec.pod.units) =>
                 n \notin UnitNames(old.pod.units) \/ \E q \in del : old.pod.units[q].name = n
<1> DEFINE u == spec.pod.units
           v == old.pod.units
           add == ToAdd(spec.pod, old.pod)
           del == ToDelete(spec.pod, old.pod)
<1>1. /\ add = {j \in DOMAIN u : j \in DOMAIN v => ~UnitsEqual(u[j], v[j])}
      /\ del = {j \in DOMAIN v : j \in DOMAIN u => ~UnitsEqual(v[j], u[j])}
  BY DEF ToAdd, ToDelete, Differing
<1>2. (\A j \in DOMAIN u : u[j] \in Unit) /\ (\A j \in DOMAIN v : v[j] \in Unit)
  <2>1. u \in Seq(Unit) /\ v \in Seq(Unit)
    BY RequestTypes
  <2> HIDE DEF u, v
  <2>2. QED BY <2>1, LenProperties, ElementOfSeq
<1>3. /\ \A j, k \in DOMAIN u : u[j].name = u[k].name => j = k
      /\ \A j, k \in DOMAIN v : v[j].name = v[k].name => j = k
  BY DEF OneOfEachName
<1> DEFINE kept(n) == \E j \in DOMAIN u, k \in DOMAIN v : u[j] = v[k] /\ u[j].name = n
<1> HIDE DEF u, v, add, del
<1>4. \A x, y \in Unit : UnitsEqual(x, y) => x = y
  BY DEF UnitsEqual, Unit
<1>5. \A x, y : /\ UnitsEqual(x, y) => x.name = y.name
                /\ UnitsEqual(x, y) <=> UnitsEqual(y, x)
  BY DEF UnitsEqual
<1>6. ASSUME NEW n, n \in UnitNames(u)
      PROVE  \/ /\ \E p \in add : u[p].name = n
                /\ n \notin UnitNames(v) \/ \E q \in del : v[q].name = n
             \/ /\ ~\E p \in add : u[p].name = n
                /\ ~\E q \in del : v[q].name = n
                /\ kept(n)
  <2>1. PICK j \in DOMAIN u : u[j].name = n
    BY <1>6 DEF UnitNames
  <2>2. CASE j \in add
    <3>1. ASSUME NEW k \in DOMAIN v, v[k].name = n, k \notin del
          PROVE  FALSE
      <4>1. k \in DOMAIN u /\ UnitsEqual(v[k], u[k])
        BY <1>1, <3>1
      <4>2. u[k].name = n /\ UnitsEqual(u[k], v[k])
        BY <1>5, <3>1, <4>1
      <4>3. k = j
        BY <1>3, <2>1, <4>1, <4>2
      <4>4. QED BY <1>1, <2>2, <3>1, <4>2, <4>3
    <3>2. QED BY <2>1, <2>2, <3>1 DEF UnitNames
  <2>3. CASE j \notin add
    <3>1. j \in DOMAIN v /\ UnitsEqual(u[j], v[j])
      BY <1>1, <2>1, <2>3
    <3>2. u[j] = v[j] /\ v[j].name = n
      BY <1>2, <1>4, <2>1, <3>1
    <3>3. ~\E p \in add : u[p].name = n
      BY <1>1, <1>3, <2>1, <2>3
    <3>4. ~\E q \in del : v[q].name = n
      <4>1. ASSUME NEW q \in del, v[q].name = n
            PROVE  FALSE
        <5>1. q = j
          BY <1>1, <1>3, <3>1, <3>2, <4>1
        <5>2. QED BY <1>1, <1>5, <2>1, <3>1, <4>1, <5>1
      <4>2. QED BY <4>1
    <3>5. kept(n)
      BY <2>1, <3>1, <3>2
    <3>6. QED BY <3>3, <3>4, <3>5
  <2>4. QED BY <2>2, <2>3
<1>7. ASSUME NEW n, n \notin UnitNames(u), n \in UnitNames(v)
      PROVE  \E q \in del : v[q].name = n
  <2>1. PICK k \in DOMAIN v : v[k].name = n
    BY <1>7 DEF UnitNames
  <2>2. ASSUME k \notin del
        PROVE  FALSE
    <3>1. k \in DOMAIN u /\ u[k].name = n
      BY <1>1, <1>5, <2>1, <2>2
    <3>2. QED BY <1>7, <3>1 DEF UnitNames
  <2>3. QED BY <2>1, <2>2
<1>8. add \subseteq DOMAIN u /\ del \subseteq DOMAIN v
  BY <1>1
<1>9. \A n \in UnitNames(u) : kept(n) => Kept(n, spec, old)
  BY DEF Kept, u, v
<1> HIDE DEF kept
<1>10. QED BY <1>6, <1>7, <1>8, <1>9 DEF u, v, add, del

\* The replacement of units, and an update that changes nothing.
LEMMA UnitsChanged ==
    ASSUME NEW spec \in Requests, NEW old \in AllRequests
    PROVE  LET w == RestartUnits(spec, old)
                      \o Spawn(<<>>, Pick(spec.pod.units, ToAdd(spec.pod, old.pod))) IN
           /\ Planned(w, spec, old)
           /\ DistinctNames => Deploys(w, spec, old)
<1> DEFINE add == ToAdd(spec.pod, old.pod)
           del == ToDelete(spec.pod, old.pod)
           u == Pick(spec.pod.units, add)
           d == Pick(old.pod.units, del)
           a == Calls("RemoveContainer", d, old)
           w == a \o Calls("CreateContainer", u, spec) \o Spawn(<<>>, u)
<1>1. /\ spec \in AllRequests /\ spec.pod.units \in Seq(Unit) /\ spec.pod.inits \in Seq(Unit)
      /\ old.pod.units \in Seq(Unit)
  BY RequestTypes DEF AllRequests
<1>2. add \subseteq DOMAIN spec.pod.units /\ del \subseteq DOMAIN old.pod.units
  BY DEF ToAdd, ToDelete, Differing
<1> HIDE DEF add, del
<1>3. u \in Seq(Unit) /\ d \in Seq(Unit)
  BY <1>1, <1>2, Picked
<1>4. \A n : n \in UnitNames(u) <=> \E p \in add : spec.pod.units[p].name = n
  BY <1>1, <1>2, PickedNames
<1>5. \A n : n \in UnitNames(d) <=> \E p \in del : old.pod.units[p].name = n
  BY <1>1, <1>2, PickedNames
<1>6. OneOfEachName(spec.pod.units) => OneOfEachName(u)
  BY <1>1, <1>2, PickedOnce
<1> HIDE DEF u, d
<1>7. /\ a \in Seq(AllCalls)
      /\ \A c \in Elements(a) : c.request = old
                                /\ c \notin Creations /\ c \notin SpawnCalls /\ c \notin Wipes
      /\ \A n : Elements(a) \cap RemovalsOf(n) # {} <=> n \in UnitNames(d)
  BY <1>1, <1>3, RemovalCalls
<1> HIDE DEF a
<1>8. <<>> \in Seq(Unit) /\ Elements(<<>>) \subseteq Elements(spec.pod.inits)
  BY NoElement
<1>9. /\ Planned(w, spec, old)
      /\ \A n : Elements(w) \cap CreationsOf(n) # {} <=> n \in UnitNames(u)
      /\ \A n : Elements(w) \cap RemovalsOf(n) = Elements(a) \cap RemovalsOf(n)
      /\ Elements(w) \cap Wipes = Elements(a) \cap Wipes
      /\ OneOfEachName(u) => \A n : Ordered(w, CreationsOf(n), CreationsOf(n))
  BY <1>1, <1>3, <1>7, <1>8, PlansUnits
<1>10. w = RestartUnits(spec, old) \o Spawn(<<>>, Pick(spec.pod.units, ToAdd(spec.pod, old.pod)))
  BY DEF RestartUnits, a, u, d, add, del
<1> HIDE DEF w
<1>11. ASSUME DistinctNames
       PROVE  Deploys(w, spec, old)
  <2>1. OneOfEachName(spec.pod.units) /\ OneOfEachName(old.pod.units)
    BY <1>1, <1>11, DistinctInRequests
  <2>2. /\ \A n \in UnitNames(spec.pod.units) :
              \/ /\ n \in UnitNames(u)
                 /\ n \notin UnitNames(old.pod.units) \/ n \in UnitNames(d)
              \/ n \notin UnitNames(u) /\ n \notin UnitNames(d) /\ Kept(n, spec, old)
        /\ \A n : n \notin UnitNames(spec.pod.units) =>
              n \notin UnitNames(old.pod.units) \/ n \in UnitNames(d)
    <3>1. \A n \in UnitNames(spec.pod.units) :
             \/ /\ \E p \in add : spec.pod.units[p].name = n
                /\ n \notin UnitNames(old.pod.units)
                     \/ \E q \in del : old.pod.units[q].name = n
             \/ /\ ~\E p \in add : spec.pod.units[p].name = n
                /\ ~\E q \in del : old.pod.units[q].name = n
                /\ Kept(n, spec, old)
      BY <1>1, <2>1, Differences, ZenonT(30) DEF add, del
    <3>2. \A n : n \notin UnitNames(spec.pod.units) =>
             n \notin UnitNames(old.pod.units) \/ \E q \in del : old.pod.units[q].name = n
      BY <1>1, <2>1, Differences, ZenonT(30) DEF add, del
    <3>3. QED BY <1>4, <1>5, <3>1, <3>2
  <2>3. Elements(w) \cap Wipes = {} /\ UnitNames(u) \subseteq UnitNames(spec.pod.units)
    <3>1. Elements(w) \cap Wipes = {}
      BY <1>7, <1>9
    <3>2. UnitNames(u) \subseteq UnitNames(spec.pod.units)
      BY <1>2, <1>4 DEF UnitNames
    <3>3. QED BY <3>1, <3>2
  <2>4. /\ \A n : Elements(w) \cap CreationsOf(n) # {} <=> n \in UnitNames(u)
        /\ \A n : Elements(w) \cap RemovalsOf(n) # {} <=> n \in UnitNames(d)
        /\ \A n : Ordered(w, CreationsOf(n), CreationsOf(n))
    BY <1>6, <1>7, <1>9, <2>1
  <2>5. QED BY <2>2, <2>3, <2>4 DEF Deploys
<1>12. QED BY <1>9, <1>10, <1>11

LEMMA NoChanges ==
    ASSUME NEW spec \in Requests, NEW old \in AllRequests,
           ToAdd(spec.pod, old.pod) \cup ToDelete(spec.pod, old.pod) = {}
    PROVE  /\ Planned(<<>>, spec, old)
           /\ DistinctNames => Deploys(<<>>, spec, old)
<1>1. Planned(<<>>, spec, old)
  BY NoElement DEF Planned
<1>2. ASSUME DistinctNames
      PROVE  Deploys(<<>>, spec, old)
  <2>1. OneOfEachName(spec.pod.units) /\ OneOfEachName(old.pod.units)
    BY <1>2, DistinctInRequests DEF AllRequests
  <2>2. /\ \A n \in UnitNames(spec.pod.units) : Kept(n, spec, old)
        /\ \A n : n \notin UnitNames(spec.pod.units) => n \notin UnitNames(old.pod.units)
    BY <2>1, Differences DEF AllRequests
  <2>3. QED BY <2>2, NoElement DEF Deploys
<1>3. QED BY <1>1, <1>2

LEMMA UpdateCalls ==
    ASSUME NEW spec \in Requests, NEW old \in AllRequests
    PROVE  /\ Planned(SyncPodUnits(spec, old), spec, old)
           /\ DistinctNames => Deploys(SyncPodUnits(spec, old), spec, old)
<1> DEFINE event == DetectChangeType(spec.pod, old.pod)
           w == SyncPodUnits(spec, old)
<1>1. /\ event \in {"pod_created", "pod_restart", "units_changed", "no_changes"}
      /\ event = "pod_created" => old.pod.units = <<>>
      /\ event = "no_changes" =>
            ToAdd(spec.pod, old.pod) \cup ToDelete(spec.pod, old.pod) = {}
  BY DEF DetectChangeType
<1>2. /\ event = "pod_created" => w = CreatePod(spec) \o Spawn(spec.pod.inits, spec.pod.units)
      /\ event = "pod_restart" =>
            w = RestartPod(spec, old) \o Spawn(spec.pod.inits, spec.pod.units)
      /\ event = "units_changed" =>
            w = RestartUnits(spec, old)
                  \o Spawn(<<>>, Pick(spec.pod.units, ToAdd(spec.pod, old.pod)))
      /\ event = "no_changes" => w = <<>>
  <2> HIDE DEF event
  <2>1. QED BY <1>1 DEF SyncPodUnits, event
<1> HIDE DEF event, w
<1>3. CASE event = "pod_created"
  BY <1>1, <1>2, <1>3, PodCreated DEF w
<1>4. CASE event = "pod_restart"
  BY <1>2, <1>4, PodRestart DEF w
<1>5. CASE event = "units_changed"
  BY <1>2, <1>5, UnitsChanged DEF w
<1>6. CASE event = "no_changes"
  BY <1>1, <1>2, <1>6, NoChanges DEF w
<1>7. QED BY <1>1, <1>3, <1>4, <1>5, <1>6

-------------------------------------------------------------------------------
(* The steps of the controller and of the starter, whatever answers them.  *)

CallTypes ==
    /\ status \in AllRequests /\ target \in AllRequests
    /\ work \in Seq(AllCalls)
    /\ todo \in Seq(Unit)
    /\ updates \in 0 .. MaxUpdates /\ faults \in 0 .. MaxFaults

\* The calls that are left are in the order they were planned in, and are about
\* the request being applied and the one before it.
WorkInv ==
    /\ Ordered(work, Creations, Removals \cup Wipes)
    /\ Ordered(work, SpawnCalls, AllCalls)
    /\ \A c \in Elements(work) : /\ c \in Creations => c.request = target
                                 /\ c \in Removals \cup Wipes => c.request = status

CallInv == CallTypes /\ WorkInv

\* The calls that stand for a call on the sandbox.
Expansion(c, calls) ==
    /\ calls \in Seq(AllCalls)
    /\ \A e \in Elements(calls) :
          \/ e \in MountCalls
          \/ e \in Removals /\ c \in Wipes /\ e.request = c.request

FaultOrNot == faults' = faults \/ Fault

\* No call is made; a failure may have been logged.
SameCalls == UNCHANGED <<status, target, work, todo, updates, failed>> /\ FaultOrNot

Done == ~Idle /\ Proceed(Tail(work)) /\ todo' = todo /\ FaultOrNot
GaveUp == ~Idle /\ GiveUp /\ todo' = todo /\ FaultOrNot
Expanded ==
    /\ ~Idle
    /\ \E calls : Expansion(Head(work), calls) /\ Proceed(calls \o Tail(work))
    /\ UNCHANGED <<todo, faults>>
StartEnds == todo # <<>> /\ (Started \/ (NotStarted /\ FaultOrNot))

CallStep ==
    \/ SameCalls
    \/ \E r \in Requests : BeginUpdate(r)
    \/ SpawnStarter
    \/ Done
    \/ GaveUp
    \/ Expanded
    \/ StartEnds

\* What is left of a plan is a plan.
LEMMA WorkTail ==
    ASSUME CallInv, ~Idle
    PROVE  /\ Head(work) \in AllCalls /\ Tail(work) \in Seq(AllCalls)
           /\ Elements(work) = {Head(work)} \cup Elements(Tail(work))
           /\ Ordered(Tail(work), Creations, Removals \cup Wipes)
           /\ Ordered(Tail(work), SpawnCalls, AllCalls)
           /\ Head(work) \in Creations =>
                 Elements(Tail(work)) \cap Removals = {} /\ Elements(Tail(work)) \cap Wipes = {}
           /\ Head(work) \in SpawnCalls => Tail(work) = <<>>
<1>1. work \in Seq(AllCalls) /\ work # <<>>
  BY DEF CallInv, CallTypes, Idle
<1>2. /\ Head(work) \in AllCalls /\ Tail(work) \in Seq(AllCalls)
      /\ Elements(work) = {Head(work)} \cup Elements(Tail(work))
  BY <1>1, HeadAndTail
<1>3. /\ Ordered(Tail(work), Creations, Removals \cup Wipes)
      /\ Head(work) \in Creations => Elements(Tail(work)) \cap (Removals \cup Wipes) = {}
  BY <1>1, OrderedTail DEF CallInv, WorkInv
<1>4. /\ Ordered(Tail(work), SpawnCalls, AllCalls)
      /\ Head(work) \in SpawnCalls => Elements(Tail(work)) \cap AllCalls = {}
  BY <1>1, OrderedTail DEF CallInv, WorkInv
<1>5. Elements(Tail(work)) \cap AllCalls = {} => Tail(work) = <<>>
  <2> DEFINE t == Tail(work)
  <2>1. t \in Seq(AllCalls)
    BY <1>2
  <2> HIDE DEF t
  <2>2. t # <<>> => Head(t) \in Elements(t) /\ Head(t) \in AllCalls
    BY <2>1, HeadAndTail
  <2>3. QED BY <2>2 DEF t
<1>6. QED BY <1>2, <1>3, <1>4, <1>5

LEMMA CallsKeep ==
    ASSUME CallInv, CallStep
    PROVE  CallInv'
<1> USE DEF CallInv
<1>1. CASE SameCalls
  BY <1>1, RequestsAssumption DEF SameCalls, FaultOrNot, Fault, CallTypes, WorkInv
<1>2. ASSUME NEW r \in Requests, BeginUpdate(r)
      PROVE  CallInv'
  <2>1. /\ work' = SyncPodUnits(r, status) /\ target' = r
        /\ status' = IF work' = <<>> THEN r ELSE status
        /\ updates' = updates + 1 /\ updates < MaxUpdates
        /\ UNCHANGED <<todo, faults>>
    BY <1>2 DEF BeginUpdate
  <2>2. Planned(work', r, status)
    BY <2>1, UpdateCalls DEF CallTypes
  <2>3. CallTypes'
    BY <2>1, <2>2, RequestsAssumption DEF CallTypes, Planned, AllRequests
  <2>4. work' # <<>> => status' = status
    BY <2>1
  <2>5. work' = <<>> => Elements(work') = {}
    BY NoElement
  <2>6. WorkInv'
    BY <2>1, <2>2, <2>4, <2>5 DEF WorkInv, Planned
  <2>7. QED BY <2>3, <2>6
<1>3. ASSUME ~Idle, NEW rest \in Seq(AllCalls), Proceed(rest),
             Ordered(rest, Creations, Removals \cup Wipes),
             Ordered(rest, SpawnCalls, AllCalls),
             \A c \in Elements(rest) : /\ c \in Creations => c.request = target
                                       /\ c \in Removals \cup Wipes => c.request = status,
             todo' \in Seq(Unit), FaultOrNot
      PROVE  CallInv'
  <2>1. /\ work' = rest /\ UNCHANGED <<target, updates>>
        /\ status' = IF rest = <<>> THEN target ELSE status
    BY <1>3 DEF Proceed
  <2>2. CallTypes'
    BY <1>3, <2>1, RequestsAssumption DEF CallTypes, FaultOrNot, Fault
  <2>3. rest = <<>> => Elements(rest) = {}
    BY NoElement
  <2>4. WorkInv'
    BY <1>3, <2>1, <2>3 DEF WorkInv
  <2>5. QED BY <2>2, <2>4
<1>4. CASE Done
  BY <1>3, <1>4, WorkTail DEF Done, CallTypes, WorkInv
<1>5. CASE SpawnStarter
  <2>1. ~Idle /\ Proceed(Tail(work)) /\ faults' = faults /\ Head(work).op = "spawn"
        /\ todo' = Head(work).units
    BY <1>5 DEF SpawnStarter, Next_, Ok
  <2>2. todo' \in Seq(Unit)
    BY <2>1, WorkTail, CallKinds DEF SpawnCalls
  <2>3. QED BY <1>3, <2>1, <2>2, WorkTail DEF WorkInv, FaultOrNot
<1>6. CASE GaveUp
  <2>1. /\ work' = <<>> /\ status' = target /\ UNCHANGED <<target, updates, todo>>
        /\ FaultOrNot
    BY <1>6 DEF GaveUp, GiveUp
  <2>2. CallTypes'
    BY <2>1, RequestsAssumption, NoElement DEF CallTypes, FaultOrNot, Fault
  <2>3. WorkInv'
    BY <2>1, NoElement DEF WorkInv
  <2>4. QED BY <2>2, <2>3
<1>7. CASE Expanded
  <2>1. PICK calls : Expansion(Head(work), calls) /\ Proceed(calls \o Tail(work))
    BY <1>7 DEF Expanded
  <2> DEFINE t == Tail(work)
  <2>2. ~Idle /\ UNCHANGED <<todo, faults>>
    BY <1>7 DEF Expanded
  <2>3. /\ t \in Seq(AllCalls) /\ calls \in Seq(AllCalls) /\ Head(work) \in Elements(work)
        /\ \A c \in Elements(t) : c \in Elements(work)
        /\ Ordered(t, Creations, Removals \cup Wipes) /\ Ordered(t, SpawnCalls, AllCalls)
    BY <2>1, <2>2, WorkTail DEF Expansion
  <2>4. \A e \in Elements(calls) :
           /\ e \notin Creations /\ e \notin SpawnCalls /\ e \notin Wipes
           /\ e \in Removals => e.request = status
    BY <2>1, <2>3, KindsDiffer DEF Expansion, WorkInv
  <2> HIDE DEF t
  <2>5. calls \o t \in Seq(AllCalls) /\ Elements(calls \o t) = Elements(calls) \cup Elements(t)
    BY <2>3, Concatenated
  <2>6. /\ Ordered(calls, Creations, Removals \cup Wipes) /\ Ordered(calls, SpawnCalls, AllCalls)
        /\ Elements(calls) \cap Creations = {} /\ Elements(calls) \cap SpawnCalls = {}
    BY <2>4, Unordered
  <2>7. /\ Ordered(calls \o t, Creations, Removals \cup Wipes)
        /\ Ordered(calls \o t, SpawnCalls, AllCalls)
    BY <2>3, <2>6, OrderedConcatenation
  <2>8. \A c \in Elements(calls \o t) : /\ c \in Creations => c.request = target
                                        /\ c \in Removals \cup Wipes => c.request = status
    BY <2>3, <2>4, <2>5 DEF WorkInv
  <2>9. Proceed(calls \o t)
    BY <2>1 DEF t
  <2>10. todo' \in Seq(Unit) /\ FaultOrNot
    BY <2>2 DEF CallTypes, FaultOrNot
  <2>11. QED BY <1>3, <2>2, <2>5, <2>7, <2>8, <2>9, <2>10
<1>8. CASE StartEnds
  <2>1. /\ UNCHANGED <<status, target, work, updates>> /\ FaultOrNot
        /\ todo' = Tail(todo) \/ todo' = <<>>
    BY <1>8 DEF StartEnds, Started, NotStarted, FaultOrNot
  <2>2. todo' \in Seq(Unit)
    <3>1. todo \in Seq(Unit) /\ todo # <<>>
      BY <1>8 DEF StartEnds, CallTypes
    <3>2. Tail(todo) \in Seq(Unit) /\ <<>> \in Seq(Unit)
      BY <3>1, HeadAndTail
    <3>3. QED BY <2>1, <3>2
  <2>3. CallTypes'
    BY <2>1, <2>2, RequestsAssumption DEF CallTypes, FaultOrNot, Fault
  <2>4. WorkInv'
    BY <2>1 DEF WorkInv
  <2>5. QED BY <2>3, <2>4
<1>9. QED BY <1>1, <1>2, <1>4, <1>5, <1>6, <1>7, <1>8 DEF CallStep

-------------------------------------------------------------------------------
(* The types of what the runtimes keep.                                    *)

Layers == {"bind", "tmpfs"}
Count(vs, v) == Cardinality({i \in DOMAIN vs : vs[i] = v})

ItzoTypes ==
    /\ source \in Sources
    /\ entry \in [Volumes -> {"none", "dir", "link"}]
    /\ layers \in [Volumes -> Seq(Layers)]
    /\ hostfile \in [Volumes -> Files]
    /\ dir \subseteq Names /\ helper \subseteq Names /\ overlaid \subseteq Names
    /\ attached \in [Names -> [Volumes -> Nat]]
    /\ stopped \in BOOLEAN /\ detaching \in Seq(Volumes)
    /\ leftMounted \subseteq Names /\ emptied \subseteq Volumes

PodmanTypes == ctr \in [Names -> {"none", "created", "running", "exited"}]

MacTypes ==
    /\ vmid \subseteq Names
    /\ image \in [Names -> Images]
    /\ vm \in [Images -> {"absent", "stopped", "running"}]

LEMMA CountType ==
    ASSUME NEW vs \in Seq(Volumes), NEW v
    PROVE  Count(vs, v) \in Nat
<1>1. Len(vs) \in Nat /\ {i \in DOMAIN vs : vs[i] = v} \subseteq 1 .. Len(vs)
  BY LenProperties
<1>2. QED BY <1>1, InOrderEnumerates DEF Count

LEMMA Prefix ==
    ASSUME NEW S, NEW s \in Seq(S), NEW n \in 0 .. Len(s)
    PROVE  SubSeq(s, 1, n) \in Seq(S)
<1>1. Len(s) \in Nat
  BY LenProperties
<1>2. QED BY <1>1, SubSeqProperties

LEMMA ReachType ==
    ASSUME NEW vs \in Seq(Volumes)
    PROVE  Reach(vs) \in 0 .. Len(vs)
<1> DEFINE absent == {i \in DOMAIN vs : ~Resolves(vs[i])}
<1>1. Len(vs) \in Nat /\ absent \subseteq 1 .. Len(vs)
  BY LenProperties
<1>2. Reach(vs) = IF absent = {} THEN Len(vs)
                  ELSE (CHOOSE i \in absent : \A j \in absent : i <= j) - 1
  BY DEF Reach
<1> HIDE DEF absent
<1>3. CASE absent = {}
  BY <1>1, <1>2, <1>3
<1>4. CASE absent # {}
  <2> DEFINE m == CHOOSE i \in absent : \A j \in absent : i <= j
  <2>1. absent \subseteq Nat
    BY <1>1
  <2>2. \E x \in absent : \A y \in absent : x <= y
    BY <1>4, <2>1, Least
  <2>3. m \in absent
    BY <2>2
  <2>4. Reach(vs) = m - 1
    BY <1>2, <1>4
  <2> HIDE DEF m
  <2>5. m \in 1 .. Len(vs)
    BY <1>1, <2>3
  <2>6. QED BY <1>1, <2>4, <2>5
<1>5. QED BY <1>3, <1>4

LEMMA AttachedType ==
    ASSUME ItzoTypes, NEW name \in Names, NEW vs \in Seq(Volumes)
    PROVE  /\ Attached(name, vs) \in [Names -> [Volumes -> Nat]]
           /\ \A n \in Names : n # name => Attached(name, vs)[n] = attached[n]
           /\ \A v \in Volumes : Attached(name, vs)[name][v] = attached[name][v] + Count(vs, v)
<1> DEFINE f == [v \in Volumes |-> attached[name][v] + Count(vs, v)]
<1>1. f \in [Volumes -> Nat]
  BY CountType DEF ItzoTypes
<1>2. Attached(name, vs) = [attached EXCEPT ![name] = f]
  BY DEF Attached, ItzoTypes, Count
<1>3. \A v \in Volumes : f[v] = attached[name][v] + Count(vs, v)
  OBVIOUS
<1> HIDE DEF f
<1>4. QED BY <1>1, <1>2, <1>3 DEF ItzoTypes

LEMMA CountNone ==
    ASSUME NEW v
    PROVE  Count(<<>>, v) = 0
<1>1. {i \in DOMAIN <<>> : <<>>[i] = v} = {}
  OBVIOUS
<1>2. QED BY <1>1, FS_EmptySet DEF Count

\* The first volume is one of those that are counted.
LEMMA CountTail ==
    ASSUME NEW vs \in Seq(Volumes), vs # <<>>, NEW v
    PROVE  Count(vs, v) = Count(Tail(vs), v) + (IF Head(vs) = v THEN 1 ELSE 0)
<1> DEFINE n == Len(vs)
           S == {i \in 1 .. n : vs[i] = v}
           T == {i \in 1 .. n - 1 : vs[i + 1] = v}
           R == S \ {1}
<1>1. /\ n \in Nat \ {0} /\ DOMAIN vs = 1 .. n /\ Head(vs) = vs[1]
      /\ Tail(vs) \in Seq(Volumes) /\ DOMAIN Tail(vs) = 1 .. n - 1
      /\ \A i \in 1 .. n - 1 : Tail(vs)[i] = vs[i + 1]
  BY HeadTailProperties, LenProperties, EmptySeq
<1>2. Count(vs, v) = Cardinality(S) /\ Count(Tail(vs), v) = Cardinality(T)
  <2>1. {i \in DOMAIN Tail(vs) : Tail(vs)[i] = v} = T
    BY <1>1
  <2>2. QED BY <1>1, <2>1 DEF Count
<1> HIDE DEF n
<1>3. IsFiniteSet(S) /\ IsFiniteSet(T) /\ Cardinality(S) \in Nat /\ Cardinality(T) \in Nat
  <2>1. IsFiniteSet(1 .. n) /\ S \subseteq 1 .. n /\ T \subseteq 1 .. n
    BY <1>1, FS_Interval
  <2>2. QED BY <2>1, FS_Subset, FS_CardinalityType
<1> DEFINE f == [i \in R |-> i - 1]
<1>4. f \in Bijection(R, T)
  <2>1. \A i \in R : i - 1 \in T
    BY <1>1
  <2>2. f \in [R -> T]
    BY <2>1
  <2>3. \A i, j \in R : f[i] = f[j] => i = j
    BY <1>1
  <2>4. \A j \in T : j + 1 \in R /\ f[j + 1] = j
    BY <1>1
  <2> HIDE DEF f
  <2>5. f \in Injection(R, T)
    BY <2>2, <2>3 DEF Injection, IsInjective
  <2>6. f \in Surjection(R, T)
    BY <2>2, <2>4 DEF Surjection
  <2>7. QED BY <2>5, <2>6 DEF Bijection
<1> HIDE DEF f
<1>5. IsFiniteSet(R) /\ Cardinality(R) = Cardinality(T)
  <2>1. IsFiniteSet(R)
    BY <1>3, FS_Subset
  <2>2. ExistsBijection(R, T)
    BY <1>4 DEF ExistsBijection
  <2>3. QED BY <1>3, <1>4, <2>1, <2>2, FS_Bijection
<1>6. CASE Head(vs) = v
  <2>1. 1 \in S
    BY <1>1, <1>6
  <2> HIDE DEF S, T
  <2>2. Cardinality(R) = Cardinality(S) - 1
    BY <1>3, <2>1, FS_RemoveElement
  <2>3. QED BY <1>2, <1>3, <1>5, <1>6, <2>2
<1>7. CASE Head(vs) # v
  <2>1. R = S
    BY <1>1, <1>7
  <2> HIDE DEF S, T, R
  <2>2. QED BY <1>2, <1>3, <1>5, <1>7, <2>1
<1>8. QED BY <1>6, <1>7

\* What a detached mount leaves attached.
LEMMA DetachedType ==
    ASSUME ItzoTypes, NEW name \in Names, NEW v \in Volumes
    PROVE  [attached EXCEPT ![name][v] = Detached(name, v)] \in [Names -> [Volumes -> Nat]]
<1>1. attached[name] \in [Volumes -> Nat] /\ Detached(name, v) \in Nat
  BY DEF ItzoTypes, Detached
<1>2. [attached[name] EXCEPT ![v] = Detached(name, v)] \in [Volumes -> Nat]
  BY <1>1
<1>3. QED BY <1>2 DEF ItzoTypes

-------------------------------------------------------------------------------
(* What the answers of a runtime do to the units.                          *)

\* A step that is about no unit's creation or removal.
Quiet ==
    \/ SameCalls
    \/ StartEnds
    \/ GaveUp
    \/ Expanded /\ Head(work) \in SandboxCalls
    \/ Done /\ Head(work) \in SandboxCalls \cup MountCalls

LEMMA QuietIsCallStep ==
    ASSUME Quiet
    PROVE  CallStep
BY DEF Quiet, CallStep

LEMMA HeadCalls ==
    ASSUME CallInv, ~Idle
    PROVE  /\ Head(work) \in AllCalls
           /\ Head(work).op = "CreateContainer" => Head(work) \in Creations
           /\ Head(work).op = "RemoveContainer" => Head(work) \in Removals
           /\ Head(work).op = "RemovePodSandbox" => Head(work) \in Wipes
           /\ Head(work).op \in {"RunPodSandbox", "StopPodSandbox", "RemovePodSandbox"} =>
                 Head(work) \in SandboxCalls
           /\ Head(work).op \in {"CreateMount", "DeleteMount"} =>
                 Head(work) \in MountCalls /\ Head(work).volume \in Volumes
           /\ Head(work) \in UnitCalls =>
                 /\ Head(work).unit \in Unit /\ Head(work).unit.name \in Names
                 /\ Head(work).unit.image \in Images
                 /\ Head(work).request \in AllRequests
                 /\ \A n \in Names : Head(work).request.mounts[n] \in Seq(Volumes)
           /\ Head(work) \in SandboxCalls => Head(work).request \in AllRequests
<1>1. Head(work) \in AllCalls
  BY WorkTail
<1> DEFINE c == Head(work)
<1>2. c \in AllCalls
  BY <1>1
<1> HIDE DEF c
<1>3. /\ c.op = "CreateContainer" => c \in Creations
      /\ c.op = "RemoveContainer" => c \in Removals
      /\ c.op = "RemovePodSandbox" => c \in Wipes
      /\ c.op \in {"RunPodSandbox", "StopPodSandbox"} => c \in SandboxCalls
      /\ c.op \in {"CreateMount", "DeleteMount"} => c \in MountCalls
  BY <1>2, CallKinds
<1>4. c \in Wipes => c \in SandboxCalls
  BY DEF Wipes
<1>5. c \in MountCalls => c.volume \in Volumes
  BY DEF MountCalls
<1>6. c \in SandboxCalls => c.request \in AllRequests
  BY DEF SandboxCalls
<1>7. c \in UnitCalls =>
         /\ c.unit \in Unit /\ c.unit.name \in Names /\ c.unit.image \in Images
         /\ c.request \in AllRequests
  BY KindsDiffer
<1>8. c \in UnitCalls => \A n \in Names : c.request.mounts[n] \in Seq(Volumes)
  BY <1>7, RequestTypes
<1>9. QED BY <1>2, <1>3, <1>4, <1>5, <1>6, <1>7, <1>8 DEF c

\* An answer to the call at the head of work.
LEMMA Answers ==
    ASSUME ~Idle, todo' = todo
    PROVE  /\ Ok => Done
           /\ Refused => GaveUp
           /\ Broken => GaveUp
           /\ Proceed(Tail(work)) /\ FaultOrNot => Done
BY DEF Ok, Refused, Broken, Done, GaveUp, FaultOrNot

\* Nothing is detached, and RemoveContainer does not go on.
QuietEffect ==
    /\ UNCHANGED <<attached, removalVars>> /\ dir \subseteq dir' /\ Quiet
    /\ work' = work \/ (~Idle /\ Head(work).op # "RemoveContainer")

CreateEffect ==
    LET name == Head(work).unit.name IN
    /\ ~Idle /\ Head(work) \in Creations
    /\ UNCHANGED removalVars
    /\ \/ GaveUp
       \/ /\ Done
          /\ dir' = dir \cup {name}
          /\ attached' = Attached(name, Head(work).request.mounts[name])

\* RemoveContainer has a unit to remove.
Removing(name) == ~Idle /\ Head(work) \in Removals /\ Head(work).unit.name = name

StopEffect(name) ==
    /\ ~stopped /\ stopped'
    /\ detaching' = Head(work).request.mounts[name]
    /\ UNCHANGED <<attached, leftMounted, emptied>> /\ dir \subseteq dir'
    /\ SameCalls

DetachEffect(name) ==
    /\ stopped /\ stopped' /\ detaching # <<>>
    /\ detaching' = Tail(detaching)
    /\ \/ /\ UNCHANGED leftMounted
          /\ attached' = [attached EXCEPT ![name][Head(detaching)] =
                                                Detached(name, Head(detaching))]
       \/ leftMounted' = leftMounted \cup {name} /\ UNCHANGED attached
    /\ UNCHANGED <<dir, emptied>>
    /\ SameCalls

\* What is emptied is still mounted, in a unit that is no overlay any more unless
\* its unmount failed.
RemoveEffect(name) ==
    /\ stopped /\ ~stopped' /\ detaching = <<>>
    /\ \/ Done /\ dir' = dir \ {name} /\ attached'[name] = None
       \/ GaveUp
    /\ \A n \in Names \ {name} : attached'[n] = attached[n]
    /\ emptied' = emptied \/ name \in leftMounted' \/ attached[name] # None
    /\ name \in leftMounted => name \in leftMounted' \/ emptied' = emptied

ItzoEffect ==
    \/ QuietEffect
    \/ CreateEffect
    \/ \E name \in Names : Removing(name) /\ \/ StopEffect(name)
                                             \/ DetachEffect(name)
                                             \/ RemoveEffect(name)

LEMMA ItzoSandboxStep ==
    ASSUME CallInv, ItzoTypes, ItzoSandbox
    PROVE  CallStep /\ ItzoTypes' /\ ItzoEffect
<1> DEFINE c == Head(work)
           request == c.request
           run == VolumeCalls("CreateMount", request)
           removals == Calls("RemoveContainer", request.pod.inits \o request.pod.units, request)
           deletions == VolumeCalls("DeleteMount", request)
<1>1. UNCHANGED itzoVars /\ UNCHANGED <<todo, faults>>
  BY DEF ItzoSandbox, Expand
<1>2. ~Idle /\ c.op \in {"RunPodSandbox", "StopPodSandbox", "RemovePodSandbox"}
  BY DEF ItzoSandbox, Next_
<1>3. /\ c \in SandboxCalls /\ request \in AllRequests
      /\ c.op = "RemovePodSandbox" => c \in Wipes
  BY <1>2, HeadCalls
<1>4. \/ c.op = "RunPodSandbox" /\ Proceed(run \o Tail(work))
      \/ c.op = "StopPodSandbox" /\ Proceed(<<>> \o Tail(work))
      \/ c.op = "RemovePodSandbox" /\ Proceed((removals \o deletions) \o Tail(work))
  BY DEF ItzoSandbox, Next_, Expand
<1>5. Expansion(c, run)
  <2>1. /\ run \in Seq(AllCalls) /\ \A e \in Elements(run) : e \in MountCalls
    BY <1>3, VolumeCallTypes
  <2> HIDE DEF run
  <2>2. QED BY <2>1 DEF Expansion
<1>6. Expansion(c, <<>>)
  BY NoElement DEF Expansion
<1>7. ASSUME c.op = "RemovePodSandbox"
      PROVE  Expansion(c, removals \o deletions)
  <2> DEFINE units == request.pod.inits \o request.pod.units
  <2>1. units \in Seq(Unit)
    BY <1>3, RequestTypes, Concatenated
  <2> HIDE DEF units
  <2>2. /\ removals \in Seq(AllCalls)
        /\ \A e \in Elements(removals) : e \in Removals /\ e.request = request
    BY <1>3, <2>1, RemovalCalls DEF units
  <2>3. /\ deletions \in Seq(AllCalls)
        /\ \A e \in Elements(deletions) : e \in MountCalls
    BY <1>3, VolumeCallTypes
  <2> HIDE DEF removals, deletions
  <2>4. /\ removals \o deletions \in Seq(AllCalls)
        /\ Elements(removals \o deletions) = Elements(removals) \cup Elements(deletions)
    BY <2>2, <2>3, Concatenated
  <2>5. QED BY <1>3, <1>7, <2>2, <2>3, <2>4 DEF Expansion
<1> HIDE DEF run, removals, deletions
<1>8. Expanded
  BY <1>1, <1>2, <1>4, <1>5, <1>6, <1>7 DEF Expanded
<1>9. CallStep
  BY <1>8 DEF CallStep
<1>10. ItzoTypes'
  BY <1>1 DEF ItzoTypes, itzoVars, volumeVars, unitVars, removalVars
<1>11. ItzoEffect
  BY <1>1, <1>2, <1>3, <1>8 DEF ItzoEffect, QuietEffect, Quiet, itzoVars, unitVars
<1>12. QED BY <1>9, <1>10, <1>11

LEMMA EmptyDirMountsType ==
    ASSUME NEW v
    PROVE  EmptyDirMounts(v) \in Seq(Layers)
<1>1. <<"bind", "tmpfs">> \in Seq(Layers) /\ <<"bind">> \in Seq(Layers) /\ <<>> \in Seq(Layers)
  BY DEF Layers
<1> DEFINE two == <<"bind", "tmpfs">>
           one == <<"bind">>
           none == <<>>
<1>2. EmptyDirMounts(v) \in {two, one, none}
  <2>1. EmptyDirMounts(v) = CASE source[v] = "memory" -> two
                              [] source[v] \in EmptyDirs \ {"memory"} -> one
                              [] OTHER -> none
    BY DEF EmptyDirMounts
  <2> HIDE DEF two, one, none
  <2>2. QED BY <2>1
<1>3. QED BY <1>1, <1>2

LEMMA MakeEmptyDirTypes ==
    ASSUME ItzoTypes, NEW v \in Volumes, NEW n \in 0 .. Len(EmptyDirMounts(v)),
           MakeEmptyDir(v, n)
    PROVE  /\ entry' \in [Volumes -> {"none", "dir", "link"}]
           /\ layers' \in [Volumes -> Seq(Layers)]
<1> DEFINE some == SubSeq(EmptyDirMounts(v), 1, n)
           all == layers[v] \o some
<1>1. EmptyDirMounts(v) \in Seq(Layers)
  BY EmptyDirMountsType
<1>2. some \in Seq(Layers)
  BY <1>1, Prefix
<1>3. layers[v] \in Seq(Layers)
  BY DEF ItzoTypes
<1> HIDE DEF some
<1>4. all \in Seq(Layers)
  BY <1>2, <1>3, Concatenated
<1>5. layers' = [layers EXCEPT ![v] = all]
  BY DEF MakeEmptyDir, ItzoTypes, some
<1> HIDE DEF all
<1>6. layers' \in [Volumes -> Seq(Layers)]
  BY <1>4, <1>5 DEF ItzoTypes
<1>7. entry' \in [Volumes -> {"none", "dir", "link"}]
  BY DEF MakeEmptyDir, ItzoTypes
<1>8. QED BY <1>6, <1>7

LEMMA EnsureHostPathTypes ==
    ASSUME ItzoTypes, NEW v \in Volumes, EnsureHostPath(v)
    PROVE  hostfile' \in [Volumes -> Files]
<1> DEFINE f == Ensured(source[v], hostfile[v])
<1>1. f \in Files
  BY DEF Ensured, ItzoTypes, Files
<1>2. hostfile' = [hostfile EXCEPT ![v] = f]
  BY DEF EnsureHostPath, ItzoTypes
<1> HIDE DEF f
<1>3. QED BY <1>1, <1>2 DEF ItzoTypes

LEMMA MountStep ==
    ASSUME CallInv, ItzoTypes,
           \/ Next_("CreateMount") /\ CreateMount(Head(work).volume)
           \/ Next_("DeleteMount") /\ DeleteMount(Head(work).volume)
    PROVE  CallStep /\ ItzoTypes' /\ ItzoEffect
<1> DEFINE v == Head(work).volume
<1>1. ~Idle /\ Head(work).op \in {"CreateMount", "DeleteMount"}
  BY DEF Next_
<1>2. Head(work) \in MountCalls /\ v \in Volumes
  BY <1>1, HeadCalls
<1> HIDE DEF v
<1>3. UNCHANGED <<source, unitVars, todo>>
  BY DEF CreateMount, DeleteMount
<1>4. Done \/ GaveUp
  <2>1. CASE CreateMount(v)
    <3>1. Ok \/ Refused \/ Broken
      BY <2>1 DEF CreateMount
    <3>2. QED BY <1>1, <1>3, <3>1, Answers
  <2>2. CASE DeleteMount(v)
    <3>1. Ok \/ Refused \/ Broken
      BY <2>2 DEF DeleteMount
    <3>2. QED BY <1>1, <1>3, <3>1, Answers
  <2>3. QED BY <2>1, <2>2 DEF v
<1>5. /\ entry' \in [Volumes -> {"none", "dir", "link"}]
      /\ layers' \in [Volumes -> Seq(Layers)]
      /\ hostfile' \in [Volumes -> Files]
  <2>1. CASE CreateMount(v)
    <3> DEFINE all == Len(EmptyDirMounts(v))
    <3>1. all \in Nat
      BY EmptyDirMountsType, LenProperties
    <3>2. \/ /\ \/ MakesLink(v) /\ entry' = [entry EXCEPT ![v] = "link"] /\ UNCHANGED layers
                \/ MakeEmptyDir(v, all)
             /\ EnsureHostPath(v)
          \/ /\ \E n \in 0 .. all : MakeEmptyDir(v, n)
             /\ EnsureHostPath(v) \/ UNCHANGED hostfile
      BY <2>1 DEF CreateMount
    <3>3. hostfile' \in [Volumes -> Files]
      BY <1>2, <3>2, EnsureHostPathTypes DEF ItzoTypes
    <3>4. all \in 0 .. all
      BY <3>1
    <3>5. (\E n \in 0 .. all : MakeEmptyDir(v, n)) =>
             /\ entry' \in [Volumes -> {"none", "dir", "link"}]
             /\ layers' \in [Volumes -> Seq(Layers)]
      BY <1>2, MakeEmptyDirTypes
    <3> HIDE DEF all
    <3>6. CASE entry' = [entry EXCEPT ![v] = "link"] /\ UNCHANGED layers
      BY <3>3, <3>6 DEF ItzoTypes
    <3>7. QED BY <3>2, <3>3, <3>4, <3>5, <3>6
  <2>2. CASE DeleteMount(v)
    <3>1. hostfile' = hostfile
      BY <2>2 DEF DeleteMount
    <3>2. entry' = entry \/ entry' = [entry EXCEPT ![v] = "none"]
      BY <2>2 DEF DeleteMount
    <3>3. \/ layers' = layers
          \/ layers[v] # <<>> /\ layers' = [layers EXCEPT ![v] = SubSeq(@, 1, Len(@) - 1)]
      BY <2>2 DEF DeleteMount, UnmountsTmpfs
    <3>4. ASSUME layers[v] # <<>>, layers' = [layers EXCEPT ![v] = SubSeq(@, 1, Len(@) - 1)]
          PROVE  layers' \in [Volumes -> Seq(Layers)]
      <4> DEFINE s == layers[v]
                 t == SubSeq(s, 1, Len(s) - 1)
      <4>1. s \in Seq(Layers)
        BY <1>2 DEF ItzoTypes
      <4>2. s # <<>> /\ layers' = [layers EXCEPT ![v] = t]
        BY <1>2, <3>4 DEF ItzoTypes
      <4> HIDE DEF s
      <4>3. Len(s) - 1 \in 0 .. Len(s)
        BY <4>1, <4>2, HeadAndTail, LenProperties
      <4>4. t \in Seq(Layers)
        BY <4>1, <4>3, Prefix
      <4> HIDE DEF t
      <4>5. QED BY <1>2, <4>2, <4>4 DEF ItzoTypes
    <3>5. QED BY <1>2, <3>1, <3>2, <3>3, <3>4 DEF ItzoTypes
  <2>3. QED BY <2>1, <2>2 DEF v
<1>6. ItzoTypes'
  BY <1>3, <1>5 DEF ItzoTypes, unitVars, removalVars
<1>7. Quiet
  BY <1>2, <1>4 DEF Quiet
<1>8. ItzoEffect
  BY <1>1, <1>3, <1>7 DEF ItzoEffect, QuietEffect, unitVars
<1>9. QED BY <1>6, <1>7, <1>8, QuietIsCallStep

LEMMA ItzoCreateStep ==
    ASSUME CallInv, ItzoTypes, Next_("CreateContainer"),
           ItzoCreateContainer(Head(work).unit, Head(work).request)
    PROVE  CallStep /\ ItzoTypes' /\ ItzoEffect
<1> DEFINE name == Head(work).unit.name
           vs == Head(work).request.mounts[name]
<1>1. ~Idle /\ Head(work).op = "CreateContainer"
  BY DEF Next_
<1>2. Head(work) \in Creations /\ name \in Names /\ vs \in Seq(Volumes)
  <2>1. Head(work) \in Creations
    BY <1>1, HeadCalls
  <2>2. Head(work) \in UnitCalls
    BY <2>1 DEF Creations
  <2>3. QED BY <1>1, <2>1, <2>2, HeadCalls
<1>3. /\ UNCHANGED <<source, volumeVars, helper, removalVars, todo>>
      /\ dir' = dir \cup {name}
      /\ overlaid' \subseteq overlaid \cup {name}
      /\ \/ /\ attached' = Attached(name, SubSeq(vs, 1, Reach(vs)))
            /\ IF Reach(vs) = Len(vs) THEN Ok ELSE Refused
         \/ \E n \in 0 .. Reach(vs) : attached' = Attached(name, SubSeq(vs, 1, n)) /\ Broken
         \/ attached' = attached /\ Broken
  BY DEF ItzoCreateContainer, MakeUnit, MakeRootfs
<1> HIDE DEF name, vs
<1>4. Reach(vs) \in 0 .. Len(vs) /\ Len(vs) \in Nat
  BY <1>2, ReachType, LenProperties
<1>5. \/ /\ attached' = Attached(name, vs) /\ Ok
      \/ /\ \/ \E n \in 0 .. Len(vs) : attached' = Attached(name, SubSeq(vs, 1, n))
            \/ attached' = attached
         /\ Refused \/ Broken
  <2>1. CASE attached' = Attached(name, SubSeq(vs, 1, Reach(vs)))
               /\ IF Reach(vs) = Len(vs) THEN Ok ELSE Refused
    <3>1. SubSeq(vs, 1, Len(vs)) = vs
      BY <1>2, SubSeqFull
    <3>2. QED BY <1>4, <2>1, <3>1
  <2>2. ASSUME NEW n \in 0 .. Reach(vs), attached' = Attached(name, SubSeq(vs, 1, n)), Broken
        PROVE  n \in 0 .. Len(vs)
    BY <1>4, <2>2
  <2>3. QED BY <1>3, <2>1, <2>2
<1>6. \A n \in 0 .. Len(vs) : SubSeq(vs, 1, n) \in Seq(Volumes)
  BY <1>2, Prefix
<1>7. attached' \in [Names -> [Volumes -> Nat]]
  <2>1. \A n \in 0 .. Len(vs) : Attached(name, SubSeq(vs, 1, n)) \in [Names -> [Volumes -> Nat]]
    BY <1>2, <1>6, AttachedType
  <2>2. Attached(name, vs) \in [Names -> [Volumes -> Nat]]
    BY <1>2, AttachedType
  <2>3. QED BY <1>5, <2>1, <2>2 DEF ItzoTypes
<1>9. (Done /\ attached' = Attached(name, vs)) \/ GaveUp
  BY <1>1, <1>3, <1>5, Answers
<1>10. ItzoTypes'
  BY <1>2, <1>3, <1>7 DEF ItzoTypes, volumeVars, removalVars
<1>11. ItzoEffect
  BY <1>1, <1>2, <1>3, <1>9 DEF ItzoEffect, CreateEffect, name, vs
<1>12. CallStep
  BY <1>9 DEF CallStep
<1>13. QED BY <1>10, <1>11, <1>12

LEMMA ItzoRemoveStep ==
    ASSUME CallInv, ItzoTypes, Next_("RemoveContainer"),
           ItzoRemoveContainer(Head(work).unit, Head(work).request)
    PROVE  CallStep /\ ItzoTypes' /\ ItzoEffect
<1> DEFINE unit == Head(work).unit
           name == unit.name
           vs == Head(work).request.mounts[name]
<1>1. ~Idle /\ Head(work).op = "RemoveContainer"
  BY DEF Next_
<1>2. Removing(name) /\ name \in Names /\ vs \in Seq(Volumes)
  <2>1. Head(work) \in Removals
    BY <1>1, HeadCalls
  <2>2. Head(work) \in UnitCalls
    BY <2>1 DEF Removals
  <2>3. QED BY <1>1, <2>1, <2>2, HeadCalls DEF Removing
<1>3. ASSUME StopUnit(unit, Head(work).request)
      PROVE  CallStep /\ ItzoTypes' /\ StopEffect(name)
  <2>1. /\ ~stopped /\ stopped' = TRUE /\ detaching' = vs
        /\ UNCHANGED <<source, volumeVars, overlaid, attached, leftMounted, emptied>>
        /\ helper' \in {helper, helper \ {name}}
        /\ dir' \in {dir, dir \cup {name}}
    BY <1>3 DEF StopUnit, Ignored
  <2>2. SameCalls
    BY <1>3 DEF StopUnit, Ignored, callVars, SameCalls, FaultOrNot
  <2> HIDE DEF name, vs
  <2>3. ItzoTypes'
    BY <1>2, <2>1 DEF ItzoTypes, volumeVars
  <2>4. StopEffect(name)
    BY <2>1, <2>2 DEF StopEffect, vs
  <2>5. QED BY <2>2, <2>3, <2>4 DEF CallStep
<1>4. ASSUME DetachMount(unit)
      PROVE  CallStep /\ ItzoTypes' /\ DetachEffect(name)
  <2> DEFINE v == Head(detaching)
  <2>1. /\ stopped /\ detaching # <<>> /\ detaching' = Tail(detaching)
        /\ \/ /\ attached' = [attached EXCEPT ![name][v] = Detached(name, v)]
              /\ UNCHANGED leftMounted
           \/ leftMounted' = leftMounted \cup {name} /\ UNCHANGED attached
        /\ UNCHANGED <<source, volumeVars, overlaid, dir, helper, stopped, emptied>>
    BY <1>4 DEF DetachMount
  <2>2. SameCalls
    BY <1>4 DEF DetachMount, Ignored, callVars, SameCalls, FaultOrNot
  <2>3. v \in Volumes /\ Tail(detaching) \in Seq(Volumes)
    BY <2>1, HeadTailProperties DEF ItzoTypes
  <2>4. DetachEffect(name)
    BY <2>1, <2>2 DEF DetachEffect
  <2> HIDE DEF name, v
  <2>5. attached' \in [Names -> [Volumes -> Nat]]
    <3>1. [attached EXCEPT ![name][v] = Detached(name, v)] \in [Names -> [Volumes -> Nat]]
      BY <1>2, <2>3, DetachedType
    <3>2. QED BY <2>1, <3>1 DEF ItzoTypes
  <2>6. ItzoTypes'
    BY <1>2, <2>1, <2>3, <2>5 DEF ItzoTypes, volumeVars
  <2>7. QED BY <2>2, <2>4, <2>6 DEF CallStep
<1>5. ASSUME RemoveUnit(unit)
      PROVE  CallStep /\ ItzoTypes' /\ RemoveEffect(name)
  <2>1. /\ stopped /\ stopped' = FALSE /\ detaching = <<>> /\ detaching' = detaching
        /\ UNCHANGED <<source, volumeVars, helper, todo>>
        /\ dir' \in {dir \ {name}, dir \cup {name}}
    BY <1>5 DEF RemoveUnit
  <2>2. /\ overlaid' \in {overlaid, overlaid \ {name}}
        /\ attached' \in {attached, [attached EXCEPT ![name] = None]}
        /\ leftMounted' \in {leftMounted, leftMounted \cup {name}, leftMounted \ {name}}
    BY <1>5 DEF RemoveUnit, UnmountRootfs
  <2>3. emptied' \subseteq emptied \cup Lost(name)
    BY <1>5 DEF RemoveUnit
  <2>4. (Done /\ dir' = dir \ {name} /\ attached'[name] = None) \/ GaveUp
    <3>1. \/ Ok /\ dir' = dir \ {name} /\ attached'[name] = None
          \/ Refused
          \/ Broken
      BY <1>5 DEF RemoveUnit
    <3>2. QED BY <1>1, <2>1, <3>1, Answers
  <2>5. attached' = attached \/ attached' = [attached EXCEPT ![name] = None]
    BY <2>2
  <2>6. name \in leftMounted => name \in leftMounted' \/ emptied' = emptied
    BY <1>5 DEF RemoveUnit
  <2> HIDE DEF name
  <2>7. None \in [Volumes -> Nat]
    BY DEF None
  <2>8. /\ attached' \in [Names -> [Volumes -> Nat]]
        /\ \A n \in Names \ {name} : attached'[n] = attached[n]
        /\ attached'[name] = None \/ attached'[name] = attached[name]
    BY <1>2, <2>5, <2>7 DEF ItzoTypes
  <2>9. emptied' = emptied \/ attached[name] # None
    <3>1. attached'[name] = None => Lost(name) = {}
      BY DEF Lost, None
    <3>2. emptied \subseteq emptied'
      BY <1>5 DEF RemoveUnit
    <3>3. QED BY <2>3, <2>8, <3>1, <3>2
  <2>10. RemoveEffect(name)
    BY <2>1, <2>4, <2>6, <2>8, <2>9 DEF RemoveEffect
  <2>11. Lost(name) \subseteq Volumes
    BY DEF Lost
  <2>12. ItzoTypes'
    BY <1>2, <2>1, <2>2, <2>3, <2>8, <2>11 DEF ItzoTypes, volumeVars
  <2>13. CallStep
    BY <2>4 DEF CallStep
  <2>14. QED BY <2>10, <2>12, <2>13
<1>6. StopUnit(unit, Head(work).request) \/ DetachMount(unit) \/ RemoveUnit(unit)
  BY DEF ItzoRemoveContainer
<1> HIDE DEF unit, name, vs
<1>7. QED BY <1>2, <1>3, <1>4, <1>5, <1>6 DEF ItzoEffect

LEMMA ItzoAnswers ==
    ASSUME CallInv, ItzoTypes, ItzoAnswer
    PROVE  CallStep /\ ItzoTypes' /\ ItzoEffect
<1>1. CASE ItzoSandbox
  BY <1>1, ItzoSandboxStep
<1>2. CASE \/ Next_("CreateMount") /\ CreateMount(Head(work).volume)
           \/ Next_("DeleteMount") /\ DeleteMount(Head(work).volume)
  BY <1>2, MountStep
<1>3. CASE Next_("CreateContainer") /\ ItzoCreateContainer(Head(work).unit, Head(work).request)
  BY <1>3, ItzoCreateStep
<1>4. CASE Next_("RemoveContainer") /\ ItzoRemoveContainer(Head(work).unit, Head(work).request)
  BY <1>4, ItzoRemoveStep
<1>5. ASSUME NEW name \in Names, ItzoStartContainer(name)
      PROVE  CallStep /\ ItzoTypes' /\ ItzoEffect
  <2>1. StartEnds
    BY <1>5 DEF ItzoStartContainer, StartEnds, Starts, FaultOrNot
  <2>2. Quiet
    BY <2>1 DEF Quiet
  <2>3. work' = work
    BY <2>1 DEF StartEnds, Started, NotStarted
  <2>4. ItzoTypes' /\ ItzoEffect
    BY <1>5, <2>2, <2>3 DEF ItzoStartContainer, ItzoTypes, volumeVars, removalVars,
                            ItzoEffect, QuietEffect
  <2>5. QED BY <2>2, <2>4, QuietIsCallStep
<1>6. ASSUME NEW name \in Names, HelperExits(name)
      PROVE  CallStep /\ ItzoTypes' /\ ItzoEffect
  <2>1. Quiet /\ work' = work
    BY <1>6 DEF HelperExits, Quiet, SameCalls, FaultOrNot, callVars
  <2>2. ItzoTypes' /\ ItzoEffect
    BY <1>6, <2>1 DEF HelperExits, ItzoTypes, volumeVars, removalVars, ItzoEffect,
                      QuietEffect
  <2>3. QED BY <2>1, <2>2, QuietIsCallStep
<1>7. QED BY <1>1, <1>2, <1>3, <1>4, <1>5, <1>6 DEF ItzoAnswer

\* podman has the unit's container, or has swallowed a creation.
PodmanHas(n) == ctr[n] # "none" \/ swallowed

PodmanEffect ==
    \/ /\ Quiet
       /\ \/ Done /\ Head(work) \in Wipes
          \/ \A n \in Names : PodmanHas(n) => PodmanHas(n)'
    \/ LET name == Head(work).unit.name IN
       /\ ~Idle /\ Head(work) \in Creations
       /\ \/ GaveUp
          \/ Done /\ \A n \in Names : n = name \/ PodmanHas(n) => PodmanHas(n)'
    \/ LET name == Head(work).unit.name IN
       /\ ~Idle /\ Head(work) \in Removals
       /\ \/ GaveUp
          \/ Done /\ \A n \in Names : n # name /\ PodmanHas(n) => PodmanHas(n)'

LEMMA PodmanAnswers ==
    ASSUME CallInv, PodmanTypes, PodmanAnswer
    PROVE  CallStep /\ PodmanTypes' /\ PodmanEffect
<1>1. CASE PodmanRunPodSandbox
  <2>1. ~Idle /\ Head(work).op = "RunPodSandbox" /\ UNCHANGED <<ctr, swallowed, todo>>
        /\ (Ok \/ Refused \/ Broken)
    BY <1>1 DEF PodmanRunPodSandbox, Next_
  <2>2. Head(work) \in SandboxCalls /\ (Done \/ GaveUp)
    BY <2>1, HeadCalls, Answers
  <2>3. Quiet
    BY <2>2 DEF Quiet
  <2>4. QED BY <2>1, <2>3, QuietIsCallStep DEF PodmanTypes, PodmanEffect, PodmanHas
<1>2. CASE PodmanStopPodSandbox
  <2>1. /\ ~Idle /\ Head(work).op = "StopPodSandbox" /\ UNCHANGED <<swallowed, todo>>
        /\ Ok \/ Refused \/ Broken
        /\ \/ ctr' = ctr
           \/ ctr' = [n \in Names |-> IF ctr[n] = "running" THEN "exited" ELSE ctr[n]]
    BY <1>2 DEF PodmanStopPodSandbox, Next_
  <2>2. Head(work) \in SandboxCalls /\ (Done \/ GaveUp)
    BY <2>1, HeadCalls, Answers
  <2>3. Quiet
    BY <2>2 DEF Quiet
  <2>4. PodmanTypes' /\ \A n \in Names : PodmanHas(n) => PodmanHas(n)'
    BY <2>1 DEF PodmanTypes, PodmanHas
  <2>5. QED BY <2>3, <2>4, QuietIsCallStep DEF PodmanEffect
<1>3. CASE PodmanRemovePodSandbox
  <2>1. /\ ~Idle /\ Head(work).op = "RemovePodSandbox" /\ UNCHANGED <<swallowed, todo>>
        /\ \/ Broken /\ ctr' = ctr
           \/ Ok /\ ctr' = [n \in Names |-> "none"]
    BY <1>3 DEF PodmanRemovePodSandbox, Next_
  <2>2. /\ Head(work) \in SandboxCalls /\ Head(work) \in Wipes
        /\ Done \/ (GaveUp /\ ctr' = ctr)
    BY <2>1, HeadCalls, Answers
  <2>3. Quiet
    BY <2>2 DEF Quiet
  <2>4. PodmanTypes'
    BY <2>1 DEF PodmanTypes
  <2>5. PodmanEffect
    BY <2>1, <2>2, <2>3 DEF PodmanEffect, PodmanHas
  <2>6. QED BY <2>3, <2>4, <2>5, QuietIsCallStep
<1>4. CASE Next_("CreateContainer") /\ PodmanCreateContainer(Head(work).unit.name)
  <2> DEFINE name == Head(work).unit.name
  <2>1. /\ ~Idle /\ Head(work).op = "CreateContainer" /\ todo' = todo
        /\ \/ ctr' = [ctr EXCEPT ![name] = "created"] /\ UNCHANGED swallowed /\ Ok
           \/ ctr' = ctr /\ swallowed' = TRUE /\ Proceed(Tail(work)) /\ FaultOrNot
           \/ ctr' = ctr /\ UNCHANGED swallowed /\ Broken
    BY <1>4 DEF PodmanCreateContainer, Next_, FaultOrNot
  <2>2. Head(work) \in Creations /\ name \in Names
    <3>1. Head(work) \in Creations
      BY <2>1, HeadCalls
    <3>2. Head(work) \in UnitCalls
      BY <3>1 DEF Creations
    <3>3. QED BY <2>1, <3>1, <3>2, HeadCalls
  <2> HIDE DEF name
  <2>3. \/ Done /\ \A n \in Names : n = name \/ PodmanHas(n) => PodmanHas(n)'
        \/ GaveUp
    <3>1. CASE ctr' = [ctr EXCEPT ![name] = "created"] /\ UNCHANGED swallowed /\ Ok
      BY <2>1, <2>2, <3>1, Answers DEF PodmanHas, PodmanTypes
    <3>2. CASE ctr' = ctr /\ swallowed' = TRUE /\ Proceed(Tail(work)) /\ FaultOrNot
      BY <2>1, <3>2, Answers DEF PodmanHas
    <3>3. CASE Broken
      BY <2>1, <3>3, Answers
    <3>4. QED BY <2>1, <3>1, <3>2, <3>3
  <2>4. PodmanTypes'
    BY <2>1, <2>2 DEF PodmanTypes
  <2>5. PodmanEffect
    BY <2>1, <2>2, <2>3 DEF PodmanEffect, name
  <2>6. CallStep
    BY <2>3 DEF CallStep
  <2>7. QED BY <2>4, <2>5, <2>6
<1>5. CASE Next_("RemoveContainer") /\ PodmanRemoveContainer(Head(work).unit.name)
  <2> DEFINE name == Head(work).unit.name
  <2>1. /\ ~Idle /\ Head(work).op = "RemoveContainer" /\ UNCHANGED <<swallowed, todo>>
        /\ Ok \/ Refused \/ Broken
        /\ \/ ctr' = [ctr EXCEPT ![name] = "none"]
           \/ ctr' \in {ctr, [ctr EXCEPT ![name] = IF @ = "running" THEN "exited" ELSE @]}
    BY <1>5 DEF PodmanRemoveContainer, Next_
  <2>2. Head(work) \in Removals /\ name \in Names
    <3>1. Head(work) \in Removals
      BY <2>1, HeadCalls
    <3>2. Head(work) \in UnitCalls
      BY <3>1 DEF Removals
    <3>3. QED BY <2>1, <3>1, <3>2, HeadCalls
  <2> HIDE DEF name
  <2>3. Done \/ GaveUp
    BY <2>1, Answers
  <2>4. PodmanTypes'
    BY <2>1, <2>2 DEF PodmanTypes
  <2>5. \A n \in Names : n # name /\ PodmanHas(n) => PodmanHas(n)'
    BY <2>1 DEF PodmanHas, PodmanTypes
  <2>6. PodmanEffect
    BY <2>1, <2>2, <2>3, <2>5 DEF PodmanEffect, name
  <2>7. CallStep
    BY <2>3 DEF CallStep
  <2>8. QED BY <2>4, <2>6, <2>7
<1>6. ASSUME NEW name \in Names, PodmanStartContainer(name)
      PROVE  CallStep /\ PodmanTypes' /\ PodmanEffect
  <2>1. StartEnds
    BY <1>6 DEF PodmanStartContainer, StartEnds, Starts, FaultOrNot
  <2>2. Quiet
    BY <2>1 DEF Quiet
  <2>3. /\ ctr' = ctr \/ ctr' = [ctr EXCEPT ![name] = "running"]
        /\ swallowed' = swallowed
    BY <1>6 DEF PodmanStartContainer
  <2>4. PodmanTypes' /\ \A n \in Names : PodmanHas(n) => PodmanHas(n)'
    BY <2>3 DEF PodmanTypes, PodmanHas
  <2>5. QED BY <2>2, <2>4, QuietIsCallStep DEF PodmanEffect
<1>7. ASSUME NEW name \in Names, ContainerExits(name)
      PROVE  CallStep /\ PodmanTypes' /\ PodmanEffect
  <2>1. Quiet
    BY <1>7 DEF ContainerExits, Quiet, SameCalls, FaultOrNot, callVars
  <2>2. PodmanTypes' /\ \A n \in Names : PodmanHas(n) => PodmanHas(n)'
    BY <1>7 DEF ContainerExits, PodmanTypes, PodmanHas
  <2>3. QED BY <2>1, <2>2, QuietIsCallStep DEF PodmanEffect
<1>8. QED BY <1>1, <1>2, <1>3, <1>4, <1>5, <1>6, <1>7 DEF PodmanAnswer

\* A unit's machine was shown or pulled, and no step takes it away.
Machines == \A n \in vmid : vm[image[n]] # "absent"

MacEffect ==
    /\ crashed' # crashed => todo # <<>> /\ Head(todo).name \notin vmid
    /\ \/ Quiet /\ UNCHANGED <<vmid, dropped>>
       \/ /\ ~Idle /\ Head(work) \in Creations
          /\ dropped' = dropped
          /\ \/ GaveUp /\ vmid' = vmid
             \/ Done /\ vmid' = vmid \cup {Head(work).unit.name}
       \/ /\ ~Idle /\ Head(work) \in Removals
          /\ \/ GaveUp /\ UNCHANGED <<vmid, dropped>>
             \/ /\ Done
                /\ vmid' = vmid \ {Head(work).unit.name}
                /\ dropped' = dropped \cup {Head(work).unit.name}

LEMMA MacAnswers ==
    ASSUME CallInv, MacTypes, Machines, MacAnswer
    PROVE  CallStep /\ MacTypes' /\ Machines' /\ MacEffect
<1>1. CASE MacSandbox
  <2>1. /\ ~Idle /\ Head(work).op \in {"RunPodSandbox", "StopPodSandbox", "RemovePodSandbox"}
        /\ UNCHANGED <<vmid, image, vm, dropped, crashed, todo>>
        /\ Ok \/ Broken
    BY <1>1 DEF MacSandbox, Next_
  <2>2. Head(work) \in SandboxCalls /\ (Done \/ GaveUp)
    BY <2>1, HeadCalls, Answers
  <2>3. Quiet
    BY <2>2 DEF Quiet
  <2>4. QED BY <2>1, <2>3, QuietIsCallStep DEF MacTypes, Machines, MacEffect
<1>2. CASE Next_("CreateContainer") /\ MacCreateContainer(Head(work).unit)
  <2> DEFINE unit == Head(work).unit
  <2>1. /\ ~Idle /\ Head(work).op = "CreateContainer"
        /\ UNCHANGED <<dropped, crashed, todo>>
        /\ \/ Shown(unit.image) /\ Store(unit) /\ Ok /\ vm' = vm
           \/ /\ PullImage(unit.image) /\ Store(unit)
              /\ Proceed(Tail(work)) /\ FaultOrNot
           \/ (Refused \/ Broken) /\ UNCHANGED <<vmid, image, vm>>
    BY <1>2 DEF MacCreateContainer, Next_, FaultOrNot
  <2>2. Head(work) \in Creations /\ unit.name \in Names /\ unit.image \in Images
    <3>1. Head(work) \in Creations
      BY <2>1, HeadCalls
    <3>2. Head(work) \in UnitCalls
      BY <3>1 DEF Creations
    <3>3. QED BY <2>1, <3>1, <3>2, HeadCalls
  <2>3. \/ GaveUp /\ UNCHANGED <<vmid, image, vm>>
        \/ /\ Done /\ vmid' = vmid \cup {unit.name}
           /\ image' = [image EXCEPT ![unit.name] = unit.image]
           /\ \/ vm' = vm /\ vm[unit.image] # "absent"
              \/ vm' = [vm EXCEPT ![unit.image] = IF @ = "absent" THEN "stopped" ELSE @]
    BY <2>1, Answers DEF Store, Shown, PullImage
  <2> HIDE DEF unit
  <2>4. MacTypes' /\ Machines'
    BY <2>2, <2>3 DEF MacTypes, Machines
  <2>5. MacEffect
    BY <2>1, <2>2, <2>3 DEF MacEffect, unit
  <2>6. CallStep
    BY <2>3 DEF CallStep
  <2>7. QED BY <2>4, <2>5, <2>6
<1>3. CASE Next_("RemoveContainer") /\ MacRemoveContainer(Head(work).unit.name)
  <2> DEFINE name == Head(work).unit.name
  <2>1. /\ ~Idle /\ Head(work).op = "RemoveContainer"
        /\ UNCHANGED <<image, crashed, todo>>
        /\ \/ name \in vmid /\ Stop(image[name]) /\ vmid' = vmid \ {name}
              /\ dropped' = dropped \cup {name} /\ Ok
           \/ (Refused \/ Broken) /\ UNCHANGED <<vm, vmid, dropped>>
    BY <1>3 DEF MacRemoveContainer, Next_
  <2>2. Head(work) \in Removals
    BY <2>1, HeadCalls
  <2>3. \/ GaveUp /\ UNCHANGED <<vm, vmid, dropped>>
        \/ /\ Done /\ vmid' = vmid \ {name} /\ dropped' = dropped \cup {name}
           /\ name \in vmid /\ vm' = [vm EXCEPT ![image[name]] = "stopped"]
    BY <2>1, Answers DEF Stop
  <2> HIDE DEF name
  <2>4. MacTypes' /\ Machines'
    BY <2>1, <2>3 DEF MacTypes, Machines
  <2>5. MacEffect
    BY <2>1, <2>2, <2>3 DEF MacEffect, name
  <2>6. CallStep
    BY <2>3 DEF CallStep
  <2>7. QED BY <2>4, <2>5, <2>6
<1>4. ASSUME NEW name \in Names, MacStartContainer(name)
      PROVE  CallStep /\ MacTypes' /\ Machines' /\ MacEffect
  <2>1. StartEnds
    BY <1>4 DEF MacStartContainer, StartEnds, Starts, FaultOrNot
  <2>2. Quiet
    BY <2>1 DEF Quiet
  <2>3. /\ UNCHANGED <<vmid, image, dropped>> /\ todo # <<>> /\ Head(todo).name = name
        /\ \/ name \in vmid /\ vm' = [vm EXCEPT ![image[name]] = "running"] /\ crashed' = crashed
           \/ name \in vmid /\ vm' = vm /\ crashed' = crashed
           \/ name \notin vmid /\ vm' = vm
    BY <1>4 DEF MacStartContainer, Starts, Start
  <2>4. MacTypes' /\ Machines'
    BY <2>3 DEF MacTypes, Machines
  <2>5. MacEffect
    BY <2>2, <2>3 DEF MacEffect
  <2>6. QED BY <2>2, <2>4, <2>5, QuietIsCallStep
<1>5. ASSUME NEW i \in Images, MachineStops(i)
      PROVE  CallStep /\ MacTypes' /\ Machines' /\ MacEffect
  <2>1. Quiet
    BY <1>5 DEF MachineStops, Quiet, SameCalls, FaultOrNot, callVars
  <2>2. UNCHANGED <<vmid, image, dropped, crashed>> /\ vm' = [vm EXCEPT ![i] = "stopped"]
    BY <1>5 DEF MachineStops, Stop
  <2>3. MacTypes' /\ Machines' /\ MacEffect
    BY <2>1, <2>2 DEF MacTypes, Machines, MacEffect
  <2>4. QED BY <2>1, <2>3, QuietIsCallStep
<1>6. QED BY <1>1, <1>2, <1>3, <1>4, <1>5 DEF MacAnswer

-------------------------------------------------------------------------------
(* The types of the state.                                                 *)

RuntimesInv ==
    /\ runtime \in runtimes
    /\ CallInv
    /\ ItzoTypes /\ PodmanTypes /\ MacTypes
    /\ Machines
    /\ crashed => runtime = "mac"

LEMMA InitRuntimesInv ==
    ASSUME Init
    PROVE  RuntimesInv
<1>1. CallTypes
  BY RequestsAssumption, NoElement DEF Init, CallInit, CallTypes, AllRequests
<1>2. WorkInv
  BY NoElement DEF Init, CallInit, WorkInv
<1>3. ItzoTypes
  BY NoElement DEF Init, ItzoInit, ItzoTypes, None
<1>4. PodmanTypes
  BY DEF Init, PodmanInit, PodmanTypes
<1>5. MacTypes /\ Machines
  <2>1. (CHOOSE i \in Images : TRUE) \in Images
    BY TemplatesAssumption
  <2>2. QED BY <2>1 DEF Init, MacInit, MacTypes, Machines
<1>6. runtime \in runtimes /\ ~crashed
  BY DEF Init, MacInit
<1>7. QED BY <1>1, <1>2, <1>3, <1>4, <1>5, <1>6 DEF RuntimesInv, CallInv

LEMMA ControllerStep ==
    ASSUME Controller
    PROVE  /\ CallStep
           /\ UNCHANGED <<itzoVars, podmanVars, runtime, vmid, image, vm, crashed>>
           /\ \/ (\E r \in Requests : BeginUpdate(r)) /\ dropped' = dropped
              \/ SpawnStarter /\ dropped' = {}
BY DEF Controller, CallStep, macVars

LEMMA RuntimesKeep ==
    ASSUME RuntimesInv, [Next]_vars
    PROVE  RuntimesInv' /\ CallStep
<1> USE DEF RuntimesInv
<1>1. SUFFICES /\ CallStep /\ runtime' = runtime
               /\ ItzoTypes' /\ PodmanTypes' /\ MacTypes' /\ Machines'
               /\ crashed' => runtime = "mac"
  BY CallsKeep
<1>2. CASE Controller
  BY <1>2, ControllerStep
     DEF itzoVars, volumeVars, unitVars, removalVars, podmanVars,
         ItzoTypes, PodmanTypes, MacTypes, Machines
<1>3. CASE runtime = "itzo" /\ ItzoAnswer /\ UNCHANGED <<podmanVars, macVars, runtime>>
  BY <1>3, ItzoAnswers DEF podmanVars, macVars, PodmanTypes, MacTypes, Machines
<1>4. CASE runtime = "podman" /\ PodmanAnswer /\ UNCHANGED <<itzoVars, macVars, runtime>>
  BY <1>4, PodmanAnswers
     DEF itzoVars, volumeVars, unitVars, removalVars, macVars, ItzoTypes, MacTypes, Machines
<1>5. CASE runtime = "mac" /\ MacAnswer /\ UNCHANGED <<itzoVars, podmanVars, runtime>>
  BY <1>5, MacAnswers
     DEF itzoVars, volumeVars, unitVars, removalVars, podmanVars, ItzoTypes, PodmanTypes
<1>6. CASE UNCHANGED vars
  BY <1>6 DEF vars, callVars, SameCalls, FaultOrNot, itzoVars, volumeVars, unitVars,
              removalVars, podmanVars, macVars, CallStep, ItzoTypes,
              PodmanTypes, MacTypes, Machines
<1>7. QED BY <1>2, <1>3, <1>4, <1>5, <1>6 DEF Next

\* The state has its types, whatever the requests, the sources of the volumes and
\* the runtime are: no counter of mounts goes below zero, however often a volume is
\* detached (itzo_linux.go:159-187), and the daemon only dies on a Mac.
THEOREM RuntimesTypeCorrect == Spec => []TypeOK
<1>1. Init => RuntimesInv
  BY InitRuntimesInv
<1>2. RuntimesInv /\ [Next]_vars => RuntimesInv'
  BY RuntimesKeep
<1>3. RuntimesInv => TypeOK
  <2>1. CallInv => status.pod \in Specs \cup {EmptyStatus}
                   /\ updates \in 0 .. MaxUpdates /\ faults \in 0 .. MaxFaults
    BY RequestTypes DEF CallInv, CallTypes
  <2>2. QED BY <2>1 DEF RuntimesInv, TypeOK, ItzoTypes, PodmanTypes, MacTypes, Layers
<1>4. QED BY <1>1, <1>2, <1>3, PTL DEF Spec

-------------------------------------------------------------------------------
(* Whom the daemon dies of.                                                *)

\* A unit that the starter still has to start has a machine, was removed since the
\* starter was spawned, or is an init unit; and so it will be for a starter that is
\* still to be spawned, once the units before it are created.
StarterInv ==
    runtime = "mac" =>
      /\ \A u \in Elements(todo) : u.name \in vmid \cup dropped \cup InitNames
      /\ \A c \in Elements(work) : c \in SpawnCalls => \A u \in Elements(c.units) :
            \/ u.name \in InitNames
            \/ Elements(work) \cap CreationsOf(u.name) # {}
            \/ /\ u.name \in vmid
               /\ Elements(work) \cap Removals = {}
               /\ Elements(work) \cap Wipes = {}

\* What a step leaves in work.
LEMMA WorkAfter ==
    ASSUME CallInv
    PROVE  /\ Done \/ SpawnStarter => Elements(work') = Elements(Tail(work)) /\ work' = Tail(work)
           /\ GaveUp => Elements(work') = {} /\ work' = <<>>
           /\ StartEnds => work' = work
           /\ Expanded => \E calls : /\ Expansion(Head(work), calls)
                                     /\ Elements(work') = Elements(calls) \cup Elements(Tail(work))
<1>1. Done \/ SpawnStarter => Elements(work') = Elements(Tail(work)) /\ work' = Tail(work)
  BY DEF Done, SpawnStarter, Ok, Proceed
<1>2. GaveUp => Elements(work') = {} /\ work' = <<>>
  BY NoElement DEF GaveUp, GiveUp
<1>3. StartEnds => work' = work
  BY DEF StartEnds, Started, NotStarted
<1>4. ASSUME Expanded
      PROVE  \E calls : /\ Expansion(Head(work), calls)
                        /\ Elements(work') = Elements(calls) \cup Elements(Tail(work))
  <2> DEFINE t == Tail(work)
  <2>1. ~Idle
    BY <1>4 DEF Expanded
  <2>2. PICK calls : Expansion(Head(work), calls) /\ work' = calls \o t
    BY <1>4 DEF Expanded, Proceed
  <2>3. t \in Seq(AllCalls) /\ calls \in Seq(AllCalls)
    BY <2>1, <2>2, WorkTail DEF Expansion
  <2> HIDE DEF t
  <2>4. Elements(calls \o t) = Elements(calls) \cup Elements(t)
    BY <2>3, Concatenated
  <2>5. QED BY <2>2, <2>4 DEF t
<1>5. QED BY <1>1, <1>2, <1>3, <1>4

LEMMA TodoAfter ==
    ASSUME CallInv
    PROVE  /\ Done \/ GaveUp \/ Expanded => todo' = todo
           /\ StartEnds => Elements(todo') \subseteq Elements(todo)
<1>1. Done \/ GaveUp \/ Expanded => todo' = todo
  BY DEF Done, GaveUp, Expanded
<1>2. ASSUME StartEnds
      PROVE  Elements(todo') \subseteq Elements(todo)
  <2>1. /\ todo # <<>> /\ todo \in Seq(Unit)
        /\ todo' = Tail(todo) \/ todo' = <<>>
    BY <1>2 DEF StartEnds, Started, NotStarted, CallInv, CallTypes
  <2>2. Elements(Tail(todo)) \subseteq Elements(todo)
    BY <2>1, HeadAndTail
  <2>3. QED BY <2>1, <2>2, NoElement
<1>3. QED BY <1>1, <1>2

LEMMA ControllerKeepsStarter ==
    ASSUME RuntimesInv, StarterInv, Controller
    PROVE  StarterInv'
<1> SUFFICES ASSUME runtime = "mac"
             PROVE  StarterInv'
  BY ControllerStep DEF StarterInv
<1>1. CallInv /\ vmid' = vmid
  BY ControllerStep DEF RuntimesInv
<1>2. ASSUME NEW r \in Requests, BeginUpdate(r), dropped' = dropped
      PROVE  StarterInv'
  <2>1. todo' = todo /\ Planned(work', r, status)
    BY <1>1, <1>2, UpdateCalls DEF BeginUpdate, CallInv, CallTypes
  <2>2. ASSUME NEW c \in Elements(work'), c \in SpawnCalls, NEW u \in Elements(c.units)
        PROVE  u.name \in InitNames \/ Elements(work') \cap CreationsOf(u.name) # {}
    <3>1. \/ u \in Elements(r.pod.inits)
          \/ Call("CreateContainer", u, r) \in Elements(work')
      BY <2>1, <2>2 DEF Planned
    <3>2. u \in Elements(r.pod.inits) => u.name \in InitNames
      BY DEF InitNames, UnitNames, Elements
    <3>3. u \in Unit
      <4>1. c.units \in Seq(Unit)
        BY <2>2 DEF SpawnCalls
      <4>2. QED BY <2>2, <4>1, LenProperties, ElementOfSeq DEF Elements
    <3>4. Call("CreateContainer", u, r) \in CreationsOf(u.name)
      <4>1. /\ Call("CreateContainer", u, r) \in UnitCalls
            /\ Call("CreateContainer", u, r).op = "CreateContainer"
            /\ Call("CreateContainer", u, r).unit = u
        BY <3>3 DEF Call, UnitCalls, AllRequests
      <4>2. QED BY <4>1 DEF CreationsOf, Creations
    <3>5. QED BY <3>1, <3>2, <3>4
  <2>3. QED BY <1>1, <1>2, <2>1, <2>2 DEF StarterInv
<1>3. ASSUME SpawnStarter, dropped' = {}
      PROVE  StarterInv'
  <2>1. ~Idle /\ Head(work).op = "spawn" /\ todo' = Head(work).units
    BY <1>3 DEF SpawnStarter, Next_
  <2>2. /\ Head(work) \in SpawnCalls /\ Tail(work) = <<>>
        /\ Elements(work) = {Head(work)} \cup Elements(Tail(work))
    BY <1>1, <2>1, WorkTail, CallKinds
  <2>3. Elements(work') = {} /\ Elements(work) = {Head(work)}
    BY <1>1, <1>3, <2>2, WorkAfter, NoElement
  <2>4. Head(work) \notin Creations
    BY <2>1, KindsDiffer
  <2>5. \A u \in Elements(todo') : u.name \in vmid \cup InitNames
    BY <2>1, <2>2, <2>3, <2>4 DEF StarterInv, CreationsOf
  <2>6. QED BY <1>1, <1>3, <2>3, <2>5 DEF StarterInv
<1>4. QED BY <1>2, <1>3, ControllerStep

LEMMA MacKeepsStarter ==
    ASSUME RuntimesInv, StarterInv, runtime = "mac", MacAnswer
    PROVE  StarterInv'
<1>1. CallInv /\ MacEffect
  BY MacAnswers DEF RuntimesInv
<1>2. ASSUME Elements(todo') \subseteq Elements(todo),
             \A n : n \in vmid \cup dropped => n \in vmid' \cup dropped',
             \A c \in Elements(work') : c \in SpawnCalls => \A u \in Elements(c.units) :
                \/ u.name \in InitNames
                \/ Elements(work') \cap CreationsOf(u.name) # {}
                \/ /\ u.name \in vmid'
                   /\ Elements(work') \cap Removals = {}
                   /\ Elements(work') \cap Wipes = {}
      PROVE  StarterInv'
  BY <1>2 DEF StarterInv
<1>3. ASSUME ~Idle
      PROVE  /\ Elements(work) = {Head(work)} \cup Elements(Tail(work))
             /\ Head(work) \in Creations =>
                   /\ Elements(Tail(work)) \cap Removals = {}
                   /\ Elements(Tail(work)) \cap Wipes = {}
  BY <1>1, <1>3, WorkTail
<1>4. ASSUME Quiet, UNCHANGED <<vmid, dropped>>
      PROVE  StarterInv'
  <2>1. CASE SameCalls
    BY <1>2, <1>4, <2>1 DEF StarterInv, SameCalls
  <2>2. CASE StartEnds
    BY <1>1, <1>2, <1>4, <2>2, WorkAfter, TodoAfter DEF StarterInv
  <2>3. CASE GaveUp
    BY <1>1, <1>2, <1>4, <2>3, WorkAfter, TodoAfter
  <2>4. CASE Expanded /\ Head(work) \in SandboxCalls
    <3>1. PICK calls : /\ Expansion(Head(work), calls)
                       /\ Elements(work') = Elements(calls) \cup Elements(Tail(work))
      BY <1>1, <2>4, WorkAfter
    <3>2. /\ Elements(work) = {Head(work)} \cup Elements(Tail(work))
          /\ Head(work) \notin Creations
      BY <1>3, <2>4, KindsDiffer DEF Expanded
    <3>3. \A e \in Elements(calls) :
             /\ e \notin SpawnCalls /\ e \notin Wipes
             /\ e \in Removals => Head(work) \in Wipes
      BY <3>1, KindsDiffer DEF Expansion
    <3>4. todo' = todo
      BY <1>1, <2>4, TodoAfter
    <3>5. ASSUME NEW c \in Elements(work'), c \in SpawnCalls, NEW u \in Elements(c.units)
          PROVE  \/ u.name \in InitNames
                 \/ Elements(work') \cap CreationsOf(u.name) # {}
                 \/ /\ u.name \in vmid'
                    /\ Elements(work') \cap Removals = {}
                    /\ Elements(work') \cap Wipes = {}
      <4>1. c \in Elements(work)
        BY <3>1, <3>2, <3>3, <3>5
      <4>2. CASE Elements(work) \cap CreationsOf(u.name) # {}
        BY <3>1, <3>2, <4>2 DEF CreationsOf
      <4>3. CASE /\ u.name \in vmid
                 /\ Elements(work) \cap Removals = {}
                 /\ Elements(work) \cap Wipes = {}
        BY <1>4, <3>1, <3>2, <3>3, <4>3
      <4>4. QED BY <3>5, <4>1, <4>2, <4>3 DEF StarterInv
    <3>6. QED BY <1>2, <1>4, <3>4, <3>5
  <2>5. CASE Done /\ Head(work) \in SandboxCalls \cup MountCalls
    <3>1. /\ Elements(work') = Elements(Tail(work)) /\ todo' = todo
          /\ Elements(work) = {Head(work)} \cup Elements(Tail(work))
          /\ Head(work) \notin Creations
      BY <1>1, <1>3, <2>5, WorkAfter, TodoAfter, KindsDiffer DEF Done
    <3>2. \A n : Elements(work') \cap CreationsOf(n) = Elements(work) \cap CreationsOf(n)
      BY <3>1 DEF CreationsOf
    <3>3. QED BY <1>2, <1>4, <3>1, <3>2 DEF StarterInv
  <2>6. QED BY <1>4, <2>1, <2>2, <2>3, <2>4, <2>5 DEF Quiet
<1>5. ASSUME ~Idle, Head(work) \in Creations, dropped' = dropped,
             \/ GaveUp /\ vmid' = vmid
             \/ Done /\ vmid' = vmid \cup {Head(work).unit.name}
      PROVE  StarterInv'
  <2>1. CASE GaveUp
    BY <1>1, <1>2, <1>5, <2>1, WorkAfter, TodoAfter
  <2>2. CASE Done /\ vmid' = vmid \cup {Head(work).unit.name}
    <3>1. /\ Elements(work') = Elements(Tail(work)) /\ todo' = todo
          /\ Elements(work) = {Head(work)} \cup Elements(Tail(work))
          /\ Elements(work') \cap Removals = {} /\ Elements(work') \cap Wipes = {}
      BY <1>1, <1>3, <1>5, <2>2, WorkAfter, TodoAfter
    <3>2. \A n : Elements(work) \cap CreationsOf(n) # {} =>
             n \in vmid' \/ Elements(work') \cap CreationsOf(n) # {}
      BY <2>2, <3>1 DEF CreationsOf
    <3>3. QED BY <1>2, <1>5, <2>2, <3>1, <3>2 DEF StarterInv
  <2>3. QED BY <1>5, <2>1, <2>2
<1>6. ASSUME ~Idle, Head(work) \in Removals,
             \/ GaveUp /\ UNCHANGED <<vmid, dropped>>
             \/ /\ Done
                /\ vmid' = vmid \ {Head(work).unit.name}
                /\ dropped' = dropped \cup {Head(work).unit.name}
      PROVE  StarterInv'
  <2>1. CASE GaveUp /\ UNCHANGED <<vmid, dropped>>
    BY <1>1, <1>2, <2>1, WorkAfter, TodoAfter
  <2>2. CASE /\ Done
             /\ vmid' = vmid \ {Head(work).unit.name}
             /\ dropped' = dropped \cup {Head(work).unit.name}
    <3>1. /\ Elements(work') = Elements(Tail(work)) /\ todo' = todo
          /\ Elements(work) = {Head(work)} \cup Elements(Tail(work))
          /\ Head(work) \notin Creations
      BY <1>1, <1>3, <1>6, <2>2, WorkAfter, TodoAfter, KindsDiffer
    <3>2. \A n : Elements(work') \cap CreationsOf(n) = Elements(work) \cap CreationsOf(n)
      BY <3>1 DEF CreationsOf
    <3>3. Elements(work) \cap Removals # {}
      BY <1>6, <3>1
    <3>4. QED BY <1>2, <2>2, <3>1, <3>2, <3>3 DEF StarterInv
  <2>3. QED BY <1>6, <2>1, <2>2
<1>7. QED BY <1>1, <1>4, <1>5, <1>6 DEF MacEffect

\* The daemon only dies of an init unit, which nobody creates, or of a unit that the
\* update loop removed after the starter was spawned, for every number of updates,
\* requests and faults (pod_controller.go:320,332, mac.go:85-88): RestartUnits and
\* CreatePod create what they start, and return before they spawn the starter when
\* a creation fails.
THEOREM CrashesNeedRemovedUnit == Spec => CrashNeedsRemovedUnit
<1> DEFINE SInv == RuntimesInv /\ StarterInv
<1>1. Init => SInv
  <2>1. Init => todo = <<>> /\ work = <<>>
    BY DEF Init, CallInit
  <2>2. QED BY <2>1, InitRuntimesInv, NoElement DEF StarterInv
<1>2. SInv /\ [Next]_vars => SInv'
  <2> SUFFICES ASSUME RuntimesInv, StarterInv, [Next]_vars
               PROVE  RuntimesInv' /\ StarterInv'
    OBVIOUS
  <2>1. RuntimesInv'
    BY RuntimesKeep
  <2>2. CASE Controller
    BY <2>1, <2>2, ControllerKeepsStarter
  <2>3. CASE runtime \in {"itzo", "podman"} /\ runtime' = runtime
    BY <2>1, <2>3 DEF StarterInv
  <2>4. CASE runtime = "mac" /\ MacAnswer
    BY <2>1, <2>4, MacKeepsStarter
  <2>5. CASE UNCHANGED vars
    BY <2>1, <2>5 DEF StarterInv, vars, callVars, macVars
  <2>6. QED BY <2>2, <2>3, <2>4, <2>5 DEF Next
<1>3. SInv /\ [Next]_vars
        => [crashed' /\ ~crashed => Head(todo).name \in dropped \cup InitNames]_vars
  <2> SUFFICES ASSUME RuntimesInv, StarterInv, Next, crashed', ~crashed
               PROVE  Head(todo).name \in dropped \cup InitNames
    OBVIOUS
  <2>1. runtime = "mac" /\ MacAnswer
    BY ControllerStep DEF Next, macVars
  <2>2. /\ todo # <<>> /\ Head(todo).name \notin vmid
        /\ todo \in Seq(Unit)
    BY <2>1, MacAnswers DEF RuntimesInv, MacEffect, CallInv, CallTypes
  <2>3. Head(todo) \in Elements(todo)
    BY <2>2, HeadAndTail
  <2>4. QED BY <2>1, <2>2, <2>3 DEF StarterInv
<1> HIDE DEF SInv
<1>4. QED BY <1>1, <1>2, <1>3, PTL DEF Spec, CrashNeedsRemovedUnit

-------------------------------------------------------------------------------
(* What is deployed.                                                       *)

\* The request whose units are there, or will be when the calls are answered.
Goal == IF Idle THEN status ELSE target

\* How often each volume is mounted in the unit when all its mounts are there.
Mounted(r, n) == [v \in Volumes |-> Count(r.mounts[n], v)]

Present(n, r) ==
    /\ runtime = "itzo" => n \in dir /\ attached[n] = Mounted(r, n)
    /\ runtime = "podman" => PodmanHas(n)
    /\ runtime = "mac" => n \in vmid

Gone(n) == runtime = "itzo" => attached[n] = None

\* A unit of the request is to be created, where nothing is mounted or after its
\* removal, or it is there and no call is about it.
Ready(n) ==
    \/ /\ Elements(work) \cap CreationsOf(n) # {}
       /\ Gone(n) \/ Elements(work) \cap RemovalsOf(n) # {}
    \/ /\ Elements(work) \cap CreationsOf(n) = {}
       /\ Elements(work) \cap RemovalsOf(n) = {}
       /\ Elements(work) \cap Wipes = {}
       /\ Present(n, Goal)

Removed(n) ==
    /\ Elements(work) \cap CreationsOf(n) = {}
    /\ Gone(n) \/ Elements(work) \cap RemovalsOf(n) # {}

\* RemoveContainer has stopped the unit and not removed it yet.
Detaching(n) == stopped /\ n = Head(work).unit.name

\* While units are still removed, what is mounted is what the status says, except in
\* the unit that is being removed.
KnownMounts ==
    runtime = "itzo" /\ (Elements(work) \cap Removals # {} \/ Elements(work) \cap Wipes # {}) =>
      \A n \in Names :
         Detaching(n) \/ attached[n] = None \/ attached[n] = Mounted(status, n)

Remaining == [v \in Volumes |-> Count(detaching, v)]

\* What is mounted in the unit that is being removed is what is still to be
\* detached, unless an unmount failed.
Unmounting(n) == n \in leftMounted \/ attached[n] = None \/ attached[n] = Remaining

DetachInv ==
    stopped => /\ runtime = "itzo"
               /\ ~Idle /\ Head(work).op = "RemoveContainer"
               /\ ~failed => Unmounting(Head(work).unit.name)

CreatedOnce == \A n \in Names : Ordered(work, CreationsOf(n), CreationsOf(n))

DeployedInv ==
    ~failed =>
      /\ \A n \in UnitNames(Goal.pod.units) : Ready(n)
      /\ \A n \in Names : n \notin UnitNames(Goal.pod.units) => Removed(n)
      /\ CreatedOnce
      /\ KnownMounts

LEMMA GoalTypes ==
    ASSUME CallInv
    PROVE  Goal \in AllRequests /\ UnitNames(Goal.pod.units) \subseteq Names
<1>1. Goal \in AllRequests
  BY DEF CallInv, CallTypes, Goal
<1> DEFINE u == Goal.pod.units
<1>2. u \in Seq(Unit)
  BY <1>1, RequestTypes
<1> HIDE DEF u
<1>3. \A i \in DOMAIN u : u[i].name \in Names
  <2>1. \A i \in DOMAIN u : u[i] \in Unit
    BY <1>2, LenProperties, ElementOfSeq
  <2>2. QED BY <2>1 DEF Unit
<1>4. QED BY <1>1, <1>3 DEF UnitNames, u

LEMMA GoalKept ==
    ASSUME CallInv,
           Quiet \/ Done \/ SpawnStarter
    PROVE  Goal' = Goal /\ (work' # <<>> => status' = status)
<1>1. CASE SameCalls
  BY <1>1 DEF SameCalls, Goal, Idle
<1>2. ASSUME ~Idle, NEW rest, Proceed(rest)
      PROVE  Goal' = Goal /\ (work' # <<>> => status' = status)
  BY <1>2 DEF Proceed, Goal, Idle
<1>3. CASE Done \/ SpawnStarter
  BY <1>2, <1>3 DEF Done, SpawnStarter, Next_, Ok
<1>4. CASE Expanded
  BY <1>2, <1>4 DEF Expanded
<1>5. CASE GaveUp
  BY <1>5 DEF GaveUp, GiveUp, Goal, Idle
<1>6. CASE StartEnds
  BY <1>6 DEF StartEnds, Started, NotStarted, Goal, Idle
<1>7. QED BY <1>1, <1>3, <1>4, <1>5, <1>6 DEF Quiet

LEMMA CreatedOnceKept ==
    ASSUME CallInv, CreatedOnce, Quiet \/ Done \/ SpawnStarter
    PROVE  CreatedOnce'
<1> SUFFICES ASSUME NEW n \in Names
             PROVE  Ordered(work', CreationsOf(n), CreationsOf(n))
  BY DEF CreatedOnce
<1>1. Ordered(work, CreationsOf(n), CreationsOf(n)) /\ work \in Seq(AllCalls)
  BY DEF CreatedOnce, CallInv, CallTypes
<1>2. ~Idle => Ordered(Tail(work), CreationsOf(n), CreationsOf(n))
  BY <1>1, OrderedTail DEF Idle
<1>3. CASE SameCalls
  BY <1>1, <1>3 DEF SameCalls
<1>4. CASE Done \/ SpawnStarter
  BY <1>2, <1>4 DEF Done, SpawnStarter, Next_, Ok, Proceed
<1>5. CASE GaveUp
  BY <1>5, NoElement DEF GaveUp, GiveUp
<1>6. CASE StartEnds
  BY <1>1, <1>6, WorkAfter
<1>7. CASE Expanded
  <2> DEFINE t == Tail(work)
  <2>1. ~Idle
    BY <1>7 DEF Expanded
  <2>2. PICK calls : Expansion(Head(work), calls) /\ work' = calls \o t
    BY <1>7 DEF Expanded, Proceed
  <2>3. t \in Seq(AllCalls) /\ calls \in Seq(AllCalls)
        /\ Ordered(t, CreationsOf(n), CreationsOf(n))
    BY <1>2, <2>1, <2>2, WorkTail DEF Expansion
  <2>4. Elements(calls) \cap CreationsOf(n) = {}
    BY <2>2, KindsDiffer DEF Expansion, CreationsOf
  <2>5. Ordered(calls, CreationsOf(n), CreationsOf(n))
    BY <2>4, Unordered
  <2> HIDE DEF t
  <2>6. QED BY <2>2, <2>3, <2>4, <2>5, OrderedConcatenation
<1>8. QED BY <1>3, <1>4, <1>5, <1>6, <1>7 DEF Quiet

\* A step about no unit keeps what is deployed when the runtime keeps every unit,
\* or removes them all with the sandbox.
LEMMA QuietKeepsDeployed ==
    ASSUME CallInv, DeployedInv, Quiet \/ SpawnStarter, runtime' = runtime, ~failed',
           \A n \in Names : Gone(n) => Gone(n)',
           \/ Done /\ Head(work) \in Wipes
           \/ \A n \in Names : Elements(work) \cap RemovalsOf(n) = {} /\ Present(n, Goal) =>
                 Present(n, Goal)',
           runtime = "itzo" => \A n \in Names :
              Detaching(n)' \/ (attached'[n] = attached[n] /\ ~Detaching(n))
    PROVE  DeployedInv'
<1>1. ~failed /\ ~GaveUp
  BY DEF Quiet, SpawnStarter, Ok, StartEnds, Started, NotStarted, GaveUp, GiveUp, Done,
         Expanded, Proceed, SameCalls
<1>2. /\ \A n \in UnitNames(Goal.pod.units) : Ready(n)
      /\ \A n \in Names : n \notin UnitNames(Goal.pod.units) => Removed(n)
      /\ CreatedOnce /\ KnownMounts
  BY <1>1 DEF DeployedInv
<1>3. Goal' = Goal /\ (work' # <<>> => status' = status) /\ CreatedOnce'
  BY <1>2, GoalKept, CreatedOnceKept
<1>4. UnitNames(Goal.pod.units) \subseteq Names
  BY GoalTypes
\* Creations and removals stay; removals are added only where the sandbox is removed.
<1> DEFINE CallsStay ==
      /\ \A n : Elements(work') \cap CreationsOf(n) = Elements(work) \cap CreationsOf(n)
      /\ \A n : Elements(work) \cap RemovalsOf(n) \subseteq Elements(work') \cap RemovalsOf(n)
      /\ Elements(work) \cap Wipes = {} =>
            /\ Elements(work') \cap Wipes = {}
            /\ Elements(work') \cap Removals = Elements(work) \cap Removals
<1>5. CallsStay
  <2>1. CASE SameCalls
    BY <2>1 DEF SameCalls
  <2>2. CASE StartEnds
    BY <2>2, WorkAfter
  <2>3. ASSUME ~Idle, Head(work) \notin Creations, Head(work) \notin Removals,
               Elements(work') = Elements(Tail(work))
        PROVE  CallsStay
    <3>1. Elements(work) = {Head(work)} \cup Elements(work')
      BY <2>3, WorkTail
    <3>2. QED BY <2>3, <3>1 DEF CreationsOf, RemovalsOf
  <2>4. CASE Done /\ Head(work) \in SandboxCalls \cup MountCalls
    <3>1. ~Idle /\ Head(work) \notin Creations /\ Head(work) \notin Removals
      BY <2>4, KindsDiffer DEF Done
    <3>2. QED BY <2>3, <2>4, <3>1, WorkAfter
  <2>5. CASE SpawnStarter
    <3>1. ~Idle /\ Head(work) \notin Creations /\ Head(work) \notin Removals
      BY <2>5, KindsDiffer DEF SpawnStarter, Next_
    <3>2. QED BY <2>3, <2>5, <3>1, WorkAfter
  <2>6. CASE Expanded /\ Head(work) \in SandboxCalls
    <3>1. PICK calls : /\ Expansion(Head(work), calls)
                       /\ Elements(work') = Elements(calls) \cup Elements(Tail(work))
      BY <2>6, WorkAfter
    <3>2. /\ Elements(work) = {Head(work)} \cup Elements(Tail(work))
          /\ Head(work) \notin Creations /\ Head(work) \notin Removals
      BY <2>6, WorkTail, KindsDiffer DEF Expanded
    <3>3. \A e \in Elements(calls) : /\ e \notin Creations /\ e \notin Wipes
                                     /\ e \in Removals => Head(work) \in Wipes
      BY <3>1, KindsDiffer DEF Expansion
    <3>4. QED BY <3>1, <3>2, <3>3 DEF CreationsOf, RemovalsOf
  <2>7. QED BY <1>1, <2>1, <2>2, <2>4, <2>5, <2>6 DEF Quiet
<1>6. Done /\ Head(work) \in Wipes => Elements(work) \cap Wipes # {}
  BY WorkTail DEF Done
<1>7. ASSUME NEW n \in UnitNames(Goal.pod.units)
      PROVE  Ready(n)'
  <2>1. n \in Names /\ Ready(n)
    BY <1>2, <1>4
  <2>2. CASE /\ Elements(work) \cap CreationsOf(n) # {}
             /\ Gone(n) \/ Elements(work) \cap RemovalsOf(n) # {}
    <3>1. Elements(work') \cap CreationsOf(n) # {}
      BY <1>5, <2>2
    <3>2. Gone(n)' \/ Elements(work') \cap RemovalsOf(n) # {}
      BY <1>5, <2>1, <2>2
    <3>3. QED BY <3>1, <3>2 DEF Ready
  <2>3. CASE /\ Elements(work) \cap CreationsOf(n) = {}
             /\ Elements(work) \cap RemovalsOf(n) = {}
             /\ Elements(work) \cap Wipes = {}
             /\ Present(n, Goal)
    <3>1. Present(n, Goal)'
      BY <1>6, <2>1, <2>3
    <3>2. Elements(work') \cap RemovalsOf(n) = {}
      BY <1>5, <2>3 DEF RemovalsOf
    <3>3. Elements(work') \cap CreationsOf(n) = {} /\ Elements(work') \cap Wipes = {}
      BY <1>5, <2>3
    <3>4. QED BY <3>1, <3>2, <3>3 DEF Ready
  <2>4. QED BY <2>1, <2>2, <2>3 DEF Ready
<1>8. ASSUME NEW n \in Names, n \notin UnitNames(Goal.pod.units)
      PROVE  Removed(n)'
  <2>1. Gone(n)' \/ Elements(work') \cap RemovalsOf(n) # {}
    BY <1>2, <1>5, <1>8 DEF Removed
  <2>2. Elements(work') \cap CreationsOf(n) = {}
    BY <1>2, <1>5, <1>8 DEF Removed
  <2>3. QED BY <2>1, <2>2 DEF Removed
<1>9. KnownMounts'
  <2>1. SUFFICES ASSUME runtime = "itzo",
                        Elements(work') \cap Removals # {} \/ Elements(work') \cap Wipes # {},
                        NEW n \in Names
                 PROVE  Detaching(n)' \/ attached'[n] = None
                                      \/ attached'[n] = Mounted(status', n)
    BY DEF KnownMounts, Mounted
  <2>2. Elements(work) \cap Removals # {} \/ Elements(work) \cap Wipes # {}
    BY <1>5, <2>1
  <2>3. work' # <<>>
    BY <2>1, NoElement
  <2>4. QED BY <1>2, <1>3, <2>1, <2>2, <2>3 DEF KnownMounts
<1>10. QED BY <1>3, <1>7, <1>8, <1>9 DEF DeployedInv

\* A creation makes its unit present, and leaves the others alone.
LEMMA CreationKeepsDeployed ==
    ASSUME CallInv, DeployedInv, ~Idle, Head(work) \in Creations, Done, runtime' = runtime,
           LET name == Head(work).unit.name IN
           \A n \in Names :
              /\ n = name /\ Gone(n) => Present(n, Goal)'
              /\ n # name => /\ Gone(n) => Gone(n)'
                             /\ Present(n, Goal) => Present(n, Goal)'
    PROVE  DeployedInv'
<1> DEFINE name == Head(work).unit.name
<1> SUFFICES ASSUME ~failed'
             PROVE  DeployedInv'
  BY DEF DeployedInv
<1>1. /\ \A n \in UnitNames(Goal.pod.units) : Ready(n)
      /\ \A n \in Names : n \notin UnitNames(Goal.pod.units) => Removed(n)
      /\ CreatedOnce /\ KnownMounts
  BY DEF DeployedInv, Done, Proceed
<1>2. Goal' = Goal /\ CreatedOnce'
  BY <1>1, GoalKept, CreatedOnceKept
<1>3. /\ UnitNames(Goal.pod.units) \subseteq Names /\ name \in Names
  <2>1. Head(work) \in UnitCalls
    BY DEF Creations
  <2>2. QED BY <2>1, GoalTypes, HeadCalls
<1>4. /\ Elements(work) = {Head(work)} \cup Elements(work')
      /\ Elements(work') \cap Removals = {} /\ Elements(work') \cap Wipes = {}
      /\ Head(work) \in CreationsOf(name) /\ Head(work) \notin Removals
  BY WorkTail, WorkAfter, KindsDiffer DEF CreationsOf
<1>5. Elements(work') \cap CreationsOf(name) = {}
  <2>1. Ordered(work, CreationsOf(name), CreationsOf(name)) /\ work \in Seq(AllCalls)
        /\ work # <<>>
    BY <1>1, <1>3 DEF CreatedOnce, CallInv, CallTypes, Idle
  <2>2. Elements(Tail(work)) \cap CreationsOf(name) = {}
    BY <1>4, <2>1, OrderedTail
  <2>3. QED BY <2>2, WorkAfter
<1>6. /\ \A n : Elements(work) \cap RemovalsOf(n) = {}
      /\ \A n : Elements(work') \cap RemovalsOf(n) = {}
      /\ \A n : n # name =>
            Elements(work') \cap CreationsOf(n) = Elements(work) \cap CreationsOf(n)
  BY <1>4 DEF RemovalsOf, CreationsOf
<1>7. name \in UnitNames(Goal.pod.units) /\ Gone(name)
  <2>1. Elements(work) \cap CreationsOf(name) # {}
    BY <1>4
  <2>2. name \in UnitNames(Goal.pod.units)
    BY <1>1, <1>3, <2>1 DEF Removed
  <2>3. QED BY <1>1, <1>6, <2>1, <2>2 DEF Ready
<1> HIDE DEF name
<1>8. ASSUME NEW n \in UnitNames(Goal.pod.units)
      PROVE  Ready(n)'
  <2>1. CASE n = name
    <3>1. Present(n, Goal)'
      BY <1>3, <1>7, <2>1 DEF name
    <3>2. /\ Elements(work') \cap CreationsOf(n) = {}
          /\ Elements(work') \cap RemovalsOf(n) = {}
          /\ Elements(work') \cap Wipes = {}
      BY <1>4, <1>5, <1>6, <2>1
    <3>3. QED BY <3>1, <3>2 DEF Ready
  <2>2. CASE n # name /\ Elements(work) \cap CreationsOf(n) # {}
    <3>1. n \in Names /\ Gone(n)
      BY <1>1, <1>3, <1>6, <2>2 DEF Ready
    <3>2. Gone(n)'
      BY <2>2, <3>1 DEF name
    <3>3. Elements(work') \cap CreationsOf(n) # {}
      BY <1>6, <2>2
    <3>4. QED BY <3>2, <3>3 DEF Ready
  <2>3. CASE n # name /\ Elements(work) \cap CreationsOf(n) = {}
    <3>1. n \in Names /\ Present(n, Goal)
      BY <1>1, <1>3, <2>3 DEF Ready
    <3>2. Present(n, Goal)'
      BY <2>3, <3>1 DEF name
    <3>3. /\ Elements(work') \cap CreationsOf(n) = {}
          /\ Elements(work') \cap RemovalsOf(n) = {}
          /\ Elements(work') \cap Wipes = {}
      BY <1>4, <1>6, <2>3
    <3>4. QED BY <3>2, <3>3 DEF Ready
  <2>4. QED BY <2>1, <2>2, <2>3
<1>9. ASSUME NEW n \in Names, n \notin UnitNames(Goal.pod.units)
      PROVE  Removed(n)'
  <2>1. n # name /\ Removed(n)
    BY <1>1, <1>7, <1>9
  <2>2. Gone(n)'
    BY <1>6, <1>9, <2>1 DEF Removed, name
  <2>3. Elements(work') \cap CreationsOf(n) = {}
    BY <1>6, <2>1 DEF Removed
  <2>4. QED BY <2>2, <2>3 DEF Removed
<1>10. KnownMounts'
  BY <1>4 DEF KnownMounts
<1>11. QED BY <1>2, <1>8, <1>9, <1>10 DEF DeployedInv

\* A removal makes its unit gone, and leaves the others alone.
LEMMA RemovalKeepsDeployed ==
    ASSUME CallInv, DeployedInv, ~Idle, Head(work) \in Removals, Done, runtime' = runtime,
           LET name == Head(work).unit.name IN
           \A n \in Names :
              /\ n = name => Gone(n)' /\ (runtime = "itzo" => attached'[n] = None)
              /\ n # name => /\ Gone(n) => Gone(n)'
                             /\ Present(n, Goal) => Present(n, Goal)'
                             /\ runtime = "itzo" => attached'[n] = attached[n] /\ ~Detaching(n)
    PROVE  DeployedInv'
<1> DEFINE name == Head(work).unit.name
<1> SUFFICES ASSUME ~failed'
             PROVE  DeployedInv'
  BY DEF DeployedInv
<1>1. /\ \A n \in UnitNames(Goal.pod.units) : Ready(n)
      /\ \A n \in Names : n \notin UnitNames(Goal.pod.units) => Removed(n)
      /\ CreatedOnce /\ KnownMounts
  BY DEF DeployedInv, Done, Proceed
<1>2. Goal' = Goal /\ CreatedOnce' /\ (work' # <<>> => status' = status)
  BY <1>1, GoalKept, CreatedOnceKept
<1>3. UnitNames(Goal.pod.units) \subseteq Names
  BY GoalTypes
<1>4. /\ Elements(work) = {Head(work)} \cup Elements(work')
      /\ Head(work) \in RemovalsOf(name) /\ Head(work) \notin Creations
      /\ Head(work) \notin Wipes
  BY WorkTail, WorkAfter, KindsDiffer DEF RemovalsOf
<1>5. /\ \A n : Elements(work') \cap CreationsOf(n) = Elements(work) \cap CreationsOf(n)
      /\ \A n : n # name =>
            Elements(work') \cap RemovalsOf(n) = Elements(work) \cap RemovalsOf(n)
      /\ Elements(work') \cap Wipes = Elements(work) \cap Wipes
      /\ Elements(work) \cap RemovalsOf(name) # {} /\ Elements(work) \cap Removals # {}
  BY <1>4 DEF CreationsOf, RemovalsOf
<1> HIDE DEF name
<1>6. ASSUME NEW n \in UnitNames(Goal.pod.units)
      PROVE  Ready(n)'
  <2>1. n \in Names /\ Ready(n)
    BY <1>1, <1>3
  <2>2. CASE n = name
    <3>1. Elements(work') \cap CreationsOf(n) # {}
      BY <1>5, <2>1, <2>2 DEF Ready
    <3>2. Gone(n)'
      BY <2>1, <2>2 DEF name
    <3>3. QED BY <3>1, <3>2 DEF Ready
  <2>3. CASE n # name /\ Elements(work) \cap CreationsOf(n) # {}
    <3>1. Gone(n) \/ Elements(work) \cap RemovalsOf(n) # {}
      BY <2>1, <2>3 DEF Ready
    <3>2. Gone(n) => Gone(n)'
      BY <2>1, <2>3 DEF name
    <3>3. Elements(work') \cap CreationsOf(n) # {}
      BY <1>5, <2>3
    <3>4. Gone(n)' \/ Elements(work') \cap RemovalsOf(n) # {}
      BY <1>5, <2>3, <3>1, <3>2
    <3>5. QED BY <3>3, <3>4 DEF Ready
  <2>4. CASE n # name /\ Elements(work) \cap CreationsOf(n) = {}
    <3>1. Present(n, Goal)
      BY <2>1, <2>4 DEF Ready
    <3>2. Present(n, Goal)'
      BY <2>1, <2>4, <3>1 DEF name
    <3>3. /\ Elements(work') \cap CreationsOf(n) = {}
          /\ Elements(work') \cap RemovalsOf(n) = {}
          /\ Elements(work') \cap Wipes = {}
      BY <1>5, <2>1, <2>4 DEF Ready
    <3>4. QED BY <3>2, <3>3 DEF Ready
  <2>5. QED BY <2>2, <2>3, <2>4
<1>7. ASSUME NEW n \in Names, n \notin UnitNames(Goal.pod.units)
      PROVE  Removed(n)'
  <2>1. Removed(n)
    BY <1>1, <1>7
  <2>2. Elements(work') \cap CreationsOf(n) = {}
    BY <1>5, <2>1 DEF Removed
  <2>3. CASE n = name
    <3>1. Gone(n)'
      BY <1>7, <2>3 DEF name
    <3>2. QED BY <2>2, <3>1 DEF Removed
  <2>4. CASE n # name
    <3>1. Gone(n) => Gone(n)'
      BY <2>4 DEF name
    <3>2. Gone(n)' \/ Elements(work') \cap RemovalsOf(n) # {}
      BY <1>5, <2>1, <2>4, <3>1 DEF Removed
    <3>3. QED BY <2>2, <3>2 DEF Removed
  <2>5. QED BY <2>3, <2>4
<1>8. KnownMounts'
  <2>1. SUFFICES ASSUME runtime = "itzo", work' # <<>>, NEW n \in Names
                 PROVE  attached'[n] = None \/ attached'[n] = Mounted(status', n)
    BY NoElement DEF KnownMounts, Mounted
  <2>2. Detaching(n) \/ attached[n] = None \/ attached[n] = Mounted(status, n)
    BY <1>1, <1>5, <2>1 DEF KnownMounts
  <2>3. status' = status
    BY <1>2, <2>1
  <2>4. attached'[n] = None \/ (attached'[n] = attached[n] /\ ~Detaching(n))
    BY <2>1 DEF name
  <2>5. QED BY <2>2, <2>3, <2>4
<1>9. QED BY <1>2, <1>6, <1>7, <1>8 DEF DeployedInv

\* An update starts from what the last one left: everything the status has.
LEMMA BeginKeepsDeployed ==
    ASSUME DistinctNames, MountsFollowUnits(Requests),
           CallInv, DeployedInv, NEW r \in Requests, BeginUpdate(r),
           UNCHANGED <<itzoVars, podmanVars, runtime, vmid>>, ~stopped
    PROVE  DeployedInv'
<1> SUFFICES ASSUME ~failed'
             PROVE  DeployedInv'
  BY DEF DeployedInv
<1>1. /\ work = <<>> /\ Goal = status /\ failed' = failed
      /\ work' = SyncPodUnits(r, status)
      /\ Goal' = r /\ (work' # <<>> => status' = status)
  BY DEF BeginUpdate, Idle, Goal
<1>2. status \in AllRequests /\ r \in AllRequests
  BY DEF CallInv, CallTypes, AllRequests
<1>3. /\ \A n \in UnitNames(status.pod.units) : n \in Names /\ Present(n, status)
      /\ \A n \in Names : n \notin UnitNames(status.pod.units) => Gone(n)
  <2>1. /\ \A n \in UnitNames(status.pod.units) : Ready(n)
        /\ \A n \in Names : n \notin UnitNames(status.pod.units) => Removed(n)
    BY <1>1 DEF DeployedInv
  <2>2. \A n : /\ Elements(work) \cap CreationsOf(n) = {}
               /\ Elements(work) \cap RemovalsOf(n) = {}
    BY <1>1, NoElement
  <2>3. UnitNames(status.pod.units) \subseteq Names
    BY <1>1, GoalTypes
  <2>4. QED BY <1>1, <2>1, <2>2, <2>3 DEF Ready, Removed
<1>4. Deploys(work', r, status)
  BY <1>1, <1>2, UpdateCalls
<1>5. ASSUME NEW n \in UnitNames(r.pod.units), Kept(n, r, status)
      PROVE  Present(n, Goal)'
  <2>1. PICK j \in DOMAIN r.pod.units, k \in DOMAIN status.pod.units :
           r.pod.units[j] = status.pod.units[k] /\ r.pod.units[j].name = n
    BY <1>5 DEF Kept
  <2>2. status \in Requests
    <3>1. status = NoRequest => DOMAIN status.pod.units = {}
      BY DEF NoRequest, EmptyStatus
    <3>2. QED BY <1>2, <2>1, <3>1 DEF AllRequests
  <2>3. r.mounts[n] = status.mounts[n]
    BY <2>1, <2>2 DEF MountsFollowUnits
  <2>4. n \in UnitNames(status.pod.units)
    BY <2>1 DEF UnitNames
  <2>5. Present(n, status)
    BY <1>3, <2>4
  <2>6. Mounted(r, n) = Mounted(status, n)
    BY <2>3 DEF Mounted
  <2>7. Present(n, r)
    BY <2>5, <2>6 DEF Present
  <2>8. QED BY <1>1, <2>7 DEF Present, itzoVars, unitVars, podmanVars, PodmanHas, Mounted
<1>6. ASSUME NEW n \in UnitNames(r.pod.units)
      PROVE  Ready(n)'
  <2>1. CASE /\ Elements(work') \cap CreationsOf(n) # {}
             /\ n \notin UnitNames(status.pod.units) \/ Elements(work') \cap RemovalsOf(n) # {}
    <3>1. n \in Names
      <4> DEFINE u == r.pod.units
      <4>1. u \in Seq(Unit) /\ \E j \in DOMAIN u : u[j].name = n
        BY <1>2, RequestTypes DEF UnitNames
      <4> HIDE DEF u
      <4>2. \A j \in DOMAIN u : u[j] \in Unit
        BY <4>1, LenProperties, ElementOfSeq
      <4>3. QED BY <4>1, <4>2 DEF Unit
    <3>2. Gone(n)' \/ Elements(work') \cap RemovalsOf(n) # {}
      BY <1>3, <2>1, <3>1 DEF Gone, itzoVars, unitVars
    <3>3. QED BY <2>1, <3>2 DEF Ready
  <2>2. CASE /\ Elements(work') \cap CreationsOf(n) = {}
             /\ Elements(work') \cap RemovalsOf(n) = {}
             /\ Elements(work') \cap Wipes = {}
             /\ Kept(n, r, status)
    BY <1>5, <2>2 DEF Ready
  <2>3. QED BY <1>4, <2>1, <2>2 DEF Deploys
<1>7. ASSUME NEW n \in Names, n \notin UnitNames(r.pod.units)
      PROVE  Removed(n)'
  <2>1. /\ Elements(work') \cap CreationsOf(n) = {}
        /\ n \notin UnitNames(status.pod.units) \/ Elements(work') \cap RemovalsOf(n) # {}
    BY <1>4, <1>7 DEF Deploys
  <2>2. Gone(n)' \/ Elements(work') \cap RemovalsOf(n) # {}
    BY <1>3, <1>7, <2>1 DEF Gone, itzoVars, unitVars
  <2>3. QED BY <2>1, <2>2 DEF Removed
<1>8. CreatedOnce'
  BY <1>4 DEF Deploys, CreatedOnce
<1>9. KnownMounts'
  <2>1. SUFFICES ASSUME runtime = "itzo", work' # <<>>, NEW n \in Names
                 PROVE  attached'[n] = None \/ attached'[n] = Mounted(status', n)
    BY NoElement DEF KnownMounts, Mounted
  <2>2. attached' = attached /\ status' = status
    BY <1>1, <2>1 DEF itzoVars, unitVars
  <2>3. QED BY <1>3, <2>1, <2>2 DEF Present, Gone
<1>10. QED BY <1>1, <1>6, <1>7, <1>8, <1>9 DEF DeployedInv

\* A step that fails nothing was taken where nothing had failed.
LEMMA FailuresStay ==
    ASSUME Quiet \/ Done \/ SpawnStarter, ~failed'
    PROVE  ~failed /\ ~GaveUp
BY DEF Quiet, SpawnStarter, Ok, StartEnds, Started, NotStarted, GaveUp, GiveUp, Done,
       Expanded, Proceed, SameCalls

\* A removal in steps: what is mounted follows what is still to be detached.
LEMMA ItzoDetaches ==
    ASSUME RuntimesInv, DeployedInv, DetachInv, runtime = "itzo", runtime' = runtime, ItzoEffect
    PROVE  /\ DetachInv'
           /\ emptied' # emptied => failed \/ Head(work).unit.name \in leftMounted'
<1>1. CallInv /\ ItzoTypes
  BY DEF RuntimesInv
<1>2. CASE QuietEffect
  <2>1. UNCHANGED <<attached, stopped, detaching, leftMounted, emptied>> /\ Quiet
    BY <1>2 DEF QuietEffect, removalVars
  <2>2. SUFFICES ASSUME stopped
                 PROVE  DetachInv'
    BY <2>1 DEF DetachInv
  <2>3. work' = work /\ ~Idle
    BY <1>2, <2>2 DEF QuietEffect, DetachInv
  <2>4. ~failed' => ~failed
    BY <2>1, FailuresStay
  <2>5. QED BY <2>1, <2>2, <2>3, <2>4 DEF DetachInv, Unmounting, Remaining, Idle
<1>3. CASE CreateEffect
  <2>1. Head(work).op = "CreateContainer" /\ UNCHANGED <<stopped, emptied>>
    BY <1>3 DEF CreateEffect, Creations, removalVars
  <2>2. QED BY <2>1 DEF DetachInv
<1>4. ASSUME NEW name \in Names, Removing(name)
      PROVE  /\ ~Idle /\ Head(work).op = "RemoveContainer" /\ Head(work).unit.name = name
             /\ Elements(work) \cap Removals # {}
             /\ Head(work).request.mounts[name] \in Seq(Volumes)
             /\ Head(work).request = status
  <2>1. ~Idle /\ Head(work) \in Removals /\ Head(work).unit.name = name
    BY <1>4 DEF Removing
  <2>2. Head(work) \in UnitCalls /\ Head(work) \in Elements(work)
    BY <1>1, <2>1, WorkTail DEF Removals
  <2>3. Head(work).op = "RemoveContainer"
    BY <2>1 DEF Removals
  <2>4. QED BY <1>1, <2>1, <2>2, <2>3, HeadCalls DEF CallInv, WorkInv
<1>5. ASSUME NEW name \in Names, Removing(name), StopEffect(name)
      PROVE  DetachInv' /\ emptied' = emptied
  <2>1. /\ work' = work /\ failed' = failed /\ stopped' /\ emptied' = emptied
        /\ attached' = attached /\ detaching' = Head(work).request.mounts[name]
        /\ ~stopped
    BY <1>5 DEF StopEffect, SameCalls
  <2>2. ~failed => Unmounting(name)'
    <3>1. SUFFICES ASSUME ~failed
                   PROVE  attached[name] = None \/ attached[name] = Remaining'
      BY <2>1 DEF Unmounting
    <3>2. attached[name] = None \/ attached[name] = Mounted(status, name)
      BY <1>4, <1>5, <2>1, <3>1 DEF DeployedInv, KnownMounts, Detaching
    <3>3. Remaining' = Mounted(status, name)
      BY <1>4, <1>5, <2>1 DEF Remaining, Mounted
    <3>4. QED BY <3>2, <3>3
  <2>3. QED BY <1>4, <1>5, <2>1, <2>2 DEF DetachInv, Idle
<1>6. ASSUME NEW name \in Names, Removing(name), DetachEffect(name)
      PROVE  DetachInv' /\ emptied' = emptied
  <2> DEFINE v == Head(detaching)
  <2>1. /\ work' = work /\ failed' = failed /\ stopped /\ stopped' /\ emptied' = emptied
        /\ detaching # <<>> /\ detaching' = Tail(detaching)
        /\ \/ /\ leftMounted' = leftMounted
              /\ attached' = [attached EXCEPT ![name][v] = Detached(name, v)]
           \/ leftMounted' = leftMounted \cup {name} /\ attached' = attached
    BY <1>6 DEF DetachEffect, SameCalls
  <2>2. v \in Volumes /\ detaching \in Seq(Volumes) /\ Tail(detaching) \in Seq(Volumes)
    BY <1>1, <2>1, HeadTailProperties DEF ItzoTypes
  <2>3. ~failed => Unmounting(name)
    BY <1>4, <1>6, <2>1 DEF DetachInv
  <2>4. ASSUME Unmounting(name)
        PROVE  Unmounting(name)'
    <3>1. CASE name \in leftMounted'
      BY <3>1 DEF Unmounting
    <3>2. CASE name \notin leftMounted'
      <4>1. /\ attached' = [attached EXCEPT ![name][v] = Detached(name, v)]
            /\ name \notin leftMounted
        BY <2>1, <3>2
      <4> HIDE DEF v
      <4>2. /\ attached'[name] \in [Volumes -> Nat]
            /\ attached'[name] = [attached[name] EXCEPT ![v] = Detached(name, v)]
            /\ attached[name] \in [Volumes -> Nat]
        BY <1>1, <1>6, <2>2, <4>1, DetachedType DEF ItzoTypes
      <4>3. /\ attached'[name][v] = Detached(name, v)
            /\ \A u \in Volumes : u # v => attached'[name][u] = attached[name][u]
        BY <2>2, <4>2
      <4>4. CASE attached[name] = None
        <5>1. \A u \in Volumes : attached'[name][u] = 0
          BY <4>3, <4>4 DEF None, Detached
        <5>2. attached'[name] = None
          BY <4>2, <5>1 DEF None
        <5>3. QED BY <5>2 DEF Unmounting
      <4>5. CASE attached[name] = Remaining
        <5>1. \A u \in Volumes :
                 /\ Count(Tail(detaching), u) \in Nat
                 /\ attached[name][u] = Count(Tail(detaching), u) + (IF v = u THEN 1 ELSE 0)
          BY <2>1, <2>2, <4>5, CountTail, CountType DEF Remaining, v
        <5>2. \A u \in Volumes : attached'[name][u] = Count(Tail(detaching), u)
          BY <2>2, <4>3, <5>1 DEF Detached
        <5>3. attached'[name] = [u \in Volumes |-> Count(Tail(detaching), u)]
          BY <4>2, <5>2
        <5>4. attached'[name] = Remaining'
          BY <2>1, <5>3 DEF Remaining
        <5>5. QED BY <5>4 DEF Unmounting
      <4>6. QED BY <2>4, <4>1, <4>4, <4>5 DEF Unmounting
    <3>3. QED BY <3>1, <3>2
  <2>5. QED BY <1>4, <1>6, <2>1, <2>3, <2>4 DEF DetachInv, Idle
<1>7. ASSUME NEW name \in Names, Removing(name), RemoveEffect(name)
      PROVE  DetachInv' /\ (emptied' # emptied => failed \/ name \in leftMounted')
  <2>1. /\ stopped /\ ~stopped' /\ detaching = <<>>
        /\ emptied' # emptied => /\ name \in leftMounted' \/ attached[name] # None
                                 /\ name \in leftMounted => name \in leftMounted'
    BY <1>7 DEF RemoveEffect
  <2>2. Remaining = None
    BY <2>1, CountNone DEF Remaining, None
  <2>3. ~failed => Unmounting(name)
    BY <1>4, <1>7, <2>1 DEF DetachInv
  <2>4. QED BY <2>1, <2>2, <2>3 DEF DetachInv, Unmounting
<1>8. ASSUME NEW name \in Names, Removing(name)
      PROVE  Head(work).unit.name = name
  BY <1>4, <1>8
<1>9. QED BY <1>2, <1>3, <1>5, <1>6, <1>7, <1>8 DEF ItzoEffect, CreateEffect, QuietEffect,
             removalVars

LEMMA ItzoKeepsDeployed ==
    ASSUME RuntimesInv, DeployedInv, DetachInv, runtime = "itzo", runtime' = runtime,
           ItzoEffect
    PROVE  DeployedInv'
<1>1. CallInv /\ ItzoTypes
  BY DEF RuntimesInv
<1>2. CASE QuietEffect
  <2>1. CASE ~failed'
    <3>1. /\ UNCHANGED <<attached, stopped>> /\ dir \subseteq dir' /\ Quiet
          /\ work' = work \/ Head(work).op # "RemoveContainer"
      BY <1>2 DEF QuietEffect, removalVars
    <3>2. /\ \A n \in Names : Gone(n) => Gone(n)'
          /\ \A n \in Names : Present(n, Goal) => Present(n, Goal)'
      <4>1. Goal' = Goal
        BY <1>1, <3>1, GoalKept
      <4>2. QED BY <3>1, <4>1 DEF Gone, Present, Mounted
    <3>3. \A n \in Names : Detaching(n)' \/ (attached'[n] = attached[n] /\ ~Detaching(n))
      BY <3>1 DEF Detaching, DetachInv
    <3>4. QED BY <1>1, <2>1, <3>1, <3>2, <3>3, QuietKeepsDeployed
  <2>2. CASE failed'
    BY <2>2 DEF DeployedInv
  <2>3. QED BY <2>1, <2>2
<1>3. ASSUME ~Idle, Head(work) \in Creations, Done,
             dir' = dir \cup {Head(work).unit.name},
             attached' = Attached(Head(work).unit.name,
                                  Head(work).request.mounts[Head(work).unit.name])
      PROVE  DeployedInv'
  <2> DEFINE name == Head(work).unit.name
             vs == Head(work).request.mounts[name]
  <2>1. name \in Names /\ vs \in Seq(Volumes) /\ Head(work).request = target
    <3>1. Head(work) \in UnitCalls /\ Head(work) \in Elements(work)
      BY <1>1, <1>3, WorkTail DEF Creations
    <3>2. QED BY <1>1, <1>3, <3>1, HeadCalls DEF CallInv, WorkInv
  <2>2. Goal' = Goal /\ Goal = target
    BY <1>1, <1>3, GoalKept DEF Goal
  <2>3. vs = Goal.mounts[name]
    BY <2>1, <2>2
  <2> HIDE DEF name, vs
  <2>4. /\ attached' = Attached(name, vs)
        /\ dir' = dir \cup {name}
    BY <1>3 DEF name, vs
  <2>5. /\ \A n \in Names : n # name => attached'[n] = attached[n]
        /\ \A v \in Volumes : attached'[name][v] = attached[name][v] + Count(vs, v)
        /\ attached'[name] \in [Volumes -> Nat]
    BY <1>1, <2>1, <2>4, AttachedType DEF ItzoTypes
  <2>6. ASSUME attached[name] = None
        PROVE  attached'[name] = Mounted(Goal, name)
    <3>1. \A v \in Volumes : attached'[name][v] = Count(vs, v)
      <4>1. \A v \in Volumes : attached[name][v] = 0 /\ Count(vs, v) \in Nat
        BY <2>1, <2>6, CountType DEF None
      <4>2. QED BY <2>5, <4>1
    <3>2. attached'[name] = [v \in Volumes |-> Count(vs, v)]
      BY <2>5, <3>1
    <3>3. QED BY <2>3, <3>2 DEF Mounted
  <2>7. ASSUME NEW n \in Names
        PROVE  /\ n = name /\ Gone(n) => Present(n, Goal)'
               /\ n # name => /\ Gone(n) => Gone(n)'
                              /\ Present(n, Goal) => Present(n, Goal)'
    <3>1. CASE n = name
      BY <2>2, <2>4, <2>6, <3>1 DEF Gone, Present, Mounted
    <3>2. CASE n # name
      BY <2>2, <2>4, <2>5, <3>2 DEF Gone, Present, Mounted
    <3>3. QED BY <3>1, <3>2
  <2>8. QED BY <1>1, <1>3, <2>7, CreationKeepsDeployed DEF name
<1>4. ASSUME NEW name \in Names, Removing(name), StopEffect(name) \/ DetachEffect(name),
             ~failed'
      PROVE  DeployedInv'
  <2>1. SameCalls /\ dir \subseteq dir' /\ stopped'
    BY <1>4 DEF StopEffect, DetachEffect
  <2>2. /\ ~Idle /\ Head(work).unit.name = name /\ work' = work
        /\ Elements(work) \cap RemovalsOf(name) # {}
    BY <1>1, <1>4, <2>1, WorkTail DEF Removing, RemovalsOf, SameCalls
  <2>3. \A n \in Names : n # name => attached'[n] = attached[n]
    BY <1>1, <1>4 DEF StopEffect, DetachEffect, ItzoTypes
  <2>4. attached[name] = None => attached'[name] = None
    <3>1. CASE attached' = attached
      BY <3>1
    <3>2. ASSUME NEW v \in Volumes, attached[name] = None,
                 attached' = [attached EXCEPT ![name][v] = Detached(name, v)]
          PROVE  attached'[name] = None
      <4>1. attached'[name] = [None EXCEPT ![v] = Detached(name, v)]
        BY <1>1, <1>4, <3>2 DEF ItzoTypes
      <4>2. Detached(name, v) = 0
        BY <3>2 DEF Detached, None
      <4>3. QED BY <4>1, <4>2 DEF None
    <3>3. detaching # <<>> => Head(detaching) \in Volumes
      BY <1>1, HeadTailProperties DEF ItzoTypes
    <3>4. QED BY <1>4, <3>1, <3>2, <3>3 DEF StopEffect, DetachEffect
  <2>5. Goal' = Goal
    BY <1>1, <2>1, GoalKept DEF Quiet
  <2>6. ASSUME NEW n \in Names
        PROVE  /\ Gone(n) => Gone(n)'
               /\ Elements(work) \cap RemovalsOf(n) = {} /\ Present(n, Goal) =>
                     Present(n, Goal)'
               /\ Detaching(n)' \/ (attached'[n] = attached[n] /\ ~Detaching(n))
    <3>1. CASE n = name
      BY <2>1, <2>2, <2>4, <3>1 DEF Gone, Detaching, None
    <3>2. CASE n # name
      BY <2>1, <2>2, <2>3, <2>5, <3>2 DEF Gone, Present, Mounted, Detaching, None
    <3>3. QED BY <3>1, <3>2
  <2>7. QED BY <1>1, <1>4, <2>1, <2>6, QuietKeepsDeployed DEF Quiet
<1>5. ASSUME NEW name \in Names, Removing(name), RemoveEffect(name), Done
      PROVE  DeployedInv'
  <2>1. Goal' = Goal
    BY <1>1, <1>5, GoalKept
  <2>2. CASE GaveUp
    BY <2>2 DEF GaveUp, GiveUp, DeployedInv
  <2>3. CASE ~GaveUp
    <3>1. /\ dir' = dir \ {name} /\ attached'[name] = None
          /\ \A n \in Names : n # name => attached'[n] = attached[n]
          /\ ~Idle /\ Head(work) \in Removals /\ Head(work).unit.name = name
      BY <1>5, <2>3 DEF RemoveEffect, Removing
    <3>2. ASSUME NEW n \in Names
          PROVE  /\ n = name => Gone(n)' /\ (runtime = "itzo" => attached'[n] = None)
                 /\ n # name => /\ Gone(n) => Gone(n)'
                                /\ Present(n, Goal) => Present(n, Goal)'
                                /\ runtime = "itzo" =>
                                      attached'[n] = attached[n] /\ ~Detaching(n)
      <4>1. CASE n = name
        BY <3>1, <4>1 DEF Gone, None
      <4>2. CASE n # name
        BY <2>1, <3>1, <4>2 DEF Gone, Present, Mounted, None, Detaching
      <4>3. QED BY <4>1, <4>2
    <3>3. QED BY <1>1, <1>5, <3>1, <3>2, RemovalKeepsDeployed
  <2>4. QED BY <2>2, <2>3
<1>6. GaveUp \/ failed' => DeployedInv'
  BY DEF GaveUp, GiveUp, DeployedInv
<1>7. CreateEffect => DeployedInv'
  BY <1>3, <1>6 DEF CreateEffect
<1>8. ASSUME NEW name \in Names, RemoveEffect(name)
      PROVE  Done \/ GaveUp
  BY <1>8 DEF RemoveEffect
<1>9. QED BY <1>2, <1>4, <1>5, <1>6, <1>7, <1>8 DEF ItzoEffect

LEMMA PodmanKeepsDeployed ==
    ASSUME RuntimesInv, DeployedInv, runtime = "podman", runtime' = runtime, PodmanAnswer
    PROVE  DeployedInv'
<1>1. CallInv /\ PodmanEffect
  BY PodmanAnswers DEF RuntimesInv
<1>2. \A n : Gone(n) /\ Gone(n)'
  BY DEF Gone
<1>3. \A n \in Names : /\ Present(n, Goal) <=> PodmanHas(n)
                       /\ Present(n, Goal)' <=> PodmanHas(n)'
  BY DEF Present
<1>4. GaveUp => DeployedInv'
  BY DEF GaveUp, GiveUp, DeployedInv
<1>5. CASE /\ Quiet
           /\ \/ Done /\ Head(work) \in Wipes
              \/ \A n \in Names : PodmanHas(n) => PodmanHas(n)'
  <2>1. CASE ~failed'
    BY <1>1, <1>2, <1>3, <1>5, <2>1, QuietKeepsDeployed
  <2>2. CASE failed'
    BY <2>2 DEF DeployedInv
  <2>3. QED BY <2>1, <2>2
<1>6. ASSUME ~Idle, Head(work) \in Creations, Done,
             \A n \in Names : n = Head(work).unit.name \/ PodmanHas(n) => PodmanHas(n)'
      PROVE  DeployedInv'
  BY <1>1, <1>2, <1>3, <1>6, CreationKeepsDeployed
<1>7. ASSUME ~Idle, Head(work) \in Removals, Done,
             \A n \in Names : n # Head(work).unit.name /\ PodmanHas(n) => PodmanHas(n)'
      PROVE  DeployedInv'
  BY <1>1, <1>2, <1>3, <1>7, RemovalKeepsDeployed
<1>8. QED BY <1>1, <1>4, <1>5, <1>6, <1>7 DEF PodmanEffect

LEMMA MacKeepsDeployed ==
    ASSUME RuntimesInv, DeployedInv, runtime = "mac", runtime' = runtime, MacAnswer
    PROVE  DeployedInv'
<1>1. CallInv /\ MacEffect
  BY MacAnswers DEF RuntimesInv
<1>2. \A n : Gone(n) /\ Gone(n)'
  BY DEF Gone
<1>3. \A n \in Names : /\ Present(n, Goal) <=> n \in vmid
                       /\ Present(n, Goal)' <=> n \in vmid'
  BY DEF Present
<1>4. GaveUp => DeployedInv'
  BY DEF GaveUp, GiveUp, DeployedInv
<1>5. CASE Quiet /\ UNCHANGED <<vmid, dropped>>
  <2>1. CASE ~failed'
    BY <1>1, <1>2, <1>3, <1>5, <2>1, QuietKeepsDeployed
  <2>2. CASE failed'
    BY <2>2 DEF DeployedInv
  <2>3. QED BY <2>1, <2>2
<1>6. ASSUME ~Idle, Head(work) \in Creations, Done,
             vmid' = vmid \cup {Head(work).unit.name}
      PROVE  DeployedInv'
  BY <1>1, <1>2, <1>3, <1>6, CreationKeepsDeployed
<1>7. ASSUME ~Idle, Head(work) \in Removals, Done,
             vmid' = vmid \ {Head(work).unit.name}
      PROVE  DeployedInv'
  BY <1>1, <1>2, <1>3, <1>7, RemovalKeepsDeployed
<1>8. QED BY <1>1, <1>4, <1>5, <1>6, <1>7 DEF MacEffect

LEMMA DeployedInit ==
    ASSUME Init
    PROVE  DeployedInv /\ DetachInv
<1>1. work = <<>> /\ status = NoRequest
  BY DEF Init, CallInit
<1>2. Goal = NoRequest /\ UnitNames(Goal.pod.units) = {}
  <2>1. Goal = NoRequest
    BY <1>1 DEF Goal, Idle
  <2>2. NoRequest.pod.units = <<>>
    BY DEF NoRequest, EmptyStatus
  <2>3. UnitNames(<<>>) = {}
    BY DEF UnitNames
  <2>4. QED BY <2>1, <2>2, <2>3
<1>3. \A n \in Names : attached[n] = None
  BY DEF Init, ItzoInit
<1>4. \A n \in Names : Removed(n)
  BY <1>1, <1>3, NoElement DEF Removed, Gone
<1>5. CreatedOnce /\ KnownMounts
  BY <1>1, NoElement DEF CreatedOnce, KnownMounts
<1>6. ~stopped
  BY DEF Init, ItzoInit
<1>7. QED BY <1>2, <1>4, <1>5, <1>6 DEF DeployedInv, DetachInv

LEMMA DeployedStep ==
    ASSUME DistinctNames, MountsFollowUnits(Requests), RuntimesInv, DeployedInv, DetachInv,
           [Next]_vars
    PROVE  /\ DeployedInv' /\ DetachInv'
           /\ emptied' # emptied => failed \/ Head(work).unit.name \in leftMounted'
<1>1. CASE Controller
  <2>1. /\ UNCHANGED <<itzoVars, podmanVars, runtime, vmid>> /\ CallInv
    BY <1>1, ControllerStep DEF RuntimesInv
  <2>2. UNCHANGED <<attached, dir, stopped, emptied>>
    BY <2>1 DEF itzoVars, unitVars, removalVars
  <2>3. ~stopped
    <3>1. Idle \/ Head(work).op = "spawn"
      BY <1>1, ControllerStep DEF BeginUpdate, SpawnStarter, Next_
    <3>2. QED BY <3>1 DEF DetachInv
  <2>4. ASSUME NEW r \in Requests, BeginUpdate(r)
        PROVE  DeployedInv'
    BY <2>1, <2>3, <2>4, BeginKeepsDeployed
  <2>5. ASSUME SpawnStarter
        PROVE  DeployedInv'
    <3>1. Goal' = Goal
      BY <2>1, <2>5, GoalKept
    <3>2. /\ \A n \in Names : Gone(n) => Gone(n)'
          /\ \A n \in Names : Present(n, Goal) => Present(n, Goal)'
          /\ \A n \in Names : attached'[n] = attached[n] /\ ~Detaching(n)
          /\ runtime' = runtime
      BY <2>1, <2>2, <2>3, <3>1 DEF podmanVars, Gone, Present, PodmanHas, Mounted, Detaching
    <3>3. CASE ~failed'
      BY <2>1, <2>5, <3>2, <3>3, QuietKeepsDeployed
    <3>4. CASE failed'
      BY <3>4 DEF DeployedInv
    <3>5. QED BY <3>3, <3>4
  <2>6. DeployedInv'
    BY <1>1, <2>4, <2>5, ControllerStep
  <2>7. QED BY <2>2, <2>3, <2>6 DEF DetachInv
<1>2. CASE runtime = "itzo" /\ ItzoAnswer /\ UNCHANGED <<podmanVars, macVars, runtime>>
  <2>1. ItzoEffect /\ runtime' = runtime
    BY <1>2, ItzoAnswers DEF RuntimesInv
  <2>2. QED BY <1>2, <2>1, ItzoKeepsDeployed, ItzoDetaches
<1>3. ASSUME runtime # "itzo", UNCHANGED itzoVars
      PROVE  DetachInv' /\ emptied' = emptied
  BY <1>3 DEF DetachInv, itzoVars, unitVars, removalVars
<1>4. CASE runtime = "podman" /\ PodmanAnswer /\ UNCHANGED <<itzoVars, macVars, runtime>>
  BY <1>3, <1>4, PodmanKeepsDeployed
<1>5. CASE runtime = "mac" /\ MacAnswer /\ UNCHANGED <<itzoVars, podmanVars, runtime>>
  BY <1>3, <1>5, MacKeepsDeployed
<1>6. CASE UNCHANGED vars
  <2>1. /\ UNCHANGED <<status, target, work, failed, runtime, ctr, swallowed, vmid>>
        /\ UNCHANGED <<attached, dir, stopped, detaching, leftMounted, emptied>>
    BY <1>6 DEF vars, callVars, itzoVars, unitVars, removalVars, podmanVars, macVars
  <2>2. DetachInv'
    BY <2>1 DEF DetachInv, Unmounting, Remaining, Idle
  <2>3. DeployedInv'
    BY <2>1 DEF DeployedInv, Goal, Idle, Ready, Removed, Present, PodmanHas, Gone, Mounted,
                CreatedOnce, KnownMounts, Detaching
  <2>4. QED BY <2>1, <2>2, <2>3
<1>7. QED BY <1>1, <1>2, <1>4, <1>5, <1>6 DEF Next

\* After updates none of which gave up, every regular unit of the status has what
\* the runtime keeps for it, with each volume mounted exactly as often as it is
\* wanted, although a start of the previous update may run while units are removed
\* and created (pod_controller.go:422-495): for every number of updates and faults
\* and every requests in which no pod has two units of one name and a unit's mounts
\* change with the unit.
THEOREM DeployedUnitsAreThere ==
    ASSUME DistinctNames, MountsFollowUnits(Requests)
    PROVE  Spec => []UnitsAreDeployed
<1>1. Init => RuntimesInv /\ DeployedInv /\ DetachInv
  BY InitRuntimesInv, DeployedInit
<1>2. RuntimesInv /\ DeployedInv /\ DetachInv /\ [Next]_vars =>
        RuntimesInv' /\ DeployedInv' /\ DetachInv'
  BY RuntimesKeep, DeployedStep
<1>3. RuntimesInv /\ DeployedInv => UnitsAreDeployed
  <2> SUFFICES ASSUME RuntimesInv, DeployedInv, Idle, ~failed,
                      NEW n \in UnitNames(status.pod.units)
               PROVE  CASE runtime = "itzo" ->
                              n \in dir /\ \A v \in Volumes : attached[n][v] = Wanted(n, v)
                        [] runtime = "podman" -> ctr[n] # "none" \/ swallowed
                        [] runtime = "mac" -> MacStatus(n) # "nil"
    BY DEF UnitsAreDeployed
  <2>1. Goal = status /\ Elements(work) = {}
    BY NoElement DEF Goal, Idle
  <2>2. Present(n, status) /\ n \in Names
    <3>1. Ready(n)
      BY <2>1 DEF DeployedInv
    <3>2. UnitNames(Goal.pod.units) \subseteq Names
      BY GoalTypes DEF RuntimesInv
    <3>3. QED BY <2>1, <3>1, <3>2 DEF Ready
  <2>3. CASE runtime = "itzo"
    <3>1. attached[n] = [v \in Volumes |-> Count(status.mounts[n], v)] /\ n \in dir
      BY <2>2, <2>3 DEF Present, Mounted
    <3>2. \A v \in Volumes : attached[n][v] = Count(status.mounts[n], v)
      BY <3>1
    <3>3. \A v \in Volumes : Count(status.mounts[n], v) = Wanted(n, v)
      BY DEF Count, Wanted
    <3>4. QED BY <2>3, <3>1, <3>2, <3>3
  <2>4. CASE runtime = "podman"
    BY <2>2, <2>4 DEF Present, PodmanHas
  <2>5. CASE runtime = "mac"
    <3>1. n \in vmid /\ vm[image[n]] # "absent"
      BY <2>2, <2>5 DEF Present, RuntimesInv, Machines
    <3>2. vm[image[n]] \in {"absent", "stopped", "running"}
      BY <2>2 DEF RuntimesInv, MacTypes
    <3>3. MacStatus(n) # "nil"
      BY <3>1, <3>2 DEF MacStatus
    <3>4. QED BY <2>5, <3>3
  <2>6. QED BY <2>3, <2>4, <2>5 DEF RuntimesInv, runtimes
<1>4. QED BY <1>1, <1>2, <1>3, PTL DEF Spec

\* A removal takes the content of a volume along only when one of the unit's own
\* unmounts failed, or after a call that gave up: otherwise the mounts RemoveContainer
\* detaches are those of the units that are there (itzo_linux.go:159-187). Starts may
\* come between its steps. The same requests as above.
THEOREM RemovalsKeepVolumes ==
    ASSUME DistinctNames, MountsFollowUnits(Requests)
    PROVE  Spec => VolumesSurviveUnits
<1>1. Init => RuntimesInv /\ DeployedInv /\ DetachInv
  BY InitRuntimesInv, DeployedInit
<1>2. RuntimesInv /\ DeployedInv /\ DetachInv /\ [Next]_vars =>
        RuntimesInv' /\ DeployedInv' /\ DetachInv'
  BY RuntimesKeep, DeployedStep
<1>3. RuntimesInv /\ DeployedInv /\ DetachInv /\ [Next]_vars =>
        [emptied' # emptied => failed \/ Head(work).unit.name \in leftMounted']_vars
  BY DeployedStep
<1>4. QED BY <1>1, <1>2, <1>3, PTL DEF Spec, VolumesSurviveUnits

===============================================================================
