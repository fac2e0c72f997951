--------------------------- MODULE UnitManagerProofs ---------------------------
(***************************************************************************)
(* Proofs about UnitManager: the types of its state, which include that    *)
(* there always is an inode for a new pipe, and that an entry of           *)
(* RunningUnits has a goroutine that will remove it.                       *)
(***************************************************************************)
EXTENDS UnitManager, FiniteSetTheorems, TLAPS

-------------------------------------------------------------------------------
(* The types.                                                              *)

UnitTypes == TypeOK /\ Len(inst) <= MaxStarts

\* Fewer pipes are in use than there are inodes: an instance holds two at most.
LEMMA FreshInodeExists ==
    ASSUME UnitTypes
    PROVE  FreshInode \in Inodes
<1> DEFINE n == Len(inst)
           Holds(inode, j) ==
              \/ j = 0 /\ inode = fifo
              \/ j \in 1 .. n /\ inst[j].out = inode
              \/ j \in n + 1 .. 2 * n /\ inst[j - n].in = inode
           T == 0 .. 2 * n
<1>1. n \in Nat /\ MaxStarts \in Nat /\ n <= MaxStarts /\ DOMAIN inst = 1 .. n
  BY BoundsAssumption DEF UnitTypes, TypeOK
<1>2. SUFFICES ASSUME \A inode \in Inodes : InUse(inode)
               PROVE  FALSE
  BY DEF FreshInode
<1> DEFINE f == [inode \in Inodes |-> CHOOSE j \in T : Holds(inode, j)]
<1>3. \A inode \in Inodes : \E j \in T : Holds(inode, j)
  <2>1. SUFFICES ASSUME NEW inode \in Inodes
                 PROVE  \E j \in T : Holds(inode, j)
    OBVIOUS
  <2>2. CASE inode = fifo
    <3>1. Holds(inode, 0) /\ 0 \in T
      BY <1>1, <2>2
    <3>2. QED BY <3>1
  <2>3. ASSUME NEW k \in 1 .. n, inst[k].out = inode
        PROVE  \E j \in T : Holds(inode, j)
    <3>1. Holds(inode, k) /\ k \in T
      BY <1>1, <2>3
    <3>2. QED BY <3>1
  <2>4. ASSUME NEW k \in 1 .. n, inst[k].in = inode
        PROVE  \E j \in T : Holds(inode, j)
    <3>1. k + n \in n + 1 .. 2 * n /\ k + n \in T /\ (k + n) - n = k
      BY <1>1
    <3>2. Holds(inode, k + n)
      BY <2>4, <3>1
    <3>3. QED BY <3>1, <3>2
  <2>5. QED BY <1>1, <1>2, <2>2, <2>3, <2>4 DEF InUse
<1>4. \A inode \in Inodes : f[inode] \in T /\ Holds(inode, f[inode])
  BY <1>3
<1>5. f \in [Inodes -> T]
  BY <1>4
<1>6. /\ IsFiniteSet(Inodes) /\ Cardinality(Inodes) = 2 * MaxStarts + 2
      /\ IsFiniteSet(T) /\ Cardinality(T) = 2 * n + 1
  <2>1. 1 \in Int /\ 0 \in Int /\ 2 * MaxStarts + 2 \in Int /\ 2 * n \in Int
    BY <1>1
  <2>2. IsFiniteSet(Inodes) /\ IsFiniteSet(T)
    BY <2>1, FS_Interval DEF Inodes
  <2>3. Cardinality(1 .. 2 * MaxStarts + 2)
          = IF 1 > 2 * MaxStarts + 2 THEN 0 ELSE (2 * MaxStarts + 2) - 1 + 1
    BY <2>1, FS_Interval, Zenon
  <2>4. Cardinality(0 .. 2 * n) = IF 0 > 2 * n THEN 0 ELSE 2 * n - 0 + 1
    BY <2>1, FS_Interval, Zenon
  <2>5. QED BY <1>1, <2>2, <2>3, <2>4 DEF Inodes
<1>7. PICK x, y \in Inodes : x # y /\ f[x] = f[y]
  <2>1. Cardinality(T) < Cardinality(Inodes)
    BY <1>1, <1>6
  <2> HIDE DEF f, T
  <2>2. QED BY <1>5, <1>6, <2>1, FS_PigeonHole, Zenon
<1> HIDE DEF f
<1>8. Holds(x, f[x]) /\ Holds(y, f[x]) /\ f[x] \in T
  BY <1>4, <1>7
<1>9. QED BY <1>1, <1>7, <1>8

LEMMA Opened ==
    ASSUME UnitTypes, OpenUnit
    PROVE  fifo' \in Nat
<1>1. Inodes \subseteq Nat
  BY BoundsAssumption DEF Inodes
<1>2. QED BY <1>1, FreshInodeExists DEF OpenUnit, UnitTypes, TypeOK

-------------------------------------------------------------------------------
(* Who removes an entry.                                                   *)

\* The instance that is being started has no waiter yet, and each entry has one.
WaiterInv ==
    /\ starter # "idle" => inst[Newest].waiter = "none"
    /\ TrackedUntilReaped

\* What most steps do to the instances.
KeepsWaiters ==
    /\ inst' \in [DOMAIN inst -> Instance]
    /\ \A k \in DOMAIN inst : inst'[k].waiter = inst[k].waiter

LEMMA InstancesAre ==
    ASSUME NEW n \in Nat, NEW s \in [1 .. n -> Instance]
    PROVE  s \in Seq(Instance) /\ Len(s) = n /\ DOMAIN s = 1 .. n
<1>1. ASSUME NEW S, NEW t \in [1 .. n -> S]
      PROVE  t \in Seq(S) /\ Len(t) = n /\ DOMAIN t = 1 .. n
  BY <1>1
<1>2. QED BY <1>1, Zenon

LEMMA Instances ==
    ASSUME UnitTypes
    PROVE  /\ Len(inst) \in Nat /\ DOMAIN inst = 1 .. Len(inst)
           /\ inst \in [DOMAIN inst -> Instance]
  BY DEF UnitTypes, TypeOK

LEMMA SameLength ==
    ASSUME UnitTypes, inst' \in [DOMAIN inst -> Instance]
    PROVE  /\ inst' \in Seq(Instance) /\ Len(inst') = Len(inst) /\ DOMAIN inst' = DOMAIN inst
           /\ Newest' = Newest
<1>1. Len(inst) \in Nat /\ inst' \in [1 .. Len(inst) -> Instance]
  BY Instances
<1>2. QED BY <1>1, Instances, InstancesAre DEF Newest

LEMMA Wakes ==
    ASSUME NEW D, NEW s \in [D -> Instance], NEW inode
    PROVE  /\ WithWriter(s, inode) \in [D -> Instance]
           /\ WithReader(s, inode) \in [D -> Instance]
           /\ \A k \in D : /\ WithWriter(s, inode)[k].waiter = s[k].waiter
                            /\ WithReader(s, inode)[k].waiter = s[k].waiter
  BY DEF WithWriter, WithReader, Instance

\* A step of a thread that leaves waiters and the start alone.
LEMMA Framed ==
    ASSUME UnitTypes, WaiterInv, KeepsWaiters,
           running' \in {running, 0}, UNCHANGED starter
    PROVE  /\ inst' \in Seq(Instance) /\ Len(inst') = Len(inst) /\ DOMAIN inst' = DOMAIN inst
           /\ running' \in DOMAIN inst' \cup {0}
           /\ starter' # "idle" => inst' # <<>>
           /\ WaiterInv'
<1>1. /\ inst' \in Seq(Instance) /\ Len(inst') = Len(inst) /\ DOMAIN inst' = DOMAIN inst
      /\ Newest' = Newest
  BY SameLength DEF KeepsWaiters
<1>2. running \in DOMAIN inst \cup {0} /\ Len(inst) \in Nat /\ DOMAIN inst = 1 .. Len(inst)
      /\ (starter # "idle" => Len(inst) > 0 /\ Newest \in DOMAIN inst)
  BY Instances DEF UnitTypes, TypeOK, Newest
<1>3. starter' # "idle" => inst' # <<>>
  BY <1>1, <1>2
<1>4. WaiterInv'
  BY <1>1, <1>2 DEF WaiterInv, TrackedUntilReaped, KeepsWaiters
<1>5. QED BY <1>1, <1>2, <1>3, <1>4

\* The types that are not about instances.
LoopTypes ==
    /\ fifo \in Nat
    /\ loop \in [pc : {"idle", "stop", "kill", "delete", "open", "wake", "unlink", "rmdir"},
                victim : Nat]
    /\ loop.victim \in DOMAIN inst \cup {0}
    /\ loop.pc \in {"stop", "kill"} => loop.victim # 0
    /\ starter \in {"idle", "capture", "fork", "wake", "unlink", "set", "go"}
    /\ removals \in 0 .. MaxRemovals

LEMMA FramedTypes ==
    ASSUME UnitTypes, WaiterInv, KeepsWaiters,
           running' \in {running, 0}, UNCHANGED starter, LoopTypes'
    PROVE  UnitTypes' /\ WaiterInv'
  BY Framed DEF UnitTypes, TypeOK, LoopTypes

LEMMA UpdateLoopStep ==
    ASSUME UnitTypes, WaiterInv, StopUnit \/ RemoveContainer \/ CreateContainer
    PROVE  UnitTypes' /\ WaiterInv'
<1>1. LoopTypes /\ running \in DOMAIN inst \cup {0} /\ DOMAIN inst \subseteq Nat
  BY Instances DEF UnitTypes, TypeOK, LoopTypes
<1>2. inst \in [DOMAIN inst -> Instance]
  BY Instances
<1>3. WithWriter(inst, fifo) \in [DOMAIN inst -> Instance]
      /\ \A k \in DOMAIN inst : WithWriter(inst, fifo)[k].waiter = inst[k].waiter
  BY <1>2, Wakes
<1> USE DEF LoopTypes
<1>4. CASE StopUnit
  <2>1. LoopTypes'
    BY <1>1, <1>4, BoundsAssumption DEF StopUnit
  <2>2. QED BY <1>2, <1>4, <2>1, FramedTypes DEF StopUnit, KeepsWaiters
<1>5. CASE StopOpensUnit
  <2>1. LoopTypes'
    BY <1>1, <1>5, Opened DEF StopOpensUnit
  <2>2. QED BY <1>2, <1>5, <2>1, FramedTypes DEF StopOpensUnit, KeepsWaiters
<1>6. CASE Kill
  <2>1. KeepsWaiters
    BY <1>1, <1>2, <1>6, SMTT(30) DEF Kill, KeepsWaiters, Instance
  <2>2. DOMAIN inst' = DOMAIN inst
    BY <2>1, SameLength DEF KeepsWaiters
  <2>3. LoopTypes'
    BY <1>1, <1>6, <2>2 DEF Kill
  <2>4. QED BY <1>6, <2>1, <2>3, FramedTypes DEF Kill
<1>7. CASE StopDeletes
  <2>1. LoopTypes'
    BY <1>1, <1>7 DEF StopDeletes
  <2>2. QED BY <1>2, <1>7, <2>1, FramedTypes DEF StopDeletes, KeepsWaiters
<1>8. CASE RemoveOpensUnit
  <2>1. LoopTypes'
    BY <1>1, <1>8, Opened DEF RemoveOpensUnit
  <2>2. QED BY <1>2, <1>8, <2>1, FramedTypes DEF RemoveOpensUnit, KeepsWaiters
<1>9. CASE DestroyWakes
  <2>1. KeepsWaiters
    BY <1>3, <1>9 DEF DestroyWakes, Woken, KeepsWaiters
  <2>2. DOMAIN inst' = DOMAIN inst
    BY <2>1, SameLength DEF KeepsWaiters
  <2>3. LoopTypes'
    BY <1>1, <1>9, <2>2 DEF DestroyWakes, AfterOpen
  <2>4. QED BY <1>9, <2>1, <2>3, FramedTypes DEF DestroyWakes
<1>10. CASE DestroyUnlinks \/ DestroyRemovesDir
  <2>1. LoopTypes'
    BY <1>1, <1>10 DEF DestroyUnlinks, DestroyRemovesDir
  <2>2. QED
    BY <1>2, <1>10, <2>1, FramedTypes DEF DestroyUnlinks, DestroyRemovesDir, KeepsWaiters
<1>11. CASE CreateContainer
  <2>1. LoopTypes'
    BY <1>1, <1>11, Opened DEF CreateContainer
  <2>2. QED BY <1>2, <1>11, <2>1, FramedTypes DEF CreateContainer, KeepsWaiters
<1>12. QED
  BY <1>4, <1>5, <1>6, <1>7, <1>8, <1>9, <1>10, <1>11 DEF RemoveContainer

LEMMA OneMore ==
    ASSUME NEW S, NEW s \in Seq(S), NEW e \in S
    PROVE  LET t == Append(s, e)
           IN  /\ t \in Seq(S) /\ Len(t) = Len(s) + 1 /\ t[Len(s) + 1] = e
               /\ \A i \in 1 .. Len(s) : t[i] = s[i]
               /\ DOMAIN t = 1 .. Len(s) + 1
  OBVIOUS

LEMMA StartStep ==
    ASSUME UnitTypes, WaiterInv, StartUnit \/ Start
    PROVE  UnitTypes' /\ WaiterInv'
<1>1. /\ LoopTypes /\ Len(inst) \in Nat /\ DOMAIN inst = 1 .. Len(inst)
      /\ inst \in [DOMAIN inst -> Instance] /\ running \in DOMAIN inst \cup {0}
      /\ (starter # "idle" => Newest \in DOMAIN inst /\ inst[Newest].waiter = "none")
  BY Instances DEF UnitTypes, TypeOK, LoopTypes, Newest, WaiterInv
<1>2. WithWriter(inst, fifo) \in [DOMAIN inst -> Instance]
      /\ \A k \in DOMAIN inst : WithWriter(inst, fifo)[k].waiter = inst[k].waiter
  BY <1>1, Wakes
<1>3. ASSUME KeepsWaiters, starter # "idle", starter' # "go", UNCHANGED <<running, loop, removals>>,
             starter' \in {"idle", "fork", "set", "wake", "unlink"}, fifo' \in Nat,
             starter # "go"
      PROVE  UnitTypes' /\ WaiterInv'
  <2>1. /\ inst' \in Seq(Instance) /\ Len(inst') = Len(inst) /\ DOMAIN inst' = DOMAIN inst
        /\ Newest' = Newest
    BY <1>3, SameLength DEF KeepsWaiters
  <2>2. UnitTypes'
    BY <1>1, <1>3, <2>1 DEF UnitTypes, TypeOK, LoopTypes
  <2>3. WaiterInv'
    BY <1>1, <1>3, <2>1 DEF WaiterInv, TrackedUntilReaped, KeepsWaiters
  <2>4. QED BY <2>2, <2>3
<1>4. CASE StartUnit
  <2>1. NewInstance \in Instance /\ NewInstance.waiter = "none"
    BY DEF NewInstance, Instance
  <2>2. inst \in Seq(Instance)
    BY DEF UnitTypes, TypeOK
  <2>3. /\ inst' \in Seq(Instance) /\ Len(inst') = Len(inst) + 1
        /\ inst'[Len(inst) + 1] = NewInstance
        /\ \A i \in 1 .. Len(inst) : inst'[i] = inst[i]
        /\ DOMAIN inst' = 1 .. Len(inst) + 1
    BY <1>4, <2>1, <2>2, OneMore DEF StartUnit
  <2>4. fifo' \in Nat /\ Len(inst) < MaxStarts /\ starter = "idle" /\ starter' = "capture"
        /\ UNCHANGED <<running, loop, removals>>
    BY <1>4, Opened DEF StartUnit
  <2>5. UnitTypes'
    BY <1>1, <2>3, <2>4, BoundsAssumption DEF UnitTypes, TypeOK, LoopTypes
  <2>6. WaiterInv'
    BY <1>1, <2>1, <2>3, <2>4 DEF WaiterInv, TrackedUntilReaped, Newest
  <2>7. QED BY <2>5, <2>6
<1>5. CASE CaptureLogs
  <2>1. KeepsWaiters
    BY <1>1, <1>5, SMTT(30) DEF CaptureLogs, KeepsWaiters, Instance
  <2>2. QED BY <1>1, <1>3, <1>5, <2>1 DEF CaptureLogs, LoopTypes
<1>6. CASE Fork
  <2>1. KeepsWaiters
    <3>1. CASE inst' = [inst EXCEPT ![Newest].helper = "boot"]
      <4>1. [inst[Newest] EXCEPT !.helper = "boot"] \in Instance
            /\ [inst[Newest] EXCEPT !.helper = "boot"].waiter = inst[Newest].waiter
        <5>1. inst[Newest] \in Instance
          BY <1>1, <1>6 DEF Fork
        <5>2. QED BY <5>1 DEF Instance
      <4>2. inst' = [inst EXCEPT ![Newest] = [inst[Newest] EXCEPT !.helper = "boot"]]
        BY <1>1, <1>6, <3>1 DEF Fork
      <4>3. QED BY <1>1, <1>6, <4>1, <4>2 DEF Fork, KeepsWaiters
    <3>2. CASE inst' = inst
      BY <1>1, <3>2 DEF KeepsWaiters
    <3>3. QED BY <1>6, <3>1, <3>2 DEF Fork
  <2>2. QED BY <1>1, <1>3, <1>6, <2>1 DEF Fork, LoopTypes
<1>7. CASE FailedStartWakes
  <2>1. KeepsWaiters
    BY <1>2, <1>7 DEF FailedStartWakes, Woken, KeepsWaiters
  <2>2. QED BY <1>1, <1>3, <1>7, <2>1 DEF FailedStartWakes, AfterOpen, LoopTypes
<1>8. CASE FailedStartUnlinks
  <2>1. KeepsWaiters
    BY <1>1, <1>8 DEF FailedStartUnlinks, KeepsWaiters
  <2>2. QED BY <1>1, <1>3, <1>8, <2>1 DEF FailedStartUnlinks, LoopTypes
<1>9. CASE Register
  <2>1. CASE starter = "set"
    <3>1. /\ running' = Newest /\ starter' = "go"
          /\ UNCHANGED <<fifo, inst, loop, removals>>
      BY <1>9, <2>1 DEF Register
    <3>2. UnitTypes'
      BY <1>1, <2>1, <3>1 DEF UnitTypes, TypeOK, LoopTypes
    <3>3. WaiterInv'
      BY <1>1, <2>1, <3>1 DEF WaiterInv, TrackedUntilReaped, Newest
    <3>4. QED BY <3>2, <3>3
  <2>2. CASE starter = "go"
    <3>1. /\ inst' = [inst EXCEPT ![Newest].waiter = "wait"] /\ starter' = "idle"
          /\ UNCHANGED <<fifo, running, loop, removals>>
      BY <1>9, <2>2 DEF Register
    <3>2. /\ inst' \in [DOMAIN inst -> Instance]
          /\ inst'[Newest].waiter = "wait"
          /\ \A k \in DOMAIN inst : k # Newest => inst'[k] = inst[k]
      <4>1. [inst[Newest] EXCEPT !.waiter = "wait"] \in Instance
            /\ [inst[Newest] EXCEPT !.waiter = "wait"].waiter = "wait"
        BY <1>1, <2>2 DEF Instance
      <4>2. inst' = [inst EXCEPT ![Newest] = [inst[Newest] EXCEPT !.waiter = "wait"]]
        BY <1>1, <3>1
      <4>3. QED BY <1>1, <2>2, <4>1, <4>2
    <3>3. inst' \in Seq(Instance) /\ Len(inst') = Len(inst) /\ DOMAIN inst' = DOMAIN inst
      BY <3>2, SameLength
    <3>4. UnitTypes'
      BY <1>1, <3>1, <3>3 DEF UnitTypes, TypeOK, LoopTypes
    <3>5. WaiterInv'
      BY <1>1, <3>1, <3>2 DEF WaiterInv, TrackedUntilReaped
    <3>6. QED BY <3>4, <3>5
  <2>3. QED BY <1>9, <2>1, <2>2 DEF Register
<1>10. QED BY <1>4, <1>5, <1>6, <1>7, <1>8, <1>9 DEF Start

LEMMA InstanceStep ==
    ASSUME UnitTypes, WaiterInv, NEW k \in DOMAIN inst,
           Waiter(k) \/ Reader(k) \/ Helper(k) \/ HelperExits(k)
    PROVE  UnitTypes' /\ WaiterInv'
<1>1. /\ LoopTypes /\ Len(inst) \in Nat /\ DOMAIN inst = 1 .. Len(inst)
      /\ inst \in [DOMAIN inst -> Instance] /\ running \in DOMAIN inst \cup {0}
      /\ (starter # "idle" => Newest \in DOMAIN inst /\ inst[Newest].waiter = "none")
  BY Instances DEF UnitTypes, TypeOK, LoopTypes, Newest, WaiterInv
<1>2. /\ Woken(inst) \in [DOMAIN inst -> Instance]
      /\ \A j \in DOMAIN inst : Woken(inst)[j].waiter = inst[j].waiter
  BY <1>1, Wakes DEF Woken
<1>3. ASSUME inst' \in [DOMAIN inst -> Instance], fifo' \in Nat,
             UNCHANGED <<loop, starter, removals>>
      PROVE  LoopTypes'
  BY <1>1, <1>3, SameLength DEF LoopTypes
\* A waiter that goes on is past its entry, or has just removed it.
<1>4. ASSUME NEW from \in {"wait", "delete", "sleep", "unlink"}, inst[k].waiter = from,
             inst' \in [DOMAIN inst -> Instance], fifo' \in Nat,
             inst'[k].waiter = "delete" \/ from \in {"sleep", "unlink"} \/ running' = 0,
             \A j \in DOMAIN inst \ {k} : inst'[j].waiter = inst[j].waiter,
             running' \in {running, 0}, UNCHANGED <<loop, starter, removals>>
      PROVE  UnitTypes' /\ WaiterInv'
  <2>1. /\ inst' \in Seq(Instance) /\ Len(inst') = Len(inst) /\ DOMAIN inst' = DOMAIN inst
        /\ Newest' = Newest
    BY <1>4, SameLength
  <2>2. UnitTypes'
    BY <1>1, <1>3, <1>4, <2>1 DEF UnitTypes, TypeOK, LoopTypes
  <2>3. WaiterInv'
    BY <1>1, <1>4, <2>1 DEF WaiterInv, TrackedUntilReaped
  <2>4. QED BY <2>2, <2>3
<1>5. CASE HelperReaped(k)
  <2>1. /\ inst' \in [DOMAIN inst -> Instance] /\ inst'[k].waiter = "delete"
        /\ \A j \in DOMAIN inst \ {k} : inst'[j].waiter = inst[j].waiter
    BY <1>1, <1>5, SMTT(30) DEF HelperReaped, Instance
  <2>2. QED BY <1>1, <1>4, <1>5, <2>1 DEF HelperReaped, LoopTypes
<1>6. CASE WaiterDeletes(k)
  <2>1. /\ inst' \in [DOMAIN inst -> Instance]
        /\ \A j \in DOMAIN inst \ {k} : inst'[j].waiter = inst[j].waiter
    <3>1. [inst[k] EXCEPT !.waiter = "sleep"] \in Instance
      BY <1>1 DEF Instance
    <3>2. inst' = [inst EXCEPT ![k] = [inst[k] EXCEPT !.waiter = "sleep"]]
      BY <1>1, <1>6 DEF WaiterDeletes
    <3>3. QED BY <1>1, <3>1, <3>2
  <2>2. QED BY <1>1, <1>4, <1>6, <2>1 DEF WaiterDeletes, LoopTypes
<1>7. CASE WaiterWakes(k)
  <2>1. /\ inst' \in [DOMAIN inst -> Instance]
        /\ \A j \in DOMAIN inst \ {k} : inst'[j].waiter = inst[j].waiter
    <3>1. AfterOpen("done") \in {"unlink", "done"}
      BY DEF AfterOpen
    <3>2. QED BY <1>2, <1>7, <3>1, SMTT(30) DEF WaiterWakes, Instance
  <2>2. QED BY <1>1, <1>4, <1>7, <2>1 DEF WaiterWakes, LoopTypes
<1>8. CASE WaiterUnlinks(k)
  <2>1. /\ inst' \in [DOMAIN inst -> Instance]
        /\ \A j \in DOMAIN inst \ {k} : inst'[j].waiter = inst[j].waiter
    BY <1>1, <1>8, SMTT(30) DEF WaiterUnlinks, Instance
  <2>2. QED BY <1>1, <1>4, <1>8, <2>1 DEF WaiterUnlinks, LoopTypes
<1>9. ASSUME KeepsWaiters, fifo' \in Nat, UNCHANGED <<running, loop, starter, removals>>
      PROVE  UnitTypes' /\ WaiterInv'
  BY <1>3, <1>9, FramedTypes DEF KeepsWaiters
<1>10. CASE Reader(k)
  <2>1. CASE ReaderOpens(k)
    <3>1. CASE fifo = 0
      <4>1. KeepsWaiters
        BY <1>1, <2>1, <3>1, SMTT(30) DEF ReaderOpens, KeepsWaiters, Instance
      <4>2. QED BY <1>1, <1>9, <2>1, <4>1 DEF ReaderOpens, LoopTypes
    <3>2. CASE fifo # 0
      <4>0. PICK to \in {"read", "open"} : to = IF HasWriter(fifo) THEN "read" ELSE "open"
        OBVIOUS
      <4> DEFINE s == [inst EXCEPT ![k].in = fifo, ![k].reader = to]
      <4>1. s \in [DOMAIN inst -> Instance] /\ \A j \in DOMAIN inst : s[j].waiter = inst[j].waiter
        <5>1. fifo \in Nat
          BY <1>1 DEF LoopTypes
        <5>2. [inst[k] EXCEPT !.in = fifo, !.reader = to] \in Instance
              /\ [inst[k] EXCEPT !.in = fifo, !.reader = to].waiter = inst[k].waiter
          BY <1>1, <5>1 DEF Instance
        <5>3. s = [inst EXCEPT ![k] = [inst[k] EXCEPT !.in = fifo, !.reader = to]]
          BY <1>1
        <5>4. QED BY <1>1, <5>2, <5>3
      <4>2. inst' = WithReader(s, fifo)
        BY <2>1, <3>2, <4>0 DEF ReaderOpens
      <4> HIDE DEF s
      <4>3. KeepsWaiters
        BY <4>1, <4>2, Wakes DEF KeepsWaiters
      <4>4. QED BY <1>1, <1>9, <2>1, <4>3 DEF ReaderOpens, LoopTypes
    <3>3. QED BY <3>1, <3>2
  <2>2. CASE ReaderSeesEof(k) \/ ReaderCloses(k)
    <3>1. KeepsWaiters
      <4>1. PICK to \in {"eof", "done"} : inst' = [inst EXCEPT ![k].reader = to]
        BY <2>2 DEF ReaderSeesEof, ReaderCloses
      <4>2. QED BY <1>1, <4>1, SMTT(30) DEF KeepsWaiters, Instance
    <3>2. QED BY <1>1, <1>9, <2>2, <3>1 DEF ReaderSeesEof, ReaderCloses, LoopTypes
  <2>3. QED BY <1>10, <2>1, <2>2 DEF Reader
<1>11. CASE Helper(k) \/ HelperExits(k)
  <2>1. CASE HelperOpensUnit(k)
    <3>1. KeepsWaiters
      <4>1. [inst[k] EXCEPT !.helper = "opened"] \in Instance
            /\ [inst[k] EXCEPT !.helper = "opened"].waiter = inst[k].waiter
        BY <1>1 DEF Instance
      <4>2. inst' = [inst EXCEPT ![k] = [inst[k] EXCEPT !.helper = "opened"]]
        BY <1>1, <2>1 DEF HelperOpensUnit
      <4>3. QED BY <1>1, <4>1, <4>2 DEF KeepsWaiters
    <3>2. QED BY <1>9, <2>1, <3>1, Opened DEF HelperOpensUnit
  <2>2. CASE HelperConnects(k)
    <3>1. CASE fifo = 0
      <4>1. KeepsWaiters
        BY <1>1, <2>2, <3>1, SMTT(30) DEF HelperConnects, KeepsWaiters, Instance
      <4>2. QED BY <1>1, <1>9, <2>2, <4>1 DEF HelperConnects, LoopTypes
    <3>2. CASE fifo # 0
      <4>0. PICK to \in {"run", "connect"} : to = IF HasReader(fifo) THEN "run" ELSE "connect"
        OBVIOUS
      <4> DEFINE s == [inst EXCEPT ![k].out = fifo, ![k].helper = to]
      <4>1. s \in [DOMAIN inst -> Instance] /\ \A j \in DOMAIN inst : s[j].waiter = inst[j].waiter
        <5>1. fifo \in Nat
          BY <1>1 DEF LoopTypes
        <5>2. [inst[k] EXCEPT !.out = fifo, !.helper = to] \in Instance
              /\ [inst[k] EXCEPT !.out = fifo, !.helper = to].waiter = inst[k].waiter
          BY <1>1, <5>1 DEF Instance
        <5>3. s = [inst EXCEPT ![k] = [inst[k] EXCEPT !.out = fifo, !.helper = to]]
          BY <1>1
        <5>4. QED BY <1>1, <5>2, <5>3
      <4>2. inst' = WithWriter(s, fifo)
        BY <2>2, <3>2, <4>0 DEF HelperConnects
      <4> HIDE DEF s
      <4>3. KeepsWaiters
        BY <4>1, <4>2, Wakes DEF KeepsWaiters
      <4>4. QED BY <1>1, <1>9, <2>2, <4>3 DEF HelperConnects, LoopTypes
    <3>3. QED BY <3>1, <3>2
  <2>3. CASE HelperRemoves(k)
    <3>1. KeepsWaiters
      <4>1. CASE inst' = [Woken(inst) EXCEPT ![k].helper = AfterOpen("dead")]
        <5>1. AfterOpen("dead") \in {"unlink", "dead"}
          BY DEF AfterOpen
        <5>2. QED BY <1>2, <4>1, <5>1, SMTT(30) DEF KeepsWaiters, Instance
      <4>2. CASE inst' = [inst EXCEPT ![k].helper = "dead"]
        BY <1>1, <4>2, SMTT(30) DEF KeepsWaiters, Instance
      <4>3. QED BY <2>3, <4>1, <4>2 DEF HelperRemoves
    <3>2. fifo' \in Nat /\ UNCHANGED <<running, loop, starter, removals>>
      BY <1>1, <2>3 DEF HelperRemoves, LoopTypes
    <3>3. QED BY <1>9, <3>1, <3>2
  <2>4. CASE HelperExits(k)
    <3>1. KeepsWaiters
      <4>1. [inst[k] EXCEPT !.helper = "dead"] \in Instance
            /\ [inst[k] EXCEPT !.helper = "dead"].waiter = inst[k].waiter
        BY <1>1 DEF Instance
      <4>2. inst' = [inst EXCEPT ![k] = [inst[k] EXCEPT !.helper = "dead"]]
        BY <1>1, <2>4 DEF HelperExits
      <4>3. QED BY <1>1, <4>1, <4>2 DEF KeepsWaiters
    <3>2. QED BY <1>1, <1>9, <2>4, <3>1 DEF HelperExits, LoopTypes
  <2>5. QED BY <1>11, <2>1, <2>2, <2>3, <2>4 DEF Helper
<1>12. QED BY <1>5, <1>6, <1>7, <1>8, <1>10, <1>11 DEF Waiter

LEMMA UnitsAlways == Spec => [](UnitTypes /\ WaiterInv)
<1>1. Init => UnitTypes /\ WaiterInv
  BY BoundsAssumption
     DEF Init, UnitTypes, TypeOK, WaiterInv, TrackedUntilReaped
<1>2. UnitTypes /\ WaiterInv /\ [Next]_vars => (UnitTypes /\ WaiterInv)'
  <2>1. SUFFICES ASSUME UnitTypes, WaiterInv, [Next]_vars
                 PROVE  UnitTypes' /\ WaiterInv'
    OBVIOUS
  <2>2. CASE UNCHANGED vars
    BY <2>1, <2>2
       DEF vars, UnitTypes, TypeOK, WaiterInv, TrackedUntilReaped, Newest
  <2>3. QED BY <2>1, <2>2, UpdateLoopStep, StartStep, InstanceStep DEF Next
<1>3. QED BY <1>1, <1>2, PTL DEF Spec

\* For any number of starts and removals: a new pipe gets an inode of its own,
\* and what the threads hold are instances that exist.
THEOREM TypeCorrect == Spec => []TypeOK
<1>1. UnitTypes /\ WaiterInv => TypeOK
  BY DEF UnitTypes
<1>2. QED BY <1>1, UnitsAlways, PTL

\* For any number of starts and removals of a unit: as long as RunningUnits holds
\* an instance, the goroutine that will remove the entry has not done so yet
\* (unit_manager.go:233-242).
THEOREM EntriesAreTracked == Spec => []TrackedUntilReaped
<1>1. UnitTypes /\ WaiterInv => TrackedUntilReaped
  BY DEF WaiterInv
<1>2. QED BY <1>1, UnitsAlways, PTL

===============================================================================
