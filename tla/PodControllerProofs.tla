------------------------- MODULE PodControllerProofs -------------------------
(***************************************************************************)
(* Proofs about PodController: the inductive invariant IInv, and from it   *)
(* type correctness, the serialisation of the start goroutines and the     *)
(* delivery of the latest update.                                          *)
(***************************************************************************)
EXTENDS PodController, SequenceTheorems, TLAPS

-------------------------------------------------------------------------------
(* Change detection.                                                       *)

\* detectChangeType answers no_changes exactly when both slices of the
\* specification equal those of the status and the status is not empty
\* (pod_controller.go:247-261): no change is missed.
THEOREM NoChangesMeansEqual ==
    ASSUME NEW spec \in PodSpec, NEW status \in PodSpec
    PROVE  DetectChangeType(spec, status) = "no_changes" <=>
             /\ spec.inits = status.inits
             /\ spec.units = status.units
             /\ ~(status.units = <<>> /\ status.inits = <<>>)
<1>1. ASSUME NEW s \in Seq(Unit), NEW t \in Seq(Unit)
      PROVE  UnitsSlicesEqual(s, t) <=> s = t
  <2>1. ASSUME NEW x \in Unit, NEW y \in Unit
        PROVE  UnitsEqual(x, y) <=> x = y
    BY DEF Unit, UnitsEqual
  <2>2. \A k \in DOMAIN s : s[k] \in Unit
    BY ElementOfSeq, LenProperties
  <2>3. \A k \in DOMAIN t : t[k] \in Unit
    BY ElementOfSeq, LenProperties
  <2>4. CASE UnitsSlicesEqual(s, t)
    <3>1. \A k \in DOMAIN s : s[k] = t[k]
      BY <2>1, <2>2, <2>3, <2>4, LenProperties DEF UnitsSlicesEqual
    <3>2. QED BY <2>4, <3>1, SeqEqual, LenProperties DEF UnitsSlicesEqual
  <2>5. CASE s = t
    BY <2>1, <2>2, <2>5 DEF UnitsSlicesEqual
  <2>6. QED BY <2>4, <2>5
<1>2. ASSUME NEW s \in Seq(Unit), NEW t \in Seq(Unit)
      PROVE  Differing(s, t) \cup Differing(t, s) = {} <=> UnitsSlicesEqual(s, t)
  <2>1. DOMAIN s = 1 .. Len(s) /\ DOMAIN t = 1 .. Len(t)
        /\ Len(s) \in Nat /\ Len(t) \in Nat
    BY LenProperties
  <2>2. CASE Differing(s, t) \cup Differing(t, s) = {}
    <3>1. DOMAIN s \subseteq DOMAIN t /\ DOMAIN t \subseteq DOMAIN s
      BY <2>2 DEF Differing
    <3>2. Len(s) = Len(t)
      <4>1. 1 .. Len(s) \subseteq 1 .. Len(t) /\ 1 .. Len(t) \subseteq 1 .. Len(s)
        BY <2>1, <3>1
      <4>2. \A m, n \in Nat : 1 .. m \subseteq 1 .. n => m <= n
        <5>1. SUFFICES ASSUME NEW m \in Nat, NEW n \in Nat,
                              1 .. m \subseteq 1 .. n, m # 0
                       PROVE  m <= n
          OBVIOUS
        <5>2. m \in 1 .. m
          BY <5>1
        <5>3. m \in 1 .. n
          BY <5>1, <5>2
        <5>4. QED BY <5>3
      <4>3. Len(s) <= Len(t) /\ Len(t) <= Len(s)
        BY <2>1, <4>1, <4>2
      <4>4. \A m, n \in Nat : m <= n /\ n <= m => m = n
        OBVIOUS
      <4>5. Len(s) \in Nat /\ Len(t) \in Nat
        BY <2>1
      <4>6. QED BY ONLY <4>3, <4>4, <4>5
    <3>3. \A k \in DOMAIN s : UnitsEqual(s[k], t[k])
      BY <2>2, <3>1 DEF Differing
    <3>4. QED BY <2>2, <3>2, <3>3 DEF UnitsSlicesEqual
  <2>3. CASE UnitsSlicesEqual(s, t)
    <3>1. s = t BY <1>1, <2>3
    <3>2. \A k \in DOMAIN s : UnitsEqual(s[k], s[k])
      BY DEF UnitsEqual
    <3>3. QED BY <2>3, <3>1, <3>2 DEF Differing
  <2>4. QED BY <2>2, <2>3
<1>3. /\ spec.inits \in Seq(Unit) /\ status.inits \in Seq(Unit)
      /\ spec.units \in Seq(Unit) /\ status.units \in Seq(Unit)
  BY DEF PodSpec
<1>4. ToAdd(spec, status) \cup ToDelete(spec, status) = {} <=>
        spec.units = status.units
  BY <1>1, <1>2, <1>3 DEF ToAdd, ToDelete
<1>5. UnitsSlicesEqual(spec.inits, status.inits) <=> spec.inits = status.inits
  BY <1>1, <1>3
<1>6. QED BY <1>4, <1>5 DEF DetectChangeType

-------------------------------------------------------------------------------
(* Facts about the sequence of updates.                                    *)

\* An element of updates is a record of the right fields.
LEMMA UpdateType ==
    ASSUME TypeOK, NEW u \in DOMAIN updates
    PROVE  /\ updates[u] \in Update
           /\ SpecOf(u) \in PodSpec
           /\ u \in Nat \ {0}
           /\ u <= Len(updates)
<1>1. updates \in Seq(Update)
  BY DEF TypeOK
<1>2. updates[u] \in Update /\ u \in 1 .. Len(updates) /\ Len(updates) \in Nat
  BY <1>1, ElementOfSeq, LenProperties
<1>3. SpecOf(u) \in PodSpec
  BY <1>2, SpecsAssumption DEF Update, SpecOf
<1>4. QED BY <1>2, <1>3

\* Replacing an element keeps the sequence, its length and its domain.
LEMMA UpdatesExcept ==
    ASSUME NEW r \in Update, NEW u \in DOMAIN updates, updates \in Seq(Update)
    PROVE  /\ [updates EXCEPT ![u] = r] \in Seq(Update)
           /\ Len([updates EXCEPT ![u] = r]) = Len(updates)
           /\ DOMAIN [updates EXCEPT ![u] = r] = DOMAIN updates
BY ExceptSeq, LenProperties

\* The names of the units a pod lists.
LEMMA UnitNameType ==
    ASSUME NEW spec \in PodSpec
    PROVE  /\ \A k \in DOMAIN spec.units : spec.units[k] \in Unit
           /\ \A k \in DOMAIN spec.inits : spec.inits[k] \in Unit
           /\ DOMAIN spec.units = 1 .. Len(spec.units)
           /\ DOMAIN spec.inits = 1 .. Len(spec.inits)
           /\ Len(spec.units) \in Nat /\ Len(spec.inits) \in Nat
<1>1. spec.units \in Seq(Unit) /\ spec.inits \in Seq(Unit)
  BY DEF PodSpec
<1>2. QED BY <1>1, ElementOfSeq, LenProperties

\* podStatus is a pod specification, the empty one included.
LEMMA StatusType == ASSUME TypeOK PROVE podStatus \in PodSpec
<1>1. EmptyStatus \in PodSpec
  <2>1. <<>> \in Seq(Unit) BY EmptySeq
  <2>2. QED BY <2>1 DEF EmptyStatus, PodSpec, Policies
<1>2. QED BY <1>1, SpecsAssumption DEF TypeOK

\* The length of a list followed by another list and itself.
LEMMA ThreeConcatenated ==
    ASSUME NEW S, NEW s \in Seq(S), NEW t \in Seq(S)
    PROVE  /\ s \o t \o s \in Seq(S)
           /\ DOMAIN (s \o t \o s) = 1 .. 2 * Len(s) + Len(t)
<1>1. Len(s) \in Nat /\ Len(t) \in Nat
  BY LenProperties
<1>2. s \o t \in Seq(S) /\ Len(s \o t) = Len(s) + Len(t)
  BY ConcatProperties
<1>3. /\ (s \o t) \o s \in Seq(S)
      /\ Len((s \o t) \o s) = Len(s \o t) + Len(s)
  BY <1>2, ConcatProperties
<1>4. DOMAIN ((s \o t) \o s) = 1 .. Len((s \o t) \o s)
  BY <1>3, LenProperties
<1>5. Len((s \o t) \o s) = 2 * Len(s) + Len(t)
  BY <1>1, <1>2, <1>3
<1>6. QED BY <1>3, <1>4, <1>5

\* What is removed and created exists: ToRemove stays within RemovalList and
\* ToCreate within the units of the specification.
LEMMA RemovalListType ==
    ASSUME TypeOK, loop.id \in DOMAIN updates,
           NEW k \in ToRemove(SpecOf(loop.id))
    PROVE  RemovalList[k].name \in Names
<1> DEFINE us == podStatus.units
           is == podStatus.inits
<1>1. podStatus \in PodSpec BY StatusType
<1>2. us \in Seq(Unit) /\ is \in Seq(Unit)
  BY <1>1 DEF PodSpec
<1>3. /\ us \o is \o us \in Seq(Unit)
      /\ DOMAIN (us \o is \o us) = 1 .. 2 * Len(us) + Len(is)
  BY <1>2, ThreeConcatenated
<1>4. RemovalList \in Seq(Unit) /\ k \in DOMAIN RemovalList
  <2>1. CASE Event = "units_changed"
    <3>1. k \in DOMAIN us
      BY <2>1 DEF Event, ToRemove, ToDelete, Differing
    <3>2. QED BY <1>2, <2>1, <3>1 DEF RemovalList
  <2>2. CASE Event = "pod_restart"
    <3>1. k \in 1 .. 2 * Len(us) + Len(is)
      BY <2>2 DEF Event, ToRemove
    <3>2. RemovalList = us \o is \o us
      BY <2>2 DEF RemovalList
    <3>3. QED BY <1>3, <3>1, <3>2
  <2>3. CASE Event # "units_changed" /\ Event # "pod_restart"
    BY <2>3 DEF Event, ToRemove
  <2>4. QED BY <2>1, <2>2, <2>3
<1>5. RemovalList[k] \in Unit
  BY <1>4, ElementOfSeq, LenProperties
<1>6. QED BY <1>5 DEF Unit

LEMMA ToCreateType ==
    ASSUME NEW spec \in PodSpec, TypeOK
    PROVE  /\ ToCreate(spec) \subseteq DOMAIN spec.units
           /\ ToCreate(spec) \subseteq Nat
           /\ ToRemove(spec) \subseteq Nat
<1>1. podStatus \in PodSpec BY StatusType
<1>2. ToCreate(spec) \subseteq DOMAIN spec.units
  BY DEF ToCreate, ToAdd, Differing
<1>3. DOMAIN spec.units \subseteq Nat /\ DOMAIN podStatus.units \subseteq Nat
  BY <1>1, UnitNameType
<1>4. ToDelete(spec, podStatus) \subseteq Nat
  BY <1>3 DEF ToDelete, Differing
<1>5. \A m : 1 .. m \subseteq Nat
  OBVIOUS
<1>6. ToRemove(spec) \subseteq Nat
  BY <1>4, <1>5 DEF ToRemove
<1>7. QED BY <1>2, <1>3, <1>6

-------------------------------------------------------------------------------
(* What a step leaves alone.                                               *)

\* The sequence of updates keeps its length and its specifications.
SameUpdates ==
    /\ updates' \in Seq(Update)
    /\ Len(updates') = Len(updates)
    /\ DOMAIN updates' = DOMAIN updates
    /\ \A u \in DOMAIN updates : updates'[u].spec = updates[u].spec

\* A goroutine changes its own record only.
LEMMA StarterFrame ==
    ASSUME TypeOK, NEW u \in DOMAIN updates, Starter(u)
    PROVE  /\ SameUpdates
           /\ UNCHANGED <<loopVars, handler>>
           /\ \A v \in DOMAIN updates \ {u} : updates'[v] = updates[v]
<1> DEFINE P(r) == updates' = [updates EXCEPT ![u] = r] /\ r \in Update
                     /\ r.spec = updates[u].spec
<1>1. updates \in Seq(Update) /\ updates[u] \in Update
  BY UpdateType DEF TypeOK
<1>2. \E r : P(r)
  <2>1. CASE StartInitUnit(u)
    <3>1. P([updates[u] EXCEPT !.pc = "wait"]) \/ P([updates[u] EXCEPT !.pc = "done"])
      BY <1>1, <2>1 DEF StartInitUnit, AbortStart, Update, StarterPCs
    <3>2. QED BY <3>1
  <2>2. CASE InitUnitSucceeded(u)
    <3>1. updates[u].next + 1 \in Nat \ {0}
      BY <1>1 DEF Update
    <3>2. [updates[u] EXCEPT !.pc = "start", !.next = @ + 1] \in Update
      BY <1>1, <3>1 DEF Update, StarterPCs
    <3>3. P([updates[u] EXCEPT !.pc = "start", !.next = @ + 1])
      BY <1>1, <2>2, <3>2 DEF InitUnitSucceeded, Update
    <3>4. QED BY <3>3
  <2>3. CASE GiveUpOnInit(u)
    <3>1. P([updates[u] EXCEPT !.pc = "gone"])
      BY <1>1, <2>3 DEF GiveUpOnInit, Update, StarterPCs
    <3>2. QED BY <3>1
  <2>4. ASSUME NEW i \in updates[u].todo, StartMainUnit(u, i)
        PROVE  \E r : P(r)
    <3>1. P([updates[u] EXCEPT !.todo = @ \ {i}]) \/ P([updates[u] EXCEPT !.pc = "done"])
      BY <1>1, <2>4 DEF StartMainUnit, AbortStart, Update, StarterPCs
    <3>2. QED BY <3>1
  <2>5. CASE FinishStart(u)
    <3>1. P([updates[u] EXCEPT !.pc = "done"])
      BY <1>1, <2>5 DEF FinishStart, Update, StarterPCs
    <3>2. QED BY <3>1
  <2>6. QED BY <2>1, <2>2, <2>3, <2>4, <2>5 DEF Starter
<1>3. PICK r : P(r)
  BY <1>2
<1>4. SameUpdates
  BY <1>1, <1>3, UpdatesExcept DEF SameUpdates
<1>5. UNCHANGED <<loopVars, handler>>
  BY DEF Starter, StartInitUnit, InitUnitSucceeded, GiveUpOnInit, StartMainUnit,
         FinishStart
<1>6. QED BY <1>3, <1>4, <1>5

\* A helper only touches its unit.
LEMMA HelperFrame ==
    ASSUME NEW n \in Names, Helper(n)
    PROVE  UNCHANGED <<loopVars, handler, updates, waitGroup, syncErrors, faults>>
BY DEF Helper, HelperFails, CommandExits, OrphanExits

\* The update loop changes no record but that of the update it applies and of
\* the one it cancels, and no specification.
LEMMA LoopFrame ==
    ASSUME TypeOK, UpdateLoop
    PROVE  SameUpdates /\ UNCHANGED handler
<1>1. updates \in Seq(Update) /\ loop.id \in DOMAIN updates \cup {0}
      /\ (loop.pc = "wait" => loop.id \in DOMAIN updates)
  BY DEF TypeOK
<1>2. ASSUME UNCHANGED updates PROVE SameUpdates
  BY <1>1, <1>2 DEF SameUpdates
<1>3. CASE CancelPrevious
  <2>1. updates' = [u \in DOMAIN updates |->
                     IF u = cancelFunc
                     THEN [updates[u] EXCEPT !.cancelled = TRUE]
                     ELSE updates[u]]
    BY <1>3 DEF CancelPrevious
  <2>2. ASSUME cancelFunc \in DOMAIN updates
        PROVE  SameUpdates
    <3>1. updates[cancelFunc] \in Update
      BY <2>2, UpdateType
    <3>2. [updates[cancelFunc] EXCEPT !.cancelled = TRUE] \in Update
      BY <3>1 DEF Update
    <3>3. updates' = [updates EXCEPT ![cancelFunc] =
                        [updates[cancelFunc] EXCEPT !.cancelled = TRUE]]
      BY <1>1, <2>1, <2>2
    <3>4. QED BY <1>1, <2>2, <3>1, <3>2, <3>3, UpdatesExcept DEF SameUpdates, Update
  <2>3. ASSUME cancelFunc \notin DOMAIN updates
        PROVE  SameUpdates
    <3>1. updates' = [u \in DOMAIN updates |-> updates[u]]
      BY <2>1, <2>3
    <3>2. updates' = updates
      BY <1>1, <3>1, IsASeq, LenProperties
    <3>3. QED BY <1>2, <3>2
  <2>4. QED BY <1>3, <2>2, <2>3 DEF CancelPrevious
<1>4. CASE SpawnStarter
  <2>1. loop.id \in DOMAIN updates
    BY <1>1, <1>4 DEF SpawnStarter
  <2>2. updates[loop.id] \in Update /\ SpecOf(loop.id) \in PodSpec
    BY <2>1, UpdateType
  <2> DEFINE n == IF Event = "units_changed"
                  THEN Len(SpecOf(loop.id).inits) + 1 ELSE 1
             r == [updates[loop.id] EXCEPT !.pc = "start", !.next = n,
                                           !.todo = ToCreate(SpecOf(loop.id))]
  <2>3. n \in Nat \ {0} /\ ToCreate(SpecOf(loop.id)) \in SUBSET Nat
    BY <2>2, UnitNameType, ToCreateType
  <2> HIDE DEF n
  <2>4. r \in Update /\ r.spec = updates[loop.id].spec
    BY <2>2, <2>3 DEF Update, StarterPCs
  <2>5. updates' = [updates EXCEPT ![loop.id] = r]
    BY <1>1, <1>4, <2>1, <2>2 DEF SpawnStarter, Update, n
  <2>6. QED BY <1>1, <1>4, <2>1, <2>4, <2>5, UpdatesExcept DEF SameUpdates, SpawnStarter
<1>5. CASE DropOutdated \/ StopDropping \/ Receive \/ MarkRestarting \/ PrepareSandbox
  BY <1>2, <1>5 DEF DropOutdated, StopDropping, Receive, MarkRestarting, PrepareSandbox
<1>6. CASE \E i \in loop.remove : RemoveContainer(i)
  BY <1>2, <1>6 DEF RemoveContainer
<1>7. CASE \E i \in loop.create : CreateContainer(i)
  BY <1>2, <1>7 DEF CreateContainer
<1>8. QED BY <1>3, <1>4, <1>5, <1>6, <1>7 DEF UpdateLoop

\* The steps of the loop after it has received an update leave the channel and
\* the numbers alone.
LEMMA ApplyFrame ==
    ASSUME TypeOK,
           \/ \E k \in loop.remove : RemoveContainer(k)
           \/ MarkRestarting
           \/ PrepareSandbox
           \/ \E k \in loop.create : CreateContainer(k)
           \/ CancelPrevious
           \/ SpawnStarter
    PROVE  /\ UNCHANGED updateChan
           /\ loop'.id = loop.id /\ loop'.seen = loop.seen
           /\ loop'.pc # "receive"
<1>1. loop \in [pc : {"check", "receive", "remove", "create", "wait"},
                id : Nat, seen : Nat, remove : SUBSET Nat, create : SUBSET Nat,
                marking : SUBSET Names]
  BY DEF TypeOK
<1>2. CASE \E k \in loop.remove : RemoveContainer(k)
  BY <1>1, <1>2 DEF RemoveContainer, FinishUpdate
<1>3. CASE PrepareSandbox
  BY <1>1, <1>3 DEF PrepareSandbox, FinishUpdate
<1>4. CASE \E k \in loop.create : CreateContainer(k)
  BY <1>1, <1>4 DEF CreateContainer, CreationFailed, FinishUpdate
<1>5. CASE CancelPrevious
  BY <1>1, <1>5 DEF CancelPrevious
<1>6. CASE SpawnStarter
  BY <1>1, <1>6 DEF SpawnStarter, FinishUpdate
<1>7. CASE MarkRestarting
  BY <1>1, <1>7 DEF MarkRestarting
<1>8. QED BY <1>2, <1>3, <1>4, <1>5, <1>6, <1>7

-------------------------------------------------------------------------------
(* The channel.                                                            *)

\* The type of the variables the channel lemmas are about.
LEMMA ChanType ==
    ASSUME TypeOK
    PROVE  /\ updateChan \in Seq(Nat)
           /\ DOMAIN updateChan = 1 .. Len(updateChan)
           /\ Len(updateChan) \in Nat
           /\ Len(updates) \in Nat /\ DOMAIN updates = 1 .. Len(updates)
           /\ loop \in [pc : {"check", "receive", "remove", "create", "wait"},
                        id : Nat, seen : Nat, remove : SUBSET Nat, create : SUBSET Nat,
                        marking : SUBSET Names]
           /\ updateChan # <<>> => Len(updateChan) > 0
<1>1. updates \in Seq(Update) /\ updateChan \in Seq(DOMAIN updates)
  BY DEF TypeOK
<1>2. DOMAIN updates = 1 .. Len(updates) /\ Len(updates) \in Nat
  BY <1>1, LenProperties
<1>3. DOMAIN updates \subseteq Nat
  BY <1>2
<1>4. updateChan \in Seq(Nat)
  BY <1>1, <1>3, SeqMonotonic
<1>5. updateChan # <<>> => Len(updateChan) > 0
  BY <1>4, EmptySeq, LenProperties
<1>6. QED BY <1>2, <1>4, <1>5, LenProperties DEF TypeOK

LEMMA ChanStep ==
    ASSUME TypeOK, ChanInv, SeenInv, [Next]_vars
    PROVE  ChanInv' /\ SeenInv'
<1> USE ChanType DEF ChanInv, SeenInv
<1>1. ASSUME NEW h \in Handlers, CheckRoom(h) PROVE ChanInv' /\ SeenInv'
  BY <1>1 DEF CheckRoom
<1>2. ASSUME NEW h \in Handlers, NEW s \in Specs, Send(h, s)
      PROVE  ChanInv' /\ SeenInv'
  <2>1. /\ Len(updates') = Len(updates) + 1
        /\ Len(updateChan') = Len(updateChan) + 1
        /\ DOMAIN updateChan' = 1 .. Len(updateChan) + 1
        /\ updateChan'[Len(updateChan) + 1] = Len(updates) + 1
        /\ \A k \in DOMAIN updateChan : updateChan'[k] = updateChan[k]
    <3>1. updates' = Append(updates, NewUpdate(s))
          /\ updateChan' = Append(updateChan, Len(updates) + 1)
      BY <1>2 DEF Send
    <3>2. updates \in Seq(Update) /\ NewUpdate(s) \in Update
      BY DEF TypeOK, NewUpdate, Update, StarterPCs
    <3>3. Len(updates') = Len(updates) + 1
      BY <3>1, <3>2, AppendProperties
    <3>4. QED BY <3>1, <3>3, AppendProperties
  <2>2. UNCHANGED loop
    BY <1>2 DEF Send
  <2>3. updateChan' # <<>>
    BY <2>1
  <2>4. \A k \in DOMAIN updateChan' :
           updateChan'[k] = Len(updates') - Len(updateChan') + k
    BY <2>1, SMTT(30)
  <2>5. QED BY <2>1, <2>2, <2>3, <2>4
<1>3. CASE DropOutdated
  <2>1. UNCHANGED <<updates, loop>> /\ Len(updateChan) > 1 /\ loop.pc = "check"
        /\ updateChan' = Tail(updateChan)
    BY <1>3 DEF DropOutdated, Outdated
  <2>2. /\ Len(updateChan') = Len(updateChan) - 1
        /\ DOMAIN updateChan' = 1 .. Len(updateChan) - 1
        /\ \A k \in 1 .. Len(updateChan) - 1 : updateChan'[k] = updateChan[k + 1]
    BY <2>1, HeadTailProperties, LenProperties, EmptySeq
  <2>3. updateChan' # <<>>
    BY <2>1, <2>2, EmptySeq
  <2>4. ASSUME NEW k \in DOMAIN updateChan'
        PROVE  updateChan'[k] = Len(updates') - Len(updateChan') + k
    <3>1. k \in 1 .. Len(updateChan) - 1 /\ k + 1 \in DOMAIN updateChan
      BY <2>2
    <3>2. updateChan'[k] = Len(updates) - Len(updateChan) + (k + 1)
      BY <2>2, <3>1
    <3>3. QED BY <2>1, <2>2, <3>1, <3>2
  <2>5. loop'.id + Len(updateChan') <= Len(updates')
    BY <2>1, <2>2
  <2>6. SeenInv'
    BY <2>1
  <2>7. QED BY <2>3, <2>4, <2>5, <2>6
<1>4. CASE StopDropping
  BY <1>4 DEF StopDropping, Outdated
<1>5. CASE Receive
  <2>1. UNCHANGED updates /\ updateChan # <<>> /\ updateChan' = Tail(updateChan)
        /\ loop'.id = Head(updateChan) /\ loop'.seen = loop.seen
        /\ loop'.pc # "receive"
    BY <1>5 DEF Receive
  <2>2. /\ Len(updateChan') = Len(updateChan) - 1
        /\ DOMAIN updateChan' = 1 .. Len(updateChan) - 1
        /\ \A k \in 1 .. Len(updateChan) - 1 : updateChan'[k] = updateChan[k + 1]
    BY <2>1, HeadTailProperties, LenProperties
  <2>3. Head(updateChan) = updateChan[1] /\ 1 \in DOMAIN updateChan
    BY <2>1
  <2>4. loop'.id = Len(updates) - Len(updateChan) + 1
    BY <2>1, <2>3
  <2>5. updateChan' = <<>> => Len(updateChan) = 1
    BY <2>1, <2>2, EmptySeq
  <2>6. \A k \in DOMAIN updateChan' :
           updateChan'[k] = Len(updates') - Len(updateChan') + k
    <3>1. TAKE k \in DOMAIN updateChan'
    <3>2. k \in 1 .. Len(updateChan) - 1 /\ k + 1 \in DOMAIN updateChan
      BY <2>2
    <3>3. updateChan[k + 1] = Len(updates) - Len(updateChan) + (k + 1)
      BY <3>2
    <3>4. updateChan'[k] = Len(updates) - Len(updateChan) + (k + 1)
      BY <2>2, <3>2, <3>3
    <3>5. QED BY <2>1, <2>2, <3>2, <3>4
  <2>7. loop'.id + Len(updateChan') <= Len(updates')
    BY <2>1, <2>2, <2>4
  <2>8. updateChan' = <<>> => loop'.id = Len(updates')
    BY <2>1, <2>4, <2>5
  <2>9. SeenInv'
    BY <2>1
  <2>10. QED BY <2>6, <2>7, <2>8, <2>9
<1>6. CASE \/ \E k \in loop.remove : RemoveContainer(k)
           \/ MarkRestarting
           \/ PrepareSandbox
           \/ \E k \in loop.create : CreateContainer(k)
           \/ CancelPrevious
           \/ SpawnStarter
  <2>1. UpdateLoop
    BY <1>6 DEF UpdateLoop
  <2>2. QED BY <1>6, <2>1, ApplyFrame, LoopFrame DEF SameUpdates
<1>7. ASSUME NEW u \in DOMAIN updates, Starter(u) PROVE ChanInv' /\ SeenInv'
  BY <1>7, StarterFrame DEF SameUpdates, loopVars
<1>8. ASSUME NEW n \in Names, Helper(n) PROVE  ChanInv' /\ SeenInv'
  BY <1>8, HelperFrame DEF loopVars
<1>9. CASE UNCHANGED vars
  BY <1>9 DEF vars
<1>10. QED BY <1>1, <1>2, <1>3, <1>4, <1>5, <1>6, <1>7, <1>8, <1>9
           DEF Next, UpdateLoop

-------------------------------------------------------------------------------
(* The start goroutines.                                                   *)

\* A step of a goroutine keeps its update spawned; it stays pending unless it
\* calls Done, and only the goroutine of the newest update is pending.
LEMMA StarterKeepsOrder ==
    ASSUME TypeOK, StarterInv, NEW u \in DOMAIN updates, Starter(u)
    PROVE  StarterInv'
<1>1. /\ DOMAIN updates' = DOMAIN updates /\ UNCHANGED loop
      /\ \A v \in DOMAIN updates \ {u} : updates'[v] = updates[v]
  BY StarterFrame DEF SameUpdates, loopVars
<1>2. updates[u] \in Update /\ updates \in Seq(Update)
  BY UpdateType DEF TypeOK
<1>3. Pending(u) /\ Spawned(u)
  BY DEF Starter, StartInitUnit, InitUnitSucceeded, GiveUpOnInit, StartMainUnit,
         FinishStart, Pending, Spawned
<1>4. NewestSpawned(u) /\ waitGroup = 1
        /\ \A v \in DOMAIN updates : Pending(v) => v = u
  <2>1. NewestSpawned(u) /\ waitGroup = 1
    BY <1>3 DEF StarterInv
  <2>2. ASSUME NEW v \in DOMAIN updates, Pending(v) PROVE v = u
    <3>1. NewestSpawned(v) /\ Spawned(v)
      BY <2>2 DEF StarterInv, NewestSpawned
    <3>2. u <= v /\ v <= u /\ u \in Nat /\ v \in Nat
      BY <1>3, <2>1, <3>1, UpdateType DEF NewestSpawned
    <3>3. QED BY <3>2
  <2>3. QED BY <2>1, <2>2
<1>5. /\ updates'[u].pc \in StarterPCs \ {"none"}
      /\ updates'[u].pc # "done" => UNCHANGED waitGroup
  <2>1. CASE StartInitUnit(u)
    BY <1>2, <2>1 DEF StartInitUnit, AbortStart, Update, StarterPCs
  <2>2. CASE InitUnitSucceeded(u)
    BY <1>2, <2>2 DEF InitUnitSucceeded, Update, StarterPCs
  <2>3. CASE GiveUpOnInit(u)
    BY <1>2, <2>3 DEF GiveUpOnInit, Update, StarterPCs
  <2>4. CASE \E i \in updates[u].todo : StartMainUnit(u, i)
    BY <1>2, <2>4 DEF StartMainUnit, AbortStart, Update, StarterPCs
  <2>5. CASE FinishStart(u)
    BY <1>2, <2>5 DEF FinishStart, Update, StarterPCs
  <2>6. QED BY <2>1, <2>2, <2>3, <2>4, <2>5 DEF Starter
<1>6. \A v \in DOMAIN updates : Spawned(v)' <=> Spawned(v)
  BY <1>1, <1>3, <1>5 DEF Spawned, StarterPCs
<1>7. \A v \in DOMAIN updates : NewestSpawned(v)' <=> NewestSpawned(v)
  BY <1>1, <1>6 DEF NewestSpawned
<1>8. \A v \in DOMAIN updates : Pending(v)' =>
         v = u /\ updates'[u].pc # "done"
  BY <1>1, <1>4, <1>5 DEF Pending
<1>9. QED BY <1>1, <1>4, <1>5, <1>6, <1>7, <1>8 DEF StarterInv

\* A step that changes neither pc of any update nor the loop keeps the order.
LEMMA SamePCs ==
    ASSUME DOMAIN updates' = DOMAIN updates, UNCHANGED waitGroup,
           \A u \in DOMAIN updates : updates'[u].pc = updates[u].pc,
           StarterInv,
           \A u \in DOMAIN updates :
              Spawned(u) => /\ u <= loop'.id
                            /\ loop'.pc \in {"remove", "create", "wait"} => u # loop'.id
    PROVE  StarterInv'
<1>1. \A u \in DOMAIN updates : /\ Spawned(u)' <=> Spawned(u)
                                /\ Pending(u)' <=> Pending(u)
  BY DEF Spawned, Pending
<1>2. \A u \in DOMAIN updates : NewestSpawned(u)' <=> NewestSpawned(u)
  BY <1>1 DEF NewestSpawned
<1>3. QED BY <1>1, <1>2 DEF StarterInv

LEMMA StarterStep ==
    ASSUME TypeOK, ChanInv, StarterInv, [Next]_vars
    PROVE  StarterInv'
<1> USE ChanType
<1>1. ASSUME UNCHANGED <<updates, loop, waitGroup>> PROVE StarterInv'
  BY <1>1, SamePCs DEF StarterInv
<1>2. ASSUME NEW h \in Handlers, NEW s \in Specs, Send(h, s) PROVE StarterInv'
  <2>1. updates' = Append(updates, NewUpdate(s)) /\ UNCHANGED <<loop, waitGroup>>
    BY <1>2 DEF Send
  <2>2. updates \in Seq(Update) /\ NewUpdate(s) \in Update
    BY DEF TypeOK, NewUpdate, Update, StarterPCs
  <2>3. /\ DOMAIN updates' = DOMAIN updates \cup {Len(updates) + 1}
        /\ \A u \in DOMAIN updates : updates'[u] = updates[u]
        /\ updates'[Len(updates) + 1] = NewUpdate(s)
    BY <2>1, <2>2, AppendProperties, LenProperties
  <2>4. /\ \A u \in DOMAIN updates : /\ Spawned(u)' <=> Spawned(u)
                                     /\ Pending(u)' <=> Pending(u)
        /\ \A u \in DOMAIN updates' \ DOMAIN updates : ~Spawned(u)' /\ ~Pending(u)'
    BY <2>3 DEF Spawned, Pending, NewUpdate
  <2>5. \A u \in DOMAIN updates : NewestSpawned(u) => NewestSpawned(u)'
    BY <2>3, <2>4 DEF NewestSpawned
  <2>6. QED BY <2>1, <2>3, <2>4, <2>5 DEF StarterInv
<1>3. CASE DropOutdated \/ StopDropping
  BY <1>3, SamePCs DEF DropOutdated, StopDropping, StarterInv
<1>4. CASE Receive
  <2>1. UNCHANGED <<updates, waitGroup>> /\ loop'.id = Head(updateChan)
        /\ updateChan # <<>>
    BY <1>4 DEF Receive
  <2>2. Head(updateChan) > loop.id
    BY <2>1 DEF ChanInv
  <2>3. \A u \in DOMAIN updates : Spawned(u) => u <= loop.id
    BY DEF StarterInv
  <2>4. Head(updateChan) \in Nat
    BY <2>1
  <2>5. \A u \in DOMAIN updates : Spawned(u) => u <= loop'.id /\ u # loop'.id
    BY <2>1, <2>2, <2>3, <2>4
  <2>6. QED BY <2>1, <2>5, SamePCs
<1>5. CASE \/ \E k \in loop.remove : RemoveContainer(k)
           \/ MarkRestarting
           \/ PrepareSandbox
           \/ \E k \in loop.create : CreateContainer(k)
           \/ CancelPrevious
  <2>1. loop'.id = loop.id /\ loop.pc \in {"remove", "create", "wait"}
    BY <1>5, ApplyFrame DEF RemoveContainer, MarkRestarting, PrepareSandbox,
                            CreateContainer, CancelPrevious
  <2>2. UNCHANGED waitGroup
    BY <1>5 DEF RemoveContainer, MarkRestarting, PrepareSandbox, CreateContainer,
                CancelPrevious
  <2>3. DOMAIN updates' = DOMAIN updates
        /\ \A u \in DOMAIN updates : updates'[u].pc = updates[u].pc
    <3>1. CASE CancelPrevious
      <4>1. \A u \in DOMAIN updates : updates[u] \in Update
        BY UpdateType
      <4>2. QED BY <3>1, <4>1 DEF CancelPrevious, Update
    <3>2. CASE ~CancelPrevious
      BY <1>5, <3>2 DEF RemoveContainer, MarkRestarting, PrepareSandbox, CreateContainer
    <3>3. QED BY <3>1, <3>2
  <2>4. QED BY <2>1, <2>2, <2>3, SamePCs DEF StarterInv
<1>6. CASE SpawnStarter
  <2>1. /\ loop.pc = "wait" /\ waitGroup = 0 /\ waitGroup' = 1
        /\ loop'.id = loop.id /\ loop'.pc = "check"
    BY <1>6 DEF SpawnStarter, PreviousFinished, FinishUpdate
  <2>2. loop.id \in DOMAIN updates /\ updates \in Seq(Update)
    BY <2>1 DEF TypeOK
  <2>3. UpdateLoop
    BY <1>6 DEF UpdateLoop
  <2>4. DOMAIN updates' = DOMAIN updates
    BY <2>3, LoopFrame DEF SameUpdates
  <2>5. /\ \A u \in DOMAIN updates \ {loop.id} : updates'[u] = updates[u]
        /\ updates'[loop.id].pc = "start"
    <3>1. updates[loop.id] \in Update
      BY <2>2, UpdateType
    <3>2. QED BY <1>6, <2>2, <3>1 DEF SpawnStarter, Update
  <2>6. \A u \in DOMAIN updates : ~Pending(u)
    BY <2>1 DEF StarterInv
  <2>7. \A u \in DOMAIN updates : Pending(u)' => u = loop.id
    BY <2>5, <2>6 DEF Pending
  <2>8. \A u \in DOMAIN updates : Spawned(u)' => Spawned(u) \/ u = loop.id
    BY <2>5 DEF Spawned
  <2>9. \A u \in DOMAIN updates : Spawned(u)' => u <= loop.id
    BY <2>8, <2>2 DEF StarterInv
  <2>10. NewestSpawned(loop.id)'
    BY <2>1, <2>4, <2>5, <2>9 DEF NewestSpawned, Spawned
  <2>11. QED BY <2>1, <2>4, <2>7, <2>9, <2>10 DEF StarterInv
<1>7. ASSUME NEW u \in DOMAIN updates, Starter(u) PROVE StarterInv'
  BY <1>7, StarterKeepsOrder
<1>8. ASSUME NEW h \in Handlers, CheckRoom(h) PROVE StarterInv'
  BY <1>1, <1>8 DEF CheckRoom
<1>9. ASSUME NEW n \in Names, Helper(n) PROVE  StarterInv'
  BY <1>1, <1>9, HelperFrame DEF loopVars
<1>10. CASE UNCHANGED vars
  BY <1>1, <1>10 DEF vars
<1>11. QED BY <1>2, <1>3, <1>4, <1>5, <1>6, <1>7, <1>8, <1>9, <1>10
           DEF Next, UpdateLoop

-------------------------------------------------------------------------------
(* Positions.                                                              *)

\* A step that keeps specifications, every todo and every waiting goroutine,
\* and does not enter the removal or creation loop, keeps PositionsInv.
LEMMA PositionsStep ==
    ASSUME TypeOK, PositionsInv, [Next]_vars
    PROVE  PositionsInv'
<1> USE ChanType
<1> DEFINE LoopPart ==
             /\ loop.pc = "remove" => loop.remove \subseteq ToRemove(SpecOf(loop.id))
             /\ loop.pc \in {"remove", "create"} =>
                   loop.create \subseteq DOMAIN SpecOf(loop.id).units
           StarterPart(u) ==
             /\ updates[u].todo \subseteq DOMAIN SpecOf(u).units
             /\ updates[u].pc = "wait" => MoreInits(u)
<1>1. ASSUME UNCHANGED <<updates, loop, podStatus>> PROVE PositionsInv'
  BY <1>1 DEF PositionsInv, ToRemove, ToDelete, SpecOf, MoreInits
<1>2. ASSUME NEW h \in Handlers, NEW s \in Specs, Send(h, s) PROVE PositionsInv'
  <2>1. updates' = Append(updates, NewUpdate(s)) /\ UNCHANGED <<loop, podStatus>>
    BY <1>2 DEF Send
  <2>2. updates \in Seq(Update) /\ NewUpdate(s) \in Update
    BY DEF TypeOK, NewUpdate, Update, StarterPCs
  <2>3. /\ DOMAIN updates' = DOMAIN updates \cup {Len(updates) + 1}
        /\ \A u \in DOMAIN updates : updates'[u] = updates[u]
        /\ \A u \in DOMAIN updates' \ DOMAIN updates : updates'[u] = NewUpdate(s)
    BY <2>1, <2>2, AppendProperties, LenProperties
  <2>4. \A u \in DOMAIN updates : StarterPart(u)'
    BY <2>3 DEF PositionsInv, SpecOf, MoreInits
  <2>5. \A u \in DOMAIN updates' \ DOMAIN updates : StarterPart(u)'
    BY <2>3 DEF NewUpdate
  <2>6. loop.pc \in {"remove", "create"} => loop.id \in DOMAIN updates
    BY DEF TypeOK
  <2>7. LoopPart'
    BY <2>1, <2>3, <2>6 DEF PositionsInv, SpecOf, ToRemove, ToDelete
  <2>8. QED BY <2>4, <2>5, <2>7 DEF PositionsInv
<1>3. CASE DropOutdated \/ StopDropping
  BY <1>3 DEF DropOutdated, StopDropping, PositionsInv, SpecOf, MoreInits
<1>4. CASE Receive
  <2>1. UNCHANGED updates /\ Head(updateChan) \in DOMAIN updates
        /\ loop'.id = Head(updateChan)
    <3>1. updateChan \in Seq(DOMAIN updates) /\ updateChan # <<>>
      BY <1>4 DEF TypeOK, Receive
    <3>2. QED BY <1>4, <3>1, HeadTailProperties DEF Receive
  <2>2. SpecOf(Head(updateChan)) \in PodSpec
    BY <2>1, UpdateType
  <2>3. loop'.pc # "check" =>
          /\ loop'.remove = ToRemove(SpecOf(Head(updateChan)))
          /\ loop'.create = ToCreate(SpecOf(Head(updateChan)))
          /\ UNCHANGED podStatus
    BY <1>4 DEF Receive
  <2>4. loop'.pc \in {"check", "remove"}
    BY <1>4 DEF Receive
  <2>5. LoopPart'
    BY <2>1, <2>2, <2>3, <2>4, ToCreateType DEF SpecOf, ToRemove, ToDelete
  <2>6. QED BY <2>1, <2>5 DEF PositionsInv, SpecOf, MoreInits
<1>5. CASE \/ \E k \in loop.remove : RemoveContainer(k)
           \/ MarkRestarting
           \/ PrepareSandbox
           \/ \E k \in loop.create : CreateContainer(k)
  <2>1. UNCHANGED updates /\ loop'.id = loop.id
    BY <1>5, ApplyFrame DEF RemoveContainer, MarkRestarting, PrepareSandbox,
                            CreateContainer
  <2>2. \/ loop'.pc = "check"
        \/ /\ UNCHANGED podStatus
           /\ loop'.pc = loop.pc \/ loop'.pc = "create"
           /\ loop.pc \in {"remove", "create"}
           /\ loop'.remove \subseteq loop.remove
           /\ loop'.create \subseteq loop.create
    <3>1. CASE \E k \in loop.remove : RemoveContainer(k)
      BY <3>1 DEF RemoveContainer, FinishUpdate
    <3>2. CASE PrepareSandbox
      BY <3>2 DEF PrepareSandbox, FinishUpdate
    <3>3. CASE \E k \in loop.create : CreateContainer(k)
      BY <3>3 DEF CreateContainer, CreationFailed, FinishUpdate
    <3>4. CASE MarkRestarting
      BY <3>4 DEF MarkRestarting
    <3>5. QED BY <1>5, <3>1, <3>2, <3>3, <3>4
  <2>3. LoopPart'
    BY <2>1, <2>2 DEF PositionsInv, SpecOf, ToRemove, ToDelete
  <2>4. QED BY <2>1, <2>3 DEF PositionsInv, SpecOf, MoreInits
<1>6. CASE CancelPrevious \/ SpawnStarter
  <2>1. /\ SameUpdates /\ loop'.pc \in {"check", "wait"}
    BY <1>6, LoopFrame DEF UpdateLoop, CancelPrevious, SpawnStarter, FinishUpdate
  <2>2. \A u \in DOMAIN updates : updates[u] \in Update
    BY UpdateType
  <2>3. CASE CancelPrevious
    <3>1. \A u \in DOMAIN updates : /\ updates'[u].todo = updates[u].todo
                                    /\ updates'[u].pc = updates[u].pc
                                    /\ updates'[u].next = updates[u].next
      BY <2>2, <2>3 DEF CancelPrevious, Update
    <3>2. QED BY <2>1, <3>1 DEF PositionsInv, SpecOf, MoreInits, SameUpdates
  <2>4. CASE SpawnStarter
    <3>1. loop.id \in DOMAIN updates /\ SpecOf(loop.id) \in PodSpec
      BY <2>4, UpdateType DEF SpawnStarter, TypeOK
    <3>2. /\ \A u \in DOMAIN updates \ {loop.id} : updates'[u] = updates[u]
          /\ updates'[loop.id].pc = "start"
          /\ updates'[loop.id].todo = ToCreate(SpecOf(loop.id))
      BY <2>2, <2>4, <3>1 DEF SpawnStarter, Update
    <3>3. updates'[loop.id].todo \subseteq DOMAIN SpecOf(loop.id).units
      BY <3>1, <3>2, ToCreateType
    <3>4. \A u \in DOMAIN updates : StarterPart(u)'
      BY <2>1, <3>2, <3>3 DEF PositionsInv, SpecOf, MoreInits, SameUpdates
    <3>5. QED BY <2>1, <3>4 DEF PositionsInv, SameUpdates
  <2>5. QED BY <1>6, <2>3, <2>4
<1>7. ASSUME NEW u \in DOMAIN updates, Starter(u) PROVE PositionsInv'
  <2>1. /\ SameUpdates /\ UNCHANGED <<loop, podStatus>>
        /\ \A v \in DOMAIN updates \ {u} : updates'[v] = updates[v]
    BY <1>7, StarterFrame DEF loopVars
  <2>2. updates[u] \in Update
    BY UpdateType
  <2>3. /\ updates'[u].todo \subseteq updates[u].todo
        /\ updates'[u].pc = "wait" => MoreInits(u) /\ updates'[u].next = updates[u].next
    <3>1. CASE StartInitUnit(u)
      BY <2>2, <3>1 DEF StartInitUnit, AbortStart, Update
    <3>2. CASE InitUnitSucceeded(u)
      BY <2>2, <3>2 DEF InitUnitSucceeded, Update
    <3>3. CASE GiveUpOnInit(u)
      BY <2>2, <3>3 DEF GiveUpOnInit, Update
    <3>4. CASE \E i \in updates[u].todo : StartMainUnit(u, i)
      BY <2>2, <3>4, SMTT(30) DEF StartMainUnit, AbortStart, Update
    <3>5. CASE FinishStart(u)
      BY <2>2, <3>5 DEF FinishStart, Update
    <3>6. QED BY <1>7, <3>1, <3>2, <3>3, <3>4, <3>5 DEF Starter
  <2>4. StarterPart(u)'
    BY <2>1, <2>3 DEF PositionsInv, SpecOf, MoreInits, SameUpdates
  <2>5. \A v \in DOMAIN updates \ {u} : StarterPart(v)'
    BY <2>1 DEF PositionsInv, SpecOf, MoreInits, SameUpdates
  <2>6. loop.pc \in {"remove", "create"} => loop.id \in DOMAIN updates
    BY DEF TypeOK
  <2>7. LoopPart'
    BY <2>1, <2>6 DEF PositionsInv, SpecOf, ToRemove, ToDelete, SameUpdates
  <2>8. QED BY <2>1, <2>4, <2>5, <2>7 DEF PositionsInv, SameUpdates
<1>8. ASSUME NEW h \in Handlers, CheckRoom(h) PROVE PositionsInv'
  BY <1>1, <1>8 DEF CheckRoom
<1>9. ASSUME NEW n \in Names, Helper(n) PROVE  PositionsInv'
  BY <1>1, <1>9, HelperFrame DEF loopVars
<1>10. CASE UNCHANGED vars
  BY <1>1, <1>10 DEF vars
<1>11. QED BY <1>2, <1>3, <1>4, <1>5, <1>6, <1>7, <1>8, <1>9, <1>10
           DEF Next, UpdateLoop

-------------------------------------------------------------------------------
(* Types.                                                                  *)

\* The state of the units stays well typed whatever the runtime does to one.
LEMMA UnitTypes ==
    ASSUME TypeOK, NEW n \in Names
    PROVE  /\ [unit EXCEPT ![n] = Removed(@)] \in [Names -> UnitState]
           /\ \A r \in PartlyRemoved(unit[n]) :
                 [unit EXCEPT ![n] = r] \in [Names -> UnitState]
           /\ \A image \in Images :
                 [unit EXCEPT ![n].rootfs = image] \in [Names -> UnitState]
           /\ \A policy \in Policies : Started(n, policy) \in [Names -> UnitState]
<1>1. unit \in [Names -> UnitState] /\ unit[n] \in UnitState
  BY DEF TypeOK
<1>2. \A r \in UnitState : [unit EXCEPT ![n] = r] \in [Names -> UnitState]
  BY <1>1
<1>3. Removed(unit[n]) \in UnitState /\ PartlyRemoved(unit[n]) \subseteq UnitState
  <2>1. Removed(unit[n]) \in UnitState
    BY <1>1 DEF UnitState, Removed
  <2>2. ASSUME NEW r \in {unit[n].rootfs, NoImage}, NEW e \in {unit[n].exit, "none"}
        PROVE  [unit[n] EXCEPT !.helper = NoHelper, !.rootfs = r, !.exit = e]
                 \in UnitState
    BY <1>1 DEF UnitState
  <2>3. QED BY <2>1, <2>2 DEF PartlyRemoved
<1>4. ASSUME NEW image \in Images
      PROVE  [unit EXCEPT ![n].rootfs = image] \in [Names -> UnitState]
  <2>1. [unit[n] EXCEPT !.rootfs = image] \in UnitState
    BY <1>1 DEF UnitState
  <2>2. QED BY <1>1, <1>2, <2>1
<1>5. ASSUME NEW policy \in Policies
      PROVE  Started(n, policy) \in [Names -> UnitState]
  <2> DEFINE r == [unit[n] EXCEPT !.helper = policy, !.exit = "none",
                      !.orphan = @ \/ unit[n].helper # NoHelper]
  <2>1. (unit[n].orphan \/ unit[n].helper # NoHelper) \in BOOLEAN
    OBVIOUS
  <2>2. r \in UnitState
    BY <1>1, <2>1 DEF UnitState
  <2>3. Started(n, policy) = [unit EXCEPT ![n] = r]
    BY <1>1 DEF Started, UnitState
  <2>4. QED BY <1>2, <2>2, <2>3
<1>6. QED BY <1>1, <1>2, <1>3, <1>4, <1>5

\* The conjuncts of TypeOK about the loop and what it owns.
LoopTypes ==
    /\ updateChan \in Seq(DOMAIN updates)
    /\ Len(updateChan) <= ChanSize
    /\ loop \in [pc : {"check", "receive", "remove", "create", "wait"},
                 id : Nat, seen : Nat, remove : SUBSET Nat, create : SUBSET Nat,
                 marking : SUBSET Names]
    /\ loop.id \in DOMAIN updates \cup {0}
    /\ loop.pc \in {"remove", "create", "wait"} => loop.id # 0
    /\ podStatus \in Specs \cup {EmptyStatus}
    /\ cancelFunc \in DOMAIN updates \cup {0}
    /\ restarting \subseteq Names

\* And about the rest, the sequence of updates and the handlers aside.
OtherTypes ==
    /\ waitGroup \in Nat
    /\ syncErrors \subseteq Names
    /\ unit \in [Names -> UnitState]
    /\ faults \in 0 .. MaxFaults

LEMMA LoopStep ==
    ASSUME TypeOK, PositionsInv, UpdateLoop
    PROVE  LoopTypes' /\ OtherTypes'
<1> USE ChanType, BoundsAssumption DEF LoopTypes, OtherTypes
<1>1. LoopTypes /\ OtherTypes
  BY DEF TypeOK
<1>2. SameUpdates
  BY LoopFrame
<1>3. MayFail => faults' \in 0 .. MaxFaults
  BY <1>1 DEF MayFail
<1>4. NoFault => faults' \in 0 .. MaxFaults
  BY <1>1 DEF NoFault
<1>5. loop.id # 0 => /\ loop.id \in DOMAIN updates /\ SpecOf(loop.id) \in PodSpec
                     /\ SpecOf(loop.id) \in Specs
  BY <1>1, UpdateType DEF Update, SpecOf
<1>6. updateChan # <<>> =>
        /\ Head(updateChan) \in DOMAIN updates /\ Head(updateChan) \in Nat \ {0}
        /\ Tail(updateChan) \in Seq(DOMAIN updates)
        /\ Len(Tail(updateChan)) <= ChanSize
  BY <1>1, HeadTailProperties, ChanSizeAssumption
<1>7. CASE DropOutdated
  <2>1. updateChan # <<>>
    BY <1>7, EmptySeq DEF DropOutdated, Outdated
  <2>2. QED BY <1>1, <1>6, <1>7, <2>1 DEF DropOutdated
<1>8. CASE StopDropping
  BY <1>1, <1>8 DEF StopDropping
<1>9. CASE Receive
  <2>1. SpecOf(Head(updateChan)) \in Specs /\ SpecOf(Head(updateChan)) \in PodSpec
    BY <1>6, <1>9, UpdateType DEF Receive, Update, SpecOf
  <2>2. /\ ToRemove(SpecOf(Head(updateChan))) \subseteq Nat
        /\ ToCreate(SpecOf(Head(updateChan))) \subseteq Nat
    BY <2>1, ToCreateType
  <2>3. QED BY <1>1, <1>6, <1>9, <2>1, <2>2, ZenonT(60) DEF Receive
<1>10. ASSUME NEW k \in loop.remove, RemoveContainer(k)
       PROVE  LoopTypes' /\ OtherTypes'
  <2>1. RemovalList[k].name \in Names
    BY <1>1, <1>5, <1>10, RemovalListType DEF RemoveContainer, PositionsInv
  <2>2. unit' \in [Names -> UnitState]
    BY <1>10, <2>1, UnitTypes DEF RemoveContainer
  <2>3. ToMark(RemovalList[k].name) \subseteq Names
    BY <2>1 DEF ToMark
  <2>4. faults' \in 0 .. MaxFaults
    BY <1>3, <1>4, <1>10 DEF RemoveContainer
  <2>5. QED BY <1>1, <1>2, <1>5, <1>10, <2>2, <2>3, <2>4
            DEF RemoveContainer, FinishUpdate, SameUpdates
<1>11. CASE PrepareSandbox
  BY <1>1, <1>3, <1>4, <1>5, <1>11 DEF PrepareSandbox, FinishUpdate
<1>12. ASSUME NEW k \in loop.create, CreateContainer(k)
       PROVE  LoopTypes' /\ OtherTypes'
  <2>1. SpecOf(loop.id).units[k] \in Unit
    BY <1>1, <1>5, <1>12, UnitNameType DEF CreateContainer, PositionsInv
  <2>2. /\ SpecOf(loop.id).units[k].name \in Names
        /\ SpecOf(loop.id).units[k].image \in Images
    BY <2>1 DEF Unit
  <2>3. unit' \in [Names -> UnitState]
    BY <1>1, <1>12, <2>2, UnitTypes DEF CreateContainer
  <2>4. /\ syncErrors' \subseteq Names
        /\ ToMark(SpecOf(loop.id).units[k].name) \subseteq Names
    BY <1>1, <1>12, <2>2 DEF CreateContainer, ToMark
  <2>5. faults' \in 0 .. MaxFaults
    BY <1>3, <1>4, <1>12 DEF CreateContainer
  <2>6. QED BY <1>1, <1>2, <1>5, <1>12, <2>3, <2>4, <2>5, ZenonT(60)
            DEF CreateContainer, CreationFailed, FinishUpdate, SameUpdates
<1>13. CASE CancelPrevious
  BY <1>1, <1>2, <1>5, <1>13 DEF CancelPrevious, SameUpdates
<1>14. CASE SpawnStarter
  BY <1>1, <1>2, <1>5, <1>14 DEF SpawnStarter, FinishUpdate, SameUpdates
<1>15. CASE MarkRestarting
  BY <1>1, <1>2, <1>15 DEF MarkRestarting, Marked, SameUpdates
<1>16. QED BY <1>7, <1>8, <1>9, <1>10, <1>11, <1>12, <1>13, <1>14, <1>15 DEF UpdateLoop

LEMMA StarterTypes ==
    ASSUME TypeOK, PositionsInv, StarterInv, NEW u \in DOMAIN updates, Starter(u)
    PROVE  OtherTypes'
<1> USE BoundsAssumption DEF OtherTypes
<1>1. OtherTypes /\ waitGroup = 1
  BY DEF TypeOK, StarterInv, Starter, StartInitUnit, InitUnitSucceeded,
         GiveUpOnInit, StartMainUnit, FinishStart, Pending
<1>2. SpecOf(u) \in PodSpec /\ SpecOf(u).policy \in Policies
      /\ updates[u] \in Update
  BY UpdateType DEF PodSpec
<1>3. MoreInits(u) => CurrentInit(u) \in Names
  <2>1. updates[u].next \in Nat \ {0}
    BY <1>2 DEF Update
  <2>2. MoreInits(u) => updates[u].next \in DOMAIN SpecOf(u).inits
    BY <1>2, <2>1, UnitNameType DEF MoreInits
  <2>3. QED BY <1>2, <2>2, UnitNameType DEF CurrentInit, Unit
<1>4. \A i \in updates[u].todo : SpecOf(u).units[i].name \in Names
  BY <1>2, UnitNameType DEF PositionsInv, Unit
<1>5. ASSUME NEW n \in Names, AbortStart(u, n) PROVE OtherTypes'
  BY <1>1, <1>5 DEF AbortStart, MayFail, Report, Done
<1>6. CASE StartInitUnit(u)
  BY <1>1, <1>2, <1>3, <1>5, <1>6, UnitTypes DEF StartInitUnit, NoFault
<1>7. CASE InitUnitSucceeded(u) \/ GiveUpOnInit(u)
  BY <1>1, <1>7 DEF InitUnitSucceeded, GiveUpOnInit
<1>8. ASSUME NEW i \in updates[u].todo, StartMainUnit(u, i) PROVE OtherTypes'
  BY <1>1, <1>2, <1>4, <1>5, <1>8, UnitTypes DEF StartMainUnit, NoFault
<1>9. CASE FinishStart(u)
  BY <1>1, <1>9 DEF FinishStart, Done
<1>10. QED BY <1>6, <1>7, <1>8, <1>9 DEF Starter

\* The helpers keep the types of the units.
LEMMA HelperTypes ==
    ASSUME TypeOK, NEW n \in Names, Helper(n)
    PROVE  unit' \in [Names -> UnitState]
<1>1. unit[n] \in UnitState /\ unit \in [Names -> UnitState]
  BY DEF TypeOK
<1>2. \A r \in UnitState : [unit EXCEPT ![n] = r] \in [Names -> UnitState]
  BY <1>1
<1>3. \A e \in {"none", "ok", "err"}, p \in {unit[n].helper, NoHelper} :
         /\ [unit[n] EXCEPT !.exit = e, !.helper = p] \in UnitState
         /\ [unit EXCEPT ![n].exit = e, ![n].helper = p]
              = [unit EXCEPT ![n] = [unit[n] EXCEPT !.exit = e, !.helper = p]]
  BY <1>1 DEF UnitState
<1>4. CASE HelperFails(n)
  BY <1>2, <1>3, <1>4 DEF HelperFails
<1>5. ASSUME NEW code \in {"ok", "err"}, NEW failed \in BOOLEAN,
             CommandExits(n, code, failed)
      PROVE  unit' \in [Names -> UnitState]
  <2>1. PICK p \in {unit[n].helper, NoHelper} :
           unit' = [unit EXCEPT ![n].exit = code, ![n].helper = p]
    BY <1>5 DEF CommandExits
  <2>2. QED BY <1>2, <1>3, <2>1
<1>6. ASSUME NEW code \in {"ok", "err"}, OrphanExits(n, code)
      PROVE  unit' \in [Names -> UnitState]
  <2>1. [unit[n] EXCEPT !.exit = code] \in UnitState
    BY <1>1 DEF UnitState
  <2>2. unit' = [unit EXCEPT ![n] = [unit[n] EXCEPT !.exit = code]]
    BY <1>1, <1>6 DEF OrphanExits
  <2>3. QED BY <1>2, <2>1, <2>2
<1>7. QED BY <1>4, <1>5, <1>6 DEF Helper

LEMMA TypeStep ==
    ASSUME TypeOK, PositionsInv, StarterInv, [Next]_vars
    PROVE  TypeOK'
<1>1. ASSUME SameUpdates, LoopTypes', OtherTypes', UNCHANGED handler PROVE TypeOK'
  BY <1>1 DEF TypeOK, SameUpdates, LoopTypes, OtherTypes
<1>2. LoopTypes /\ OtherTypes /\ (UNCHANGED updates => SameUpdates)
  BY DEF TypeOK, LoopTypes, OtherTypes, SameUpdates
<1>3. ASSUME NEW h \in Handlers, CheckRoom(h) PROVE TypeOK'
  BY <1>3 DEF CheckRoom, TypeOK
<1>4. ASSUME NEW h \in Handlers, NEW s \in Specs, Send(h, s) PROVE TypeOK'
  <2>1. /\ updates' = Append(updates, NewUpdate(s))
        /\ updateChan' = Append(updateChan, Len(updates) + 1)
        /\ Len(updateChan) < ChanSize
        /\ handler' = [handler EXCEPT ![h] = "idle"]
    BY <1>4 DEF Send
  <2>2. updates \in Seq(Update) /\ NewUpdate(s) \in Update
    BY DEF TypeOK, NewUpdate, Update, StarterPCs
  <2>3. /\ updates' \in Seq(Update)
        /\ DOMAIN updates' = DOMAIN updates \cup {Len(updates) + 1}
    BY <2>1, <2>2, AppendProperties, LenProperties
  <2>4. updateChan \in Seq(DOMAIN updates')
    BY <2>3, SeqMonotonic DEF TypeOK
  <2>5. updateChan' \in Seq(DOMAIN updates') /\ Len(updateChan') <= ChanSize
    <3>1. updateChan' \in Seq(DOMAIN updates')
            /\ Len(updateChan') = Len(updateChan) + 1
      BY <2>1, <2>3, <2>4, AppendProperties
    <3>2. QED BY <2>1, <3>1, ChanType, ChanSizeAssumption
  <2>6. LoopTypes'
    BY <1>2, <1>4, <2>3, <2>5 DEF Send, LoopTypes
  <2>7. OtherTypes'
    BY <1>2, <1>4 DEF Send, OtherTypes
  <2>8. handler' \in [Handlers -> {"idle", "send"}]
    BY <2>1 DEF TypeOK
  <2>9. QED BY <2>3, <2>6, <2>7, <2>8 DEF TypeOK, LoopTypes, OtherTypes
<1>5. CASE UpdateLoop
  BY <1>1, <1>5, LoopFrame, LoopStep
<1>6. ASSUME NEW u \in DOMAIN updates, Starter(u) PROVE TypeOK'
  <2>1. SameUpdates /\ UNCHANGED <<loopVars, handler>>
    BY <1>6, StarterFrame
  <2>2. LoopTypes'
    BY <1>2, <2>1 DEF LoopTypes, loopVars, SameUpdates
  <2>3. QED BY <1>1, <1>6, <2>1, <2>2, StarterTypes
<1>7. ASSUME NEW n \in Names, Helper(n) PROVE  TypeOK'
  <2>1. UNCHANGED <<loopVars, handler, updates, waitGroup, syncErrors, faults>>
    BY <1>7, HelperFrame
  <2>2. unit' \in [Names -> UnitState]
    BY <1>7, HelperTypes
  <2>3. QED BY <2>1, <2>2 DEF TypeOK, loopVars
<1>8. CASE UNCHANGED vars
  BY <1>8 DEF vars, TypeOK
<1>9. QED BY <1>3, <1>4, <1>5, <1>6, <1>7, <1>8 DEF Next

-------------------------------------------------------------------------------
(* The theorems.                                                           *)

LEMMA InitInv == Init => IInv
<1> SUFFICES ASSUME Init PROVE IInv
  OBVIOUS
<1>1. /\ updates = <<>> /\ updateChan = <<>>
      /\ Len(updates) = 0 /\ Len(updateChan) = 0
      /\ DOMAIN updates = {} /\ DOMAIN updateChan = {}
      /\ updates \in Seq(Update) /\ updateChan \in Seq(DOMAIN updates)
  BY EmptySeq DEF Init
<1>2. TypeOK
  BY <1>1, ChanSizeAssumption, BoundsAssumption
     DEF Init, TypeOK, FreshUnit, UnitState
<1>3. PositionsInv /\ ChanInv /\ StarterInv /\ SeenInv
  BY <1>1 DEF Init, PositionsInv, ChanInv, StarterInv, SeenInv
<1>4. QED BY <1>2, <1>3 DEF IInv

\* IInv is an invariant.
LEMMA Invariance == Spec => []IInv
<1>1. IInv /\ [Next]_vars => IInv'
  BY TypeStep, PositionsStep, ChanStep, StarterStep DEF IInv
<1>2. QED BY InitInv, <1>1, PTL DEF Spec

\* Every variable of the controller keeps its type; in particular the wait
\* group counter never becomes negative, which Go answers with a panic.
THEOREM TypeCorrect == Spec => []TypeOK
<1>1. IInv => TypeOK
  BY DEF IInv
<1>2. QED BY Invariance, <1>1, PTL

\* However many updates arrive and whatever fails, at most one start goroutine
\* runs and it is that of the newest update that got one
\* (pod_controller.go:306-309).
THEOREM StartersAreSerial == Spec => []OnlyNewestStarterRuns
<1>1. IInv => OnlyNewestStarterRuns
  BY DEF IInv, StarterInv, OnlyNewestStarterRuns, Live, Pending
<1>2. QED BY Invariance, <1>1, PTL

\* The loop never loses the newest update, for every channel size
\* (pod_controller.go:115-127).
THEOREM LatestIsKept == Spec => []LatestUpdateNotLost
<1>1. IInv => LatestUpdateNotLost
  <2> SUFFICES ASSUME IInv, updates # <<>>, updateChan # <<>>
               PROVE  updateChan[Len(updateChan)] = Len(updates)
    BY DEF LatestUpdateNotLost, IInv, ChanInv
  <2>1. Len(updateChan) \in DOMAIN updateChan /\ Len(updates) \in Nat
    BY ChanType DEF IInv
  <2>2. QED BY <2>1, ChanType DEF IInv, ChanInv
<1>2. QED BY Invariance, <1>1, PTL

\* The controller implements PodUpdates: it takes every update at most once, in
\* order, and never one that is older than the newest update it has seen
\* (pod_controller.go:115-127).
THEOREM ImplementsPodUpdates == Spec => TakesLatestUpdates
<1>1. Init => Delivery!Init
  BY EmptySeq DEF Init, Delivery!Init
<1>2. IInv /\ [Next]_vars => [Delivery!Next]_(Delivery!vars)
  <2> SUFFICES ASSUME TypeOK, ChanInv, SeenInv, [Next]_vars
               PROVE  [Delivery!Next]_(Delivery!vars)
    BY DEF IInv
  <2> USE ChanType
  <2>1. ASSUME Len(updates') = Len(updates), loop'.seen = loop.seen,
               loop'.id = loop.id
        PROVE  UNCHANGED Delivery!vars
    BY <2>1 DEF Delivery!vars
  <2>2. ASSUME NEW h \in Handlers, NEW s \in Specs, Send(h, s)
        PROVE  Delivery!Submit
    <3>1. updates' = Append(updates, NewUpdate(s)) /\ UNCHANGED loop
      BY <2>2 DEF Send
    <3>2. updates \in Seq(Update) /\ NewUpdate(s) \in Update
      BY DEF TypeOK, NewUpdate, Update, StarterPCs
    <3>3. Len(updates') = Len(updates) + 1
      BY <3>1, <3>2, AppendProperties
    <3>4. QED BY <3>1, <3>3 DEF Delivery!Submit
  <2>3. CASE StopDropping
    <3>1. UNCHANGED updates /\ loop'.seen = Len(updates) /\ loop'.id = loop.id
      BY <2>3 DEF StopDropping
    <3>2. QED BY <3>1 DEF Delivery!Look, Delivery!Next
  <2>4. CASE Receive
    <3>1. /\ UNCHANGED updates /\ loop'.seen = loop.seen
          /\ loop'.id = Head(updateChan) /\ updateChan # <<>>
          /\ loop.pc = "receive"
      BY <2>4 DEF Receive
    <3>2. /\ Head(updateChan) = updateChan[1] /\ 1 \in DOMAIN updateChan
      BY <3>1
    <3>3. Head(updateChan) = Len(updates) - Len(updateChan) + 1
      BY <3>2 DEF ChanInv
    <3>4. /\ Head(updateChan) \in loop.id + 1 .. Len(updates)
          /\ Head(updateChan) >= loop.seen
      BY <3>1, <3>2, <3>3 DEF ChanInv, SeenInv
    <3>5. QED BY <3>1, <3>4 DEF Delivery!Take, Delivery!Next
  <2>5. ASSUME UNCHANGED <<updates, loop>> PROVE UNCHANGED Delivery!vars
    BY <2>1, <2>5
  <2>6. CASE DropOutdated
    BY <2>5, <2>6 DEF DropOutdated
  <2>7. CASE \/ \E k \in loop.remove : RemoveContainer(k)
             \/ MarkRestarting
             \/ PrepareSandbox
             \/ \E k \in loop.create : CreateContainer(k)
             \/ CancelPrevious
             \/ SpawnStarter
    <3>1. UpdateLoop
      BY <2>7 DEF UpdateLoop
    <3>2. QED BY <2>1, <2>7, <3>1, ApplyFrame, LoopFrame DEF SameUpdates
  <2>8. ASSUME NEW u \in DOMAIN updates, Starter(u) PROVE UNCHANGED Delivery!vars
    BY <2>1, <2>8, StarterFrame DEF SameUpdates, loopVars
  <2>9. ASSUME NEW h \in Handlers, CheckRoom(h) PROVE UNCHANGED Delivery!vars
    BY <2>5, <2>9 DEF CheckRoom
  <2>10. ASSUME NEW n \in Names, Helper(n) PROVE  UNCHANGED Delivery!vars
    BY <2>5, <2>10, HelperFrame DEF loopVars
  <2>11. CASE UNCHANGED vars
    BY <2>5, <2>11 DEF vars
  <2>12. QED BY <2>2, <2>3, <2>4, <2>6, <2>7, <2>8, <2>9, <2>10, <2>11
             DEF Next, UpdateLoop, Delivery!Next
<1>3. QED BY Invariance, <1>1, <1>2, PTL DEF Spec, TakesLatestUpdates, Delivery!Spec

===============================================================================
