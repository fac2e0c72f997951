---------------------------- MODULE PodUnitsProofs ----------------------------
(***************************************************************************)
(* Proofs about the units PodController deploys, marks, reports and        *)
(* starts. They rest on IInv of PodControllerProofs and on one invariant   *)
(* per question, each with one step lemma.                                 *)
(***************************************************************************)
EXTENDS PodControllerProofs

-------------------------------------------------------------------------------
(* The invariants.                                                         *)

\* The regular units of the update being applied.
NewUnits == SpecOf(loop.id).units

\* The units at these positions are deployed with their images, and no other.
OnlyDeployed(units, positions) ==
    /\ \A k \in positions : unit[units[k].name].rootfs = units[k].image
    /\ \A n \in Names : unit[n].rootfs # NoImage =>
          \E k \in positions : units[k].name = n

\* The positions of podStatus.units that the update being applied leaves alone.
KeptPositions ==
    IF Event = "units_changed"
    THEN DOMAIN podStatus.units \ ToDelete(SpecOf(loop.id), podStatus)
    ELSE {}

\* Between updates the units of podStatus are deployed.
SettledInv ==
    loop.pc \in {"check", "receive"} =>
        OnlyDeployed(podStatus.units, DOMAIN podStatus.units)

\* While units are removed: the kept ones are deployed, and whatever else is
\* deployed is still to be removed.
RemovalInv ==
    loop.pc = "remove" =>
        /\ \A k \in KeptPositions :
              unit[podStatus.units[k].name].rootfs = podStatus.units[k].image
        /\ \A n \in Names : unit[n].rootfs # NoImage =>
              \/ \E k \in KeptPositions : podStatus.units[k].name = n
              \/ \E k \in loop.remove : RemovalList[k].name = n

\* While units are created: those of the new specification are deployed, the
\* ones still to be created aside.
CreationInv ==
    loop.pc \in {"create", "wait"} =>
        OnlyDeployed(NewUnits, DOMAIN NewUnits \ loop.create)

DeploymentInv == faults = 0 => SettledInv /\ RemovalInv /\ CreationInv

\* A unit that is about to lose its mark has been created.
MarkedInv ==
    /\ ReplacedUnitsAreMarked
    /\ loop.pc = "create" /\ faults = 0 =>
          \A n \in loop.marking : unit[n].rootfs # NoImage

\* The creation loop starts with all of ToCreate and ends with none of it.
CreateListInv ==
    /\ loop.pc = "remove" => loop.create = ToCreate(SpecOf(loop.id))
    /\ loop.pc = "wait" => loop.create = {}

\* What was created for the update being applied has its image.
CreatedInv ==
    loop.pc \in {"create", "wait"} =>
        \A k \in ToCreate(SpecOf(loop.id)) \ loop.create :
           unit[NewUnits[k].name].rootfs = NewUnits[k].image

\* So has what the goroutine of the last update the loop took is still to start.
\* The goroutines of earlier updates may find anything.
TodoInv ==
    loop.id \in DOMAIN updates =>
        \A k \in updates[loop.id].todo :
           unit[NewUnits[k].name].rootfs = NewUnits[k].image

NothingToDoInv == \A u \in DOMAIN updates : ~Spawned(u) => updates[u].todo = {}

ImagesInv == CreatedInv /\ TodoInv /\ NothingToDoInv

\* Names of init units.
InitName(n) == \E s \in Specs : \E j \in DOMAIN s.inits : s.inits[j].name = n

\* The update being applied removes the init units and starts them again.
Replacing == loop.pc \in {"remove", "create", "wait"} /\ Event # "units_changed"

\* The init units that the goroutine of update u has behind it exited with 0, but
\* for one that it runs again because it is listed twice.
Finished(u) ==
    \A j \in DOMAIN SpecOf(u).inits : j < updates[u].next =>
        \/ ExitSeen(SpecOf(u).inits[j].name, "ok")
        \/ /\ updates[u].pc \in {"wait", "gone"}
           /\ SpecOf(u).inits[j].name = CurrentInit(u)

\* RunningUnits knows the helper of an init unit, and a goroutine waits for it or
\* gave up on it.
InitHelpersInv ==
    \A n \in Names : InitName(n) =>
        /\ ~unit[n].orphan
        /\ unit[n].helper # NoHelper =>
              \E u \in DOMAIN updates :
                 updates[u].pc \in {"wait", "gone"} /\ CurrentInit(u) = n

\* The newest goroutine is about the init units of podStatus, and is done with
\* the ones it has behind it. There is none only as long as podStatus is empty.
NewestInv ==
    /\ \A u \in DOMAIN updates : NewestSpawned(u) =>
          /\ SpecOf(u).inits = podStatus.inits
          /\ ~Replacing => Finished(u)
          /\ updates[u].pc = "done" => ~MoreInits(u)
    /\ \/ podStatus.inits = <<>> /\ podStatus.units = <<>>
       \/ \E u \in DOMAIN updates : NewestSpawned(u)

InitsInv == faults = 0 => InitHelpersInv /\ NewestInv

-------------------------------------------------------------------------------
(* What the steps do to the root file systems.                             *)

RootfsKept == \A n \in Names : unit'[n].rootfs = unit[n].rootfs

\* The goroutines never touch a root file system.
LEMMA StarterKeepsRootfs ==
    ASSUME TypeOK, NEW u \in DOMAIN updates, Starter(u)
    PROVE  RootfsKept
<1>1. \A n \in Names : unit[n] \in UnitState
  BY DEF TypeOK
<1>2. unit \in [Names -> UnitState]
  BY DEF TypeOK
<1>3. ASSUME UNCHANGED unit PROVE RootfsKept
  BY <1>3 DEF RootfsKept
<1>4. ASSUME NEW m, NEW policy, unit' = Started(m, policy) PROVE RootfsKept
  BY <1>1, <1>2, <1>4 DEF Started, RootfsKept, UnitState
<1>5. QED BY <1>3, <1>4 DEF Starter, StartInitUnit, InitUnitSucceeded,
               GiveUpOnInit, StartMainUnit, FinishStart, AbortStart

\* Neither do the helpers.
LEMMA HelperKeepsRootfs ==
    ASSUME TypeOK, NEW n \in Names, Helper(n)
    PROVE  RootfsKept
<1>1. unit \in [Names -> UnitState] /\ \A m \in Names : unit[m] \in UnitState
  BY DEF TypeOK
<1>2. QED BY <1>1 DEF Helper, HelperFails, CommandExits, OrphanExits, RootfsKept,
               UnitState

\* A removal that does not fail takes the root file system of one unit.
LEMMA RemoveEffect ==
    ASSUME TypeOK, PositionsInv, NEW i \in loop.remove, RemoveContainer(i)
    PROVE  /\ i \in ToRemove(SpecOf(loop.id)) /\ RemovalList[i].name \in Names
           /\ faults' = 0 =>
                /\ UNCHANGED <<updates, podStatus>>
                /\ loop'.pc = "remove" /\ loop'.id = loop.id
                /\ loop'.create = loop.create
                /\ loop'.remove = loop.remove \ {i}
                /\ faults = 0
                /\ \A n \in Names : unit'[n].rootfs =
                      IF n = RemovalList[i].name THEN NoImage ELSE unit[n].rootfs
                /\ loop'.marking = ToMark(RemovalList[i].name)
                /\ loop.marking = {} /\ UNCHANGED restarting
<1>1. loop.id \in DOMAIN updates /\ loop.pc = "remove"
  BY DEF RemoveContainer, TypeOK
<1>2. i \in ToRemove(SpecOf(loop.id)) /\ RemovalList[i].name \in Names
  BY <1>1, RemovalListType DEF PositionsInv
<1>3. unit \in [Names -> UnitState] /\ \A n \in Names : unit[n] \in UnitState
  BY DEF TypeOK
<1>4. faults \in Nat
  BY BoundsAssumption DEF TypeOK
<1>5. SUFFICES ASSUME faults' = 0
               PROVE  /\ UNCHANGED <<updates, podStatus>>
                      /\ loop'.pc = "remove" /\ loop'.id = loop.id
                      /\ loop'.create = loop.create
                      /\ loop'.remove = loop.remove \ {i}
                      /\ faults = 0
                      /\ \A n \in Names : unit'[n].rootfs =
                            IF n = RemovalList[i].name THEN NoImage ELSE unit[n].rootfs
                      /\ loop'.marking = ToMark(RemovalList[i].name)
                      /\ loop.marking = {} /\ UNCHANGED restarting
  BY <1>2
<1>6. /\ UNCHANGED <<updates, podStatus, faults, restarting>> /\ loop.marking = {}
      /\ unit' = [unit EXCEPT ![RemovalList[i].name] = Removed(@)]
      /\ loop' = [loop EXCEPT !.remove = @ \ {i},
                               !.marking = ToMark(RemovalList[i].name)]
  BY <1>4, <1>5 DEF RemoveContainer, NoFault, MayFail
<1>7. \A n \in Names : unit'[n].rootfs =
         IF n = RemovalList[i].name THEN NoImage ELSE unit[n].rootfs
  BY <1>2, <1>3, <1>6 DEF Removed, UnitState
<1>8. QED BY <1>1, <1>5, <1>6, <1>7, ChanType

\* A creation deploys the image of one unit, unless it fails and the update
\* ends.
LEMMA CreateEffect ==
    ASSUME TypeOK, PositionsInv, NEW i \in loop.create, CreateContainer(i)
    PROVE  /\ loop.id \in DOMAIN updates
           /\ i \in DOMAIN NewUnits /\ NewUnits[i] \in Unit
           /\ UNCHANGED updates /\ loop'.id = loop.id
           /\ \/ loop'.pc = "check" /\ faults' # 0
              \/ /\ loop'.pc = "create" /\ faults' = faults
                 /\ UNCHANGED podStatus
                 /\ loop'.create = loop.create \ {i}
                 /\ \A n \in Names : unit'[n].rootfs =
                       IF n = NewUnits[i].name THEN NewUnits[i].image
                       ELSE unit[n].rootfs
                 /\ loop'.marking = ToMark(NewUnits[i].name)
                 /\ loop.marking = {} /\ UNCHANGED restarting
<1>1. loop.id \in DOMAIN updates /\ loop.pc = "create"
  BY DEF CreateContainer, TypeOK
<1>2. i \in DOMAIN NewUnits /\ NewUnits[i] \in Unit
  BY <1>1, UpdateType, UnitNameType DEF PositionsInv, NewUnits
<1>3. unit \in [Names -> UnitState] /\ \A n \in Names : unit[n] \in UnitState
  BY DEF TypeOK
<1>4. faults \in Nat
  BY BoundsAssumption DEF TypeOK
<1>5. ASSUME unit' = [unit EXCEPT ![NewUnits[i].name].rootfs = NewUnits[i].image]
      PROVE  \A n \in Names : unit'[n].rootfs =
                IF n = NewUnits[i].name THEN NewUnits[i].image ELSE unit[n].rootfs
  BY <1>2, <1>3, <1>5 DEF UnitState, Unit
<1>6. UNCHANGED updates /\ loop'.id = loop.id
  BY ApplyFrame DEF CreateContainer
<1>7. \/ loop' = [loop EXCEPT !.pc = "check", !.remove = {}, !.create = {}] /\ faults' # 0
      \/ /\ NoFault /\ UNCHANGED podStatus
         /\ unit' = [unit EXCEPT ![NewUnits[i].name].rootfs = NewUnits[i].image]
         /\ loop' = [loop EXCEPT !.create = @ \ {i},
                                  !.marking = ToMark(NewUnits[i].name)]
         /\ loop.marking = {} /\ UNCHANGED restarting
  <2>1. CASE NoFault /\ UNCHANGED podStatus
    <3>1. ~MayFail
      BY <1>4, <2>1 DEF NoFault, MayFail
    <3>2. QED BY <2>1, <3>1, ZenonT(30) DEF CreateContainer, NewUnits
  <2>2. CASE ~(NoFault /\ UNCHANGED podStatus)
    <3>1. MayFail /\ CreationFailed(i)
      BY <2>2 DEF CreateContainer
    <3>2. QED BY <1>4, <3>1 DEF MayFail, CreationFailed, FinishUpdate
  <2>3. QED BY <2>1, <2>2
<1>8. CASE loop' = [loop EXCEPT !.pc = "check", !.remove = {}, !.create = {}] /\ faults' # 0
  BY <1>1, <1>2, <1>6, <1>8, ChanType
<1>9. CASE /\ NoFault /\ UNCHANGED podStatus
           /\ unit' = [unit EXCEPT ![NewUnits[i].name].rootfs = NewUnits[i].image]
           /\ loop' = [loop EXCEPT !.create = @ \ {i},
                                    !.marking = ToMark(NewUnits[i].name)]
           /\ loop.marking = {} /\ UNCHANGED restarting
  BY <1>1, <1>2, <1>5, <1>6, <1>9, ChanType DEF NoFault
<1>10. QED BY <1>7, <1>8, <1>9

-------------------------------------------------------------------------------
(* The deployed units.                                                     *)

\* What an update loop still has to do, which marking a unit does not change.
SamePlace ==
    /\ loop'.pc = loop.pc /\ loop'.id = loop.id
    /\ loop'.remove = loop.remove /\ loop'.create = loop.create

LEMMA MarkEffect ==
    ASSUME TypeOK, MarkRestarting
    PROVE  /\ SamePlace
           /\ loop.pc \in {"remove", "create"}
           /\ UNCHANGED <<updates, podStatus, unit, faults, syncErrors>>
BY DEF TypeOK, MarkRestarting, SamePlace

\* A specification of an update, and podStatus, list no name twice.
LEMMA NamesAreDistinct ==
    ASSUME TypeOK, DistinctNames
    PROVE  /\ \A u \in DOMAIN updates : \A j, k \in DOMAIN SpecOf(u).units :
                 SpecOf(u).units[j].name = SpecOf(u).units[k].name => j = k
           /\ \A j, k \in DOMAIN podStatus.units :
                 podStatus.units[j].name = podStatus.units[k].name => j = k
<1>1. \A u \in DOMAIN updates : SpecOf(u) \in Specs
  BY UpdateType DEF Update, SpecOf
<1>2. podStatus \in Specs \/ DOMAIN podStatus.units = {}
  BY DEF TypeOK, EmptyStatus
<1>3. QED BY <1>1, <1>2 DEF DistinctNames

\* The positions a change of units neither deletes nor adds hold the same unit
\* before and after; any other change keeps no unit.
LEMMA KeptUnits ==
    ASSUME TypeOK, loop.id \in DOMAIN updates
    PROVE  /\ KeptPositions = DOMAIN NewUnits \ ToCreate(SpecOf(loop.id))
           /\ \A k \in KeptPositions :
                 /\ k \in DOMAIN podStatus.units /\ k \in DOMAIN NewUnits
                 /\ NewUnits[k].name = podStatus.units[k].name
                 /\ NewUnits[k].image = podStatus.units[k].image
BY DEF KeptPositions, ToCreate, ToAdd, ToDelete, Differing, UnitsEqual, NewUnits,
       Event

\* The first elements of a concatenation.
LEMMA ConcatenatedPrefix ==
    ASSUME NEW S, NEW s \in Seq(S), NEW t \in Seq(S), NEW k \in DOMAIN s
    PROVE  /\ (s \o t \o s)[k] = s[k]
           /\ k \in 1 .. 2 * Len(s) + Len(t)
<1>1. Len(s) \in Nat /\ Len(t) \in Nat /\ k \in 1 .. Len(s)
  BY LenProperties
<1>2. /\ s \o t \in Seq(S) /\ Len(s \o t) = Len(s) + Len(t)
      /\ (s \o t)[k] = s[k]
  BY <1>1, ConcatProperties
<1>3. k \in 1 .. Len(s \o t)
  BY <1>1, <1>2
<1>4. ((s \o t) \o s)[k] = (s \o t)[k]
  BY <1>1, <1>2, <1>3, ConcatProperties
<1>5. QED BY <1>1, <1>2, <1>4

\* Whatever the status lists is kept or removed.
LEMMA KeptOrRemoved ==
    ASSUME TypeOK, NEW spec, NEW k \in DOMAIN podStatus.units,
           DetectChangeType(spec, podStatus) \notin {"no_changes", "units_changed"}
    PROVE  /\ DetectChangeType(spec, podStatus) = "pod_restart"
           /\ k \in ToRemove(spec)
           /\ (podStatus.units \o podStatus.inits \o podStatus.units)[k]
                = podStatus.units[k]
<1>1. podStatus.units \in Seq(Unit) /\ podStatus.inits \in Seq(Unit)
  BY StatusType DEF PodSpec
<1>2. CASE DetectChangeType(spec, podStatus) = "pod_restart"
  BY <1>1, <1>2, ConcatenatedPrefix DEF ToRemove
<1>3. CASE DetectChangeType(spec, podStatus) = "pod_created"
  <2>1. podStatus.units = <<>>
    BY <1>3 DEF DetectChangeType
  <2>2. QED BY <2>1
<1>4. QED BY <1>2, <1>3 DEF DetectChangeType

\* What a step that keeps the update being applied, the status and the root
\* file systems leaves true.
LEMMA DeploymentKept ==
    ASSUME TypeOK, DeploymentInv, RootfsKept,
           SamePlace, UNCHANGED podStatus, faults' = 0 => faults = 0,
           loop.id \in DOMAIN updates =>
              /\ loop.id \in DOMAIN updates'
              /\ updates'[loop.id].spec = updates[loop.id].spec
    PROVE  DeploymentInv'
<1> SUFFICES ASSUME faults' = 0
             PROVE  SettledInv' /\ RemovalInv' /\ CreationInv'
  BY DEF DeploymentInv
<1>1. SettledInv /\ RemovalInv /\ CreationInv
  BY DEF DeploymentInv
<1> DEFINE us == podStatus.units
<1>2. \A k \in DOMAIN us : us[k].name \in Names
  BY StatusType, UnitNameType DEF Unit
<1> USE DEF SamePlace
<1>3. SettledInv'
  BY <1>1, <1>2 DEF SettledInv, OnlyDeployed, RootfsKept
<1>4. loop.pc \in {"remove", "create", "wait"} => SpecOf(loop.id)' = SpecOf(loop.id)
  BY DEF TypeOK, SpecOf
<1>5. RemovalInv'
  <2> SUFFICES ASSUME loop.pc = "remove" PROVE RemovalInv'
    BY DEF RemovalInv
  <2>1. KeptPositions' = KeptPositions /\ RemovalList' = RemovalList
    BY <1>4 DEF KeptPositions, RemovalList, Event, ToDelete
  <2>2. KeptPositions \subseteq DOMAIN us
    BY DEF KeptPositions
  <2>3. QED BY <1>1, <1>2, <2>1, <2>2 DEF RemovalInv, RootfsKept
<1>6. CreationInv'
  <2> SUFFICES ASSUME loop.pc \in {"create", "wait"} PROVE CreationInv'
    BY DEF CreationInv
  <2>1. NewUnits' = NewUnits /\ DOMAIN NewUnits' = DOMAIN NewUnits
    BY <1>4 DEF NewUnits
  <2>2. \A k \in DOMAIN NewUnits : NewUnits[k].name \in Names
    BY UpdateType, UnitNameType DEF TypeOK, NewUnits, Unit
  <2>3. QED BY <1>1, <2>1, <2>2 DEF CreationInv, OnlyDeployed, RootfsKept
<1>7. QED BY <1>3, <1>5, <1>6

LEMMA DeploymentStep ==
    ASSUME DistinctNames, IInv, CreateListInv, DeploymentInv, [Next]_vars
    PROVE  DeploymentInv'
<1> USE DEF IInv
<1>1. /\ loop \in [pc : {"check", "receive", "remove", "create", "wait"},
                   id : Nat, seen : Nat, remove : SUBSET Nat, create : SUBSET Nat,
                   marking : SUBSET Names]
      /\ loop.pc \in {"remove", "create", "wait"} => loop.id \in DOMAIN updates
  BY DEF TypeOK
<1>2. faults \in Nat
  BY BoundsAssumption DEF TypeOK
<1>3. RootfsKept \/ ~UNCHANGED unit
  BY DEF RootfsKept
<1>4. ASSUME NEW h \in Handlers, CheckRoom(h) PROVE DeploymentInv'
  BY <1>3, <1>4, DeploymentKept DEF SamePlace, CheckRoom
<1>5. ASSUME NEW h \in Handlers, NEW s \in Specs, Send(h, s) PROVE DeploymentInv'
  <2>1. updates' = Append(updates, NewUpdate(s))
        /\ UNCHANGED <<loop, podStatus, unit, faults>>
    BY <1>5 DEF Send
  <2>2. updates \in Seq(Update) /\ NewUpdate(s) \in Update
    BY DEF TypeOK, NewUpdate, Update, StarterPCs
  <2>3. \A u \in DOMAIN updates : u \in DOMAIN updates' /\ updates'[u] = updates[u]
    BY <2>1, <2>2, AppendProperties, LenProperties
  <2>4. QED BY <1>3, <2>1, <2>3, DeploymentKept DEF SamePlace
<1>6. CASE DropOutdated
  BY <1>3, <1>6, DeploymentKept DEF SamePlace, DropOutdated
<1>7. CASE StopDropping
  BY <1>1, <1>7 DEF StopDropping, DeploymentInv, SettledInv, RemovalInv,
                    CreationInv, OnlyDeployed
<1>8. CASE Receive
  <2> SUFFICES ASSUME faults = 0
               PROVE  SettledInv' /\ RemovalInv' /\ CreationInv'
    BY <1>8 DEF Receive, DeploymentInv
  <2>1. /\ UNCHANGED <<updates, unit>> /\ loop.pc = "receive"
        /\ loop'.id = Head(updateChan) /\ Head(updateChan) \in DOMAIN updates
    <3>1. updateChan \in Seq(DOMAIN updates) /\ updateChan # <<>>
      BY <1>8 DEF TypeOK, Receive
    <3>2. QED BY <1>1, <1>8, <3>1, HeadTailProperties DEF Receive
  <2> DEFINE spec == SpecOf(Head(updateChan))
  <2>2. OnlyDeployed(podStatus.units, DOMAIN podStatus.units)
    BY <2>1 DEF DeploymentInv, SettledInv
  <2>3. spec \in PodSpec /\ podStatus \in PodSpec
    BY <2>1, UpdateType, StatusType
  <2>4. SpecOf(loop.id)' = spec
    BY <2>1 DEF SpecOf
  <2>5. CASE DetectChangeType(spec, podStatus) = "no_changes"
    <3>1. loop'.pc = "check" /\ podStatus' = spec
      BY <1>1, <1>8, <2>5 DEF Receive
    <3>2. spec.units = podStatus.units
      BY <2>3, <2>5, NoChangesMeansEqual
    <3>3. QED BY <2>1, <2>2, <3>1, <3>2
              DEF SettledInv, RemovalInv, CreationInv, OnlyDeployed
  <2>6. CASE DetectChangeType(spec, podStatus) # "no_changes"
    <3>1. loop'.pc = "remove" /\ podStatus' = podStatus
          /\ loop'.remove = ToRemove(spec)
      BY <1>1, <1>8, <2>6 DEF Receive
    <3>2. Event' = DetectChangeType(spec, podStatus)
      BY <2>4, <3>1 DEF Event
    <3>3. loop'.remove = ToRemove(SpecOf(loop.id))'
      BY <2>4, <3>1 DEF ToRemove, ToDelete
    <3>4. KeptPositions' = IF DetectChangeType(spec, podStatus) = "units_changed"
                           THEN DOMAIN podStatus.units \ ToDelete(spec, podStatus)
                           ELSE {}
      BY <2>4, <3>1, <3>2 DEF KeptPositions
    <3>5. \A k \in DOMAIN podStatus.units :
             \/ k \in KeptPositions'
             \/ \E j \in loop'.remove : RemovalList'[j].name = podStatus.units[k].name
      <4>1. CASE DetectChangeType(spec, podStatus) = "units_changed"
        BY <3>1, <3>2, <3>4, <4>1 DEF ToRemove, RemovalList
      <4>2. CASE DetectChangeType(spec, podStatus) # "units_changed"
        BY <2>6, <3>1, <3>2, <4>2, KeptOrRemoved DEF RemovalList
      <4>3. QED BY <4>1, <4>2
    <3>6. KeptPositions' \subseteq DOMAIN podStatus.units
      BY <3>1 DEF KeptPositions
    <3>7. RemovalInv'
      BY <2>1, <2>2, <3>1, <3>5, <3>6 DEF RemovalInv, OnlyDeployed
    <3>8. QED BY <3>1, <3>7 DEF SettledInv, CreationInv
  <2>7. QED BY <2>5, <2>6
<1>9. ASSUME NEW i \in loop.remove, RemoveContainer(i) PROVE DeploymentInv'
  <2> SUFFICES ASSUME faults' = 0
               PROVE  SettledInv' /\ RemovalInv' /\ CreationInv'
    BY DEF DeploymentInv
  <2> DEFINE name == RemovalList[i].name
  <2>1. /\ UNCHANGED <<updates, podStatus>> /\ i \in ToRemove(SpecOf(loop.id))
        /\ loop'.pc = "remove" /\ loop'.id = loop.id
        /\ loop'.remove = loop.remove \ {i}
        /\ faults = 0 /\ loop.pc = "remove"
        /\ \A n \in Names : unit'[n].rootfs =
              IF n = name THEN NoImage ELSE unit[n].rootfs
    BY <1>9, RemoveEffect DEF RemoveContainer
  <2>2. loop.id \in DOMAIN updates /\ RemovalInv
    BY <1>1, <2>1 DEF DeploymentInv
  <2>3. KeptPositions' = KeptPositions /\ RemovalList' = RemovalList
    BY <2>1 DEF KeptPositions, RemovalList, Event, ToDelete, SpecOf
  <2>4. \A k \in KeptPositions :
           /\ k \in DOMAIN podStatus.units
           /\ podStatus.units[k].name \in Names
           /\ podStatus.units[k].name # name
    <3>1. TAKE k \in KeptPositions
    <3>2. /\ k \in DOMAIN podStatus.units /\ Event = "units_changed"
          /\ k \notin ToDelete(SpecOf(loop.id), podStatus)
      BY DEF KeptPositions
    <3>3. podStatus.units[k].name \in Names
      BY <3>2, StatusType, UnitNameType DEF Unit
    <3>4. i \in ToDelete(SpecOf(loop.id), podStatus) /\ RemovalList = podStatus.units
      BY <2>1, <3>2 DEF ToRemove, Event, RemovalList
    <3>5. i \in DOMAIN podStatus.units /\ i # k
      BY <3>2, <3>4 DEF ToDelete, Differing
    <3>6. QED BY <3>2, <3>3, <3>4, <3>5, NamesAreDistinct
  <2>5. \A k \in KeptPositions :
           unit'[podStatus.units[k].name].rootfs = podStatus.units[k].image
    BY <2>1, <2>2, <2>4 DEF RemovalInv
  <2>6. \A n \in Names : unit'[n].rootfs # NoImage =>
              \/ \E k \in KeptPositions : podStatus.units[k].name = n
              \/ \E k \in loop'.remove : RemovalList[k].name = n
    BY <2>1, <2>2 DEF RemovalInv
  <2>7. QED BY <2>1, <2>3, <2>5, <2>6 DEF SettledInv, RemovalInv, CreationInv
<1>10. CASE PrepareSandbox
  <2> SUFFICES ASSUME faults' = 0
               PROVE  SettledInv' /\ RemovalInv' /\ CreationInv'
    BY DEF DeploymentInv
  <2>1. /\ loop.pc = "remove" /\ loop.remove = {} /\ faults = 0
        /\ loop' = [loop EXCEPT !.pc = "create"]
        /\ UNCHANGED <<updates, podStatus, unit>>
    BY <1>2, <1>10 DEF PrepareSandbox, NoFault, MayFail
  <2>2. loop'.pc = "create" /\ loop'.id = loop.id
        /\ loop'.create = ToCreate(SpecOf(loop.id))
    BY <1>1, <2>1 DEF CreateListInv
  <2>3. loop.id \in DOMAIN updates /\ RemovalInv
    BY <1>1, <2>1 DEF DeploymentInv
  <2>4. /\ KeptPositions = DOMAIN NewUnits \ ToCreate(SpecOf(loop.id))
        /\ \A k \in KeptPositions :
              /\ NewUnits[k].name = podStatus.units[k].name
              /\ NewUnits[k].image = podStatus.units[k].image
    BY <2>3, KeptUnits
  <2>5. OnlyDeployed(NewUnits, KeptPositions)
    BY <2>1, <2>3, <2>4 DEF RemovalInv, OnlyDeployed
  <2>6. CreationInv'
    <3>1. NewUnits' = NewUnits
      BY <2>1, <2>2 DEF NewUnits, SpecOf
    <3>2. (DOMAIN NewUnits \ loop.create)' = KeptPositions
      BY <2>2, <2>4, <3>1
    <3>3. OnlyDeployed(NewUnits, DOMAIN NewUnits \ loop.create)'
      BY <2>1, <2>5, <3>1, <3>2 DEF OnlyDeployed
    <3>4. QED BY <3>3 DEF CreationInv
  <2>7. QED BY <2>2, <2>6 DEF SettledInv, RemovalInv
<1>11. ASSUME NEW i \in loop.create, CreateContainer(i) PROVE DeploymentInv'
  <2> SUFFICES ASSUME faults' = 0
               PROVE  SettledInv' /\ RemovalInv' /\ CreationInv'
    BY DEF DeploymentInv
  <2>1. /\ UNCHANGED <<updates, podStatus>> /\ loop.id \in DOMAIN updates
        /\ i \in DOMAIN NewUnits /\ NewUnits[i] \in Unit
        /\ loop.pc = "create" /\ loop'.pc = "create" /\ loop'.id = loop.id
        /\ faults = 0 /\ loop'.create = loop.create \ {i}
        /\ \A n \in Names : unit'[n].rootfs =
              IF n = NewUnits[i].name THEN NewUnits[i].image ELSE unit[n].rootfs
    BY <1>11, CreateEffect DEF CreateContainer
  <2>2. OnlyDeployed(NewUnits, DOMAIN NewUnits \ loop.create)
    BY <2>1 DEF DeploymentInv, CreationInv
  <2>3. NewUnits' = NewUnits
    BY <2>1 DEF NewUnits, SpecOf
  <2>4. \A k \in DOMAIN NewUnits : /\ NewUnits[k].name \in Names
                                   /\ NewUnits[k].name = NewUnits[i].name => k = i
    BY <2>1, UpdateType, UnitNameType, NamesAreDistinct DEF NewUnits, Unit
  <2>5. \A k \in DOMAIN NewUnits \ loop'.create :
           unit'[NewUnits[k].name].rootfs = NewUnits[k].image
    BY <2>1, <2>2, <2>4 DEF OnlyDeployed
  <2>6. \A n \in Names : unit'[n].rootfs # NoImage =>
              \E k \in DOMAIN NewUnits \ loop'.create : NewUnits[k].name = n
    BY <2>1, <2>2 DEF OnlyDeployed
  <2>7. CreationInv'
    BY <2>3, <2>5, <2>6 DEF CreationInv, OnlyDeployed
  <2>8. QED BY <2>1, <2>7 DEF SettledInv, RemovalInv
<1>12. CASE CancelPrevious
  <2> SUFFICES ASSUME faults = 0
               PROVE  SettledInv' /\ RemovalInv' /\ CreationInv'
    BY <1>12 DEF CancelPrevious, DeploymentInv
  <2>1. /\ loop.pc = "create" /\ loop'.pc = "wait" /\ loop'.id = loop.id
        /\ loop'.create = loop.create /\ UNCHANGED unit
    BY <1>1, <1>12 DEF CancelPrevious
  <2>2. SpecOf(loop.id)' = SpecOf(loop.id)
    BY <1>1, <1>12, <2>1, LoopFrame DEF SameUpdates, SpecOf, UpdateLoop
  <2>3. CreationInv'
    BY <2>1, <2>2 DEF DeploymentInv, CreationInv, NewUnits, OnlyDeployed
  <2>4. QED BY <2>1, <2>3 DEF SettledInv, RemovalInv
<1>13. CASE SpawnStarter
  <2> SUFFICES ASSUME faults = 0
               PROVE  SettledInv' /\ RemovalInv' /\ CreationInv'
    BY <1>13 DEF SpawnStarter, DeploymentInv
  <2>1. /\ loop.pc = "wait" /\ loop'.pc = "check" /\ UNCHANGED unit
        /\ podStatus'.units = NewUnits /\ loop.create = {}
    BY <1>1, <1>13 DEF SpawnStarter, FinishUpdate, NewUnits, CreateListInv
  <2>2. OnlyDeployed(NewUnits, DOMAIN NewUnits)
    BY <2>1 DEF DeploymentInv, CreationInv
  <2>3. QED BY <2>1, <2>2 DEF SettledInv, RemovalInv, CreationInv, OnlyDeployed
<1>14. ASSUME NEW u \in DOMAIN updates, Starter(u) PROVE DeploymentInv'
  <2>1. RootfsKept /\ SameUpdates /\ UNCHANGED <<loop, podStatus>>
    BY <1>14, StarterKeepsRootfs, StarterFrame DEF loopVars
  <2>2. faults' = 0 => faults = 0
    BY <1>2, <1>14 DEF Starter, StartInitUnit, InitUnitSucceeded, GiveUpOnInit,
                      StartMainUnit, FinishStart, AbortStart, NoFault, MayFail
  <2>3. QED BY <2>1, <2>2, DeploymentKept DEF SamePlace, SameUpdates
<1>15. ASSUME NEW n \in Names, Helper(n) PROVE DeploymentInv'
  <2>1. RootfsKept /\ UNCHANGED <<loop, podStatus, updates, faults>>
    BY <1>15, HelperKeepsRootfs, HelperFrame DEF loopVars
  <2>2. QED BY <2>1, DeploymentKept DEF SamePlace
<1>16. CASE UNCHANGED vars
  BY <1>3, <1>16, DeploymentKept DEF SamePlace, vars
<1>17. CASE MarkRestarting
  BY <1>3, <1>17, MarkEffect, DeploymentKept
<1>18. QED BY <1>4, <1>5, <1>6, <1>7, <1>8, <1>9, <1>10, <1>11, <1>12, <1>13,
             <1>14, <1>15, <1>16, <1>17 DEF Next, UpdateLoop

\* The creation loop starts with all of ToCreate and ends with none of it.
LEMMA CreateListStep ==
    ASSUME IInv, CreateListInv, [Next]_vars
    PROVE  CreateListInv'
<1> USE DEF IInv
<1>1. /\ loop \in [pc : {"check", "receive", "remove", "create", "wait"},
                   id : Nat, seen : Nat, remove : SUBSET Nat, create : SUBSET Nat,
                   marking : SUBSET Names]
      /\ loop.pc \in {"remove", "create", "wait"} => loop.id \in DOMAIN updates
  BY DEF TypeOK
<1>2. ASSUME UNCHANGED <<loop, podStatus>>,
             \A u \in DOMAIN updates : updates'[u].spec = updates[u].spec
      PROVE  CreateListInv'
  BY <1>1, <1>2 DEF CreateListInv, ToCreate, ToAdd, SpecOf
<1>3. ASSUME NEW h \in Handlers, CheckRoom(h) PROVE CreateListInv'
  BY <1>2, <1>3 DEF CheckRoom
<1>4. ASSUME NEW h \in Handlers, NEW s \in Specs, Send(h, s) PROVE CreateListInv'
  <2>1. updates' = Append(updates, NewUpdate(s)) /\ UNCHANGED <<loop, podStatus>>
    BY <1>4 DEF Send
  <2>2. updates \in Seq(Update) /\ NewUpdate(s) \in Update
    BY DEF TypeOK, NewUpdate, Update, StarterPCs
  <2>3. \A u \in DOMAIN updates : updates'[u] = updates[u]
    BY <2>1, <2>2, AppendProperties, LenProperties
  <2>4. QED BY <1>2, <2>1, <2>3
<1>5. CASE DropOutdated \/ StopDropping
  BY <1>1, <1>2, <1>5 DEF DropOutdated, StopDropping, CreateListInv
<1>6. CASE Receive
  BY <1>1, <1>6 DEF Receive, CreateListInv, ToCreate, ToAdd, SpecOf
<1>7. CASE \/ \E i \in loop.remove : RemoveContainer(i)
           \/ MarkRestarting
           \/ PrepareSandbox
           \/ \E i \in loop.create : CreateContainer(i)
  <2>1. \/ loop'.pc \in {"check", "create"}
        \/ /\ loop.pc = "remove" /\ loop'.pc = "remove" /\ loop'.id = loop.id
           /\ loop'.create = loop.create /\ UNCHANGED <<updates, podStatus>>
    BY <1>1, <1>7 DEF RemoveContainer, MarkRestarting, PrepareSandbox,
                      CreateContainer, CreationFailed, FinishUpdate
  <2>2. QED BY <2>1 DEF CreateListInv, ToCreate, ToAdd, SpecOf
<1>8. CASE CancelPrevious \/ SpawnStarter
  BY <1>1, <1>8 DEF CancelPrevious, SpawnStarter, FinishUpdate, CreateListInv
<1>9. ASSUME NEW u \in DOMAIN updates, Starter(u) PROVE CreateListInv'
  BY <1>2, <1>9, StarterFrame DEF SameUpdates, loopVars
<1>10. ASSUME NEW n \in Names, Helper(n) PROVE CreateListInv'
  BY <1>2, <1>10, HelperFrame DEF loopVars
<1>11. CASE UNCHANGED vars
  BY <1>2, <1>11 DEF vars
<1>12. QED BY <1>3, <1>4, <1>5, <1>6, <1>7, <1>8, <1>9, <1>10, <1>11
              DEF Next, UpdateLoop

\* A unit that is removed is marked by the step that follows, and the unit that
\* loses its mark has been created.
LEMMA MarkedStep ==
    ASSUME IInv, DeploymentInv, MarkedInv, [Next]_vars
    PROVE  MarkedInv'
<1> USE DEF IInv
<1>1. /\ loop \in [pc : {"check", "receive", "remove", "create", "wait"},
                   id : Nat, seen : Nat, remove : SUBSET Nat, create : SUBSET Nat,
                   marking : SUBSET Names]
      /\ loop.pc \in {"remove", "create", "wait"} => loop.id \in DOMAIN updates
  BY DEF TypeOK
<1>2. faults \in Nat
  BY BoundsAssumption DEF TypeOK
<1>3. UnitNames(podStatus.units) \subseteq Names /\ loop.marking \subseteq Names
  BY <1>1, StatusType, UnitNameType DEF Unit, UnitNames
<1>4. ASSUME UNCHANGED <<loop, podStatus, restarting>>, faults' = 0 => faults = 0,
             RootfsKept,
             \A u \in DOMAIN updates : updates'[u].spec = updates[u].spec
      PROVE  MarkedInv'
  <2>1. loop.pc \in {"remove", "create"} => Event' = Event
    BY <1>1, <1>4 DEF Event, SpecOf
  <2>2. QED BY <1>3, <1>4, <2>1 DEF MarkedInv, ReplacedUnitsAreMarked, RootfsKept
<1>5. RootfsKept \/ ~UNCHANGED unit
  BY DEF RootfsKept
<1>6. ASSUME NEW h \in Handlers, CheckRoom(h) PROVE MarkedInv'
  BY <1>4, <1>5, <1>6 DEF CheckRoom
<1>7. ASSUME NEW h \in Handlers, NEW s \in Specs, Send(h, s)
      PROVE  MarkedInv'
  <2>1. updates' = Append(updates, NewUpdate(s))
        /\ UNCHANGED <<loop, podStatus, restarting, unit, faults>>
    BY <1>7 DEF Send
  <2>2. updates \in Seq(Update) /\ NewUpdate(s) \in Update
    BY DEF TypeOK, NewUpdate, Update, StarterPCs
  <2>3. \A u \in DOMAIN updates : updates'[u] = updates[u]
    BY <2>1, <2>2, AppendProperties, LenProperties
  <2>4. QED BY <1>4, <1>5, <2>1, <2>3
<1>8. CASE \/ DropOutdated \/ StopDropping \/ CancelPrevious \/ SpawnStarter
  <2>1. loop'.pc \notin {"remove", "create"}
    BY <1>1, <1>8 DEF DropOutdated, StopDropping, CancelPrevious, SpawnStarter,
                      FinishUpdate
  <2>2. QED BY <2>1 DEF MarkedInv, ReplacedUnitsAreMarked
<1>9. CASE Receive
  <2> SUFFICES ASSUME faults = 0, NEW n \in UnitNames(podStatus'.units),
                      loop'.pc = "remove"
               PROVE  unit'[n].rootfs # NoImage
    BY <1>1, <1>9 DEF Receive, MarkedInv, ReplacedUnitsAreMarked
  <2>1. UNCHANGED <<podStatus, unit>> /\ loop.pc = "receive"
    BY <1>1, <1>9 DEF Receive
  <2>2. PICK k \in DOMAIN podStatus.units : n = podStatus.units[k].name
    BY <2>1 DEF UnitNames
  <2>3. unit[n].rootfs = podStatus.units[k].image
    BY <2>1, <2>2 DEF DeploymentInv, SettledInv, OnlyDeployed
  <2>4. podStatus.units[k].image \in Images
    BY StatusType, UnitNameType DEF Unit
  <2>5. QED BY <2>1, <2>3, <2>4, NoImageAssumption
<1>10. ASSUME NEW i \in loop.remove, RemoveContainer(i)
       PROVE  MarkedInv'
  <2> SUFFICES ASSUME faults' = 0 PROVE MarkedInv'
    BY DEF MarkedInv, ReplacedUnitsAreMarked
  <2>1. /\ UNCHANGED <<updates, podStatus>> /\ loop'.id = loop.id
        /\ faults = 0 /\ loop.pc = "remove"
        /\ \A n \in Names : unit'[n].rootfs =
              IF n = RemovalList[i].name THEN NoImage ELSE unit[n].rootfs
        /\ loop'.pc = "remove" /\ loop'.marking = ToMark(RemovalList[i].name)
        /\ loop.marking = {} /\ UNCHANGED restarting
    BY <1>10, RemoveEffect DEF RemoveContainer
  <2>2. Event' = Event
    BY <2>1 DEF Event, SpecOf
  <2>3. QED BY <1>3, <2>1, <2>2 DEF MarkedInv, ReplacedUnitsAreMarked, ToMark
<1>11. CASE PrepareSandbox
  <2>1. \/ loop'.pc = "check"
        \/ /\ loop.pc = "remove" /\ loop'.id = loop.id /\ UNCHANGED faults
           /\ loop.marking = {} /\ loop'.marking = {}
           /\ UNCHANGED <<updates, podStatus, restarting, unit>>
    BY <1>1, <1>11 DEF PrepareSandbox, FinishUpdate, NoFault
  <2>2. QED BY <2>1 DEF MarkedInv, ReplacedUnitsAreMarked, Event, SpecOf
<1>12. ASSUME NEW i \in loop.create, CreateContainer(i)
       PROVE  MarkedInv'
  <2> SUFFICES ASSUME faults' = 0, loop'.pc # "check" PROVE MarkedInv'
    BY DEF MarkedInv, ReplacedUnitsAreMarked
  <2>1. /\ UNCHANGED <<updates, podStatus>> /\ loop'.id = loop.id
        /\ faults = 0 /\ loop.pc = "create" /\ NewUnits[i] \in Unit
        /\ \A n \in Names : unit'[n].rootfs =
              IF n = NewUnits[i].name THEN NewUnits[i].image ELSE unit[n].rootfs
        /\ loop'.pc = "create" /\ loop'.marking = ToMark(NewUnits[i].name)
        /\ UNCHANGED restarting
    BY <1>12, CreateEffect DEF CreateContainer
  <2>2. Event' = Event
    BY <2>1 DEF Event, SpecOf
  <2>3. NewUnits[i].image # NoImage /\ NewUnits[i].name \in Names
    BY <2>1, NoImageAssumption DEF Unit
  <2>4. QED BY <1>3, <2>1, <2>2, <2>3 DEF MarkedInv, ReplacedUnitsAreMarked, ToMark
<1>13. ASSUME NEW u \in DOMAIN updates, Starter(u) PROVE MarkedInv'
  <2>1. RootfsKept /\ SameUpdates /\ UNCHANGED <<loop, podStatus, restarting>>
    BY <1>13, StarterKeepsRootfs, StarterFrame DEF loopVars
  <2>2. faults' = 0 => faults = 0
    BY <1>2, <1>13 DEF Starter, StartInitUnit, InitUnitSucceeded, GiveUpOnInit,
                      StartMainUnit, FinishStart, AbortStart, NoFault, MayFail
  <2>3. QED BY <1>4, <2>1, <2>2 DEF SameUpdates
<1>14. ASSUME NEW n \in Names, Helper(n) PROVE MarkedInv'
  BY <1>4, <1>14, HelperKeepsRootfs, HelperFrame DEF loopVars
<1>15. CASE UNCHANGED vars
  BY <1>4, <1>5, <1>15 DEF vars
<1>16. CASE MarkRestarting
  <2>1. /\ UNCHANGED <<updates, podStatus, unit, faults>>
        /\ loop'.id = loop.id /\ loop'.pc = loop.pc /\ loop'.marking = {}
        /\ restarting' = Marked
    BY <1>1, <1>16 DEF MarkRestarting
  <2>2. Event' = Event
    BY <2>1 DEF Event, SpecOf
  <2>3. QED BY <1>3, <2>1, <2>2 DEF MarkedInv, ReplacedUnitsAreMarked, Marked
<1>17. QED BY <1>6, <1>7, <1>8, <1>9, <1>10, <1>11, <1>12, <1>13, <1>14, <1>15, <1>16
           DEF Next, UpdateLoop

-------------------------------------------------------------------------------
(* What the goroutines start, and what they report.                        *)

\* A step that keeps the update being applied, the status and the root file
\* systems, spawns nothing and takes nothing on keeps ImagesInv.
LEMMA ImagesKept ==
    ASSUME TypeOK, PositionsInv, CreatedInv, TodoInv, NothingToDoInv, RootfsKept,
           SamePlace, UNCHANGED podStatus, SameUpdates,
           \A u \in DOMAIN updates :
              /\ updates'[u].todo \subseteq updates[u].todo
              /\ updates'[u].pc = "none" => updates[u].pc = "none"
    PROVE  CreatedInv' /\ TodoInv' /\ NothingToDoInv'
<1> USE DEF SamePlace
<1>1. loop.pc \in {"create", "wait"} => loop.id \in DOMAIN updates
  BY DEF TypeOK
<1>2. loop.id \in DOMAIN updates =>
        /\ SpecOf(loop.id)' = SpecOf(loop.id) /\ NewUnits' = NewUnits
        /\ \A k \in DOMAIN NewUnits : NewUnits[k].name \in Names
        /\ ToCreate(SpecOf(loop.id)) \subseteq DOMAIN NewUnits
        /\ ToCreate(SpecOf(loop.id))' = ToCreate(SpecOf(loop.id))
        /\ updates[loop.id].todo \subseteq DOMAIN NewUnits
  BY UpdateType, UnitNameType, ToCreateType
     DEF SameUpdates, SpecOf, NewUnits, Unit, ToCreate, ToAdd, PositionsInv
<1>3. CreatedInv'
  BY <1>1, <1>2 DEF CreatedInv, RootfsKept
<1>4. TodoInv'
  BY <1>2 DEF TodoInv, RootfsKept, SameUpdates
<1>5. NothingToDoInv'
  BY DEF NothingToDoInv, Spawned, SameUpdates
<1>6. QED BY <1>3, <1>4, <1>5

LEMMA ImagesStep ==
    ASSUME DistinctNames, IInv, CreateListInv, ImagesInv, [Next]_vars
    PROVE  ImagesInv'
<1> USE DEF IInv
<1> SUFFICES CreatedInv' /\ TodoInv' /\ NothingToDoInv'
  BY DEF ImagesInv
<1>1. /\ loop \in [pc : {"check", "receive", "remove", "create", "wait"},
                   id : Nat, seen : Nat, remove : SUBSET Nat, create : SUBSET Nat,
                   marking : SUBSET Names]
      /\ loop.pc \in {"remove", "create", "wait"} =>
            /\ loop.id \in DOMAIN updates /\ ~Spawned(loop.id)
            /\ updates[loop.id].todo = {}
  BY DEF TypeOK, StarterInv, ImagesInv, NothingToDoInv
<1>2. CreatedInv /\ TodoInv /\ NothingToDoInv
  BY DEF ImagesInv
<1>3. RootfsKept \/ ~UNCHANGED unit
  BY DEF RootfsKept
<1>4. updates \in Seq(Update) /\ (SameUpdates \/ ~UNCHANGED updates)
  BY DEF TypeOK, SameUpdates
<1>5. ASSUME NEW h \in Handlers, CheckRoom(h)
      PROVE  CreatedInv' /\ TodoInv' /\ NothingToDoInv'
  BY <1>2, <1>3, <1>4, <1>5, ImagesKept DEF SamePlace, CheckRoom
<1>6. ASSUME NEW h \in Handlers, NEW s \in Specs, Send(h, s)
      PROVE  CreatedInv' /\ TodoInv' /\ NothingToDoInv'
  <2>1. updates' = Append(updates, NewUpdate(s))
        /\ UNCHANGED <<loop, podStatus, unit>>
    BY <1>6 DEF Send
  <2>2. NewUpdate(s) \in Update
    BY DEF NewUpdate, Update, StarterPCs
  <2>3. /\ DOMAIN updates' = DOMAIN updates \cup {Len(updates) + 1}
        /\ \A u \in DOMAIN updates : updates'[u] = updates[u]
        /\ updates'[Len(updates) + 1] = NewUpdate(s)
    BY <1>4, <2>1, <2>2, AppendProperties, LenProperties
  <2>4. loop.id \in DOMAIN updates' => loop.id \in DOMAIN updates
    BY <2>3, ChanType DEF TypeOK
  <2>5. loop.id \in DOMAIN updates => SpecOf(loop.id)' = SpecOf(loop.id)
    BY <2>1, <2>3 DEF SpecOf
  <2>6. CreatedInv'
    BY <1>1, <1>2, <2>1, <2>5 DEF CreatedInv, NewUnits, ToCreate, ToAdd
  <2>7. TodoInv'
    BY <1>2, <2>1, <2>3, <2>4, <2>5 DEF TodoInv, NewUnits
  <2>8. NothingToDoInv'
    BY <1>2, <2>3 DEF NothingToDoInv, Spawned, NewUpdate
  <2>9. QED BY <2>6, <2>7, <2>8
<1>7. CASE DropOutdated
  BY <1>2, <1>3, <1>4, <1>7, ImagesKept DEF SamePlace, DropOutdated
<1>8. CASE StopDropping
  BY <1>1, <1>2, <1>8
     DEF StopDropping, CreatedInv, TodoInv, NothingToDoInv, NewUnits, SpecOf, Spawned
<1>9. CASE Receive
  <2>1. /\ UNCHANGED <<updates, unit>> /\ loop'.pc \in {"check", "remove"}
        /\ loop'.id = Head(updateChan) /\ Head(updateChan) \in DOMAIN updates
    <3>1. updateChan \in Seq(DOMAIN updates) /\ updateChan # <<>>
      BY <1>9 DEF TypeOK, Receive
    <3>2. QED BY <1>1, <1>9, <3>1, HeadTailProperties DEF Receive
  <2>2. Head(updateChan) > loop.id
    <3>1. updateChan # <<>> BY <1>9 DEF Receive
    <3>2. QED BY <3>1, ChanType DEF ChanInv
  <2>3. ~Spawned(Head(updateChan))
    BY <1>1, <2>1, <2>2, ChanType DEF StarterInv
  <2>4. updates[Head(updateChan)].todo = {}
    BY <1>2, <2>1, <2>3 DEF NothingToDoInv
  <2>5. QED BY <1>2, <2>1, <2>4 DEF CreatedInv, TodoInv, NothingToDoInv, Spawned
<1>10. CASE \/ \E i \in loop.remove : RemoveContainer(i)
            \/ PrepareSandbox
  <2>1. UNCHANGED updates /\ loop'.id = loop.id /\ loop.pc = "remove"
    BY <1>1, <1>10 DEF RemoveContainer, PrepareSandbox, FinishUpdate
  <2>2. TodoInv' /\ NothingToDoInv'
    BY <1>1, <1>2, <2>1 DEF TodoInv, NothingToDoInv, Spawned
  <2>3. \/ loop'.pc \notin {"create", "wait"}
        \/ UNCHANGED podStatus /\ loop'.create = loop.create
    BY <1>1, <1>10 DEF RemoveContainer, PrepareSandbox, FinishUpdate
  <2>4. CreatedInv'
    BY <2>1, <2>3 DEF CreatedInv, CreateListInv, ToCreate, ToAdd, SpecOf
  <2>5. QED BY <2>2, <2>4
<1>11. ASSUME NEW i \in loop.create, CreateContainer(i)
       PROVE  CreatedInv' /\ TodoInv' /\ NothingToDoInv'
  <2>1. /\ UNCHANGED updates /\ loop'.id = loop.id /\ loop.pc = "create"
        /\ loop.id \in DOMAIN updates
        /\ i \in DOMAIN NewUnits /\ NewUnits[i] \in Unit
        /\ \/ loop'.pc = "check"
           \/ /\ UNCHANGED podStatus
              /\ loop'.create = loop.create \ {i}
              /\ \A n \in Names : unit'[n].rootfs =
                    IF n = NewUnits[i].name THEN NewUnits[i].image
                    ELSE unit[n].rootfs
    BY <1>11, CreateEffect DEF CreateContainer
  <2>2. TodoInv' /\ NothingToDoInv'
    BY <1>1, <1>2, <2>1 DEF TodoInv, NothingToDoInv, Spawned
  <2>3. CASE loop'.pc = "check"
    BY <2>2, <2>3 DEF CreatedInv
  <2>4. CASE loop'.pc # "check"
    <3>1. NewUnits' = NewUnits
          /\ ToCreate(SpecOf(loop.id))' = ToCreate(SpecOf(loop.id))
      BY <2>1, <2>4 DEF NewUnits, SpecOf, ToCreate, ToAdd
    <3>2. \A k \in DOMAIN NewUnits : /\ NewUnits[k].name \in Names
                                     /\ NewUnits[k].name = NewUnits[i].name => k = i
      BY <2>1, UpdateType, UnitNameType, NamesAreDistinct DEF NewUnits, Unit
    <3>3. ToCreate(SpecOf(loop.id)) \subseteq DOMAIN NewUnits
      BY <2>1, UpdateType, ToCreateType DEF NewUnits
    <3>4. \A k \in ToCreate(SpecOf(loop.id)) \ loop'.create :
             unit'[NewUnits[k].name].rootfs = NewUnits[k].image
      BY <1>2, <2>1, <2>4, <3>2, <3>3 DEF CreatedInv
    <3>5. CreatedInv'
      BY <3>1, <3>4 DEF CreatedInv
    <3>6. QED BY <2>2, <3>5
  <2>5. QED BY <2>3, <2>4
<1>12. CASE CancelPrevious
  <2>1. /\ loop.pc = "create" /\ loop'.pc = "wait" /\ loop'.id = loop.id
        /\ loop'.create = loop.create /\ UNCHANGED <<unit, podStatus>>
    BY <1>1, <1>12 DEF CancelPrevious
  <2>2. SameUpdates /\ SpecOf(loop.id)' = SpecOf(loop.id)
    BY <1>1, <1>12, <2>1, LoopFrame DEF SameUpdates, SpecOf, UpdateLoop
  <2>3. \A u \in DOMAIN updates : /\ updates'[u].todo = updates[u].todo
                                  /\ updates'[u].pc = updates[u].pc
    <3>1. \A u \in DOMAIN updates : updates[u] \in Update
      BY UpdateType
    <3>2. QED BY <1>12, <3>1 DEF CancelPrevious, Update
  <2>4. CreatedInv'
    BY <1>2, <2>1, <2>2 DEF CreatedInv, NewUnits, ToCreate, ToAdd
  <2>5. TodoInv'
    BY <1>1, <2>1, <2>3 DEF TodoInv
  <2>6. NothingToDoInv'
    BY <1>2, <2>2, <2>3 DEF NothingToDoInv, Spawned, SameUpdates
  <2>7. QED BY <2>4, <2>5, <2>6
<1>13. CASE SpawnStarter
  <2>1. /\ loop.pc = "wait" /\ loop'.pc = "check" /\ loop'.id = loop.id
        /\ UNCHANGED unit /\ loop.create = {} /\ loop.id \in DOMAIN updates
    BY <1>1, <1>13 DEF SpawnStarter, FinishUpdate, CreateListInv
  <2>2. SameUpdates
    BY <1>13, LoopFrame DEF UpdateLoop
  <2>3. /\ \A u \in DOMAIN updates \ {loop.id} : updates'[u] = updates[u]
        /\ updates'[loop.id].pc = "start"
        /\ updates'[loop.id].todo = ToCreate(SpecOf(loop.id))
    <3>1. updates[loop.id] \in Update
      BY <2>1, UpdateType
    <3>2. QED BY <1>4, <1>13, <2>1, <3>1 DEF SpawnStarter, Update
  <2>4. NewUnits' = NewUnits
    BY <2>1, <2>2 DEF NewUnits, SpecOf, SameUpdates
  <2>5. TodoInv'
    BY <1>2, <2>1, <2>3, <2>4 DEF TodoInv, CreatedInv
  <2>6. NothingToDoInv'
    BY <1>2, <2>2, <2>3 DEF NothingToDoInv, Spawned, SameUpdates
  <2>7. QED BY <2>1, <2>5, <2>6 DEF CreatedInv
<1>14. ASSUME NEW u \in DOMAIN updates, Starter(u)
       PROVE  CreatedInv' /\ TodoInv' /\ NothingToDoInv'
  <2>1. /\ RootfsKept /\ SameUpdates /\ UNCHANGED <<loop, podStatus>>
        /\ \A v \in DOMAIN updates \ {u} : updates'[v] = updates[v]
    BY <1>14, StarterKeepsRootfs, StarterFrame DEF loopVars
  <2>2. updates'[u].todo \subseteq updates[u].todo /\ updates[u].pc # "none"
        /\ updates'[u].pc # "none"
    <3>1. updates[u] \in Update
      BY UpdateType
    <3>2. QED BY <1>4, <1>14, <3>1 DEF Starter, StartInitUnit, InitUnitSucceeded,
                 GiveUpOnInit, StartMainUnit, FinishStart, AbortStart, Update
  <2>3. QED BY <1>2, <2>1, <2>2, ImagesKept DEF SamePlace
<1>15. ASSUME NEW n \in Names, Helper(n)
       PROVE  CreatedInv' /\ TodoInv' /\ NothingToDoInv'
  BY <1>2, <1>4, <1>15, HelperKeepsRootfs, HelperFrame, ImagesKept DEF SamePlace, loopVars
<1>16. CASE UNCHANGED vars
  BY <1>2, <1>3, <1>4, <1>16, ImagesKept DEF SamePlace, vars
<1>17. CASE MarkRestarting
  BY <1>2, <1>3, <1>4, <1>17, MarkEffect, ImagesKept
<1>18. QED BY <1>5, <1>6, <1>7, <1>8, <1>9, <1>10, <1>11, <1>12, <1>13, <1>14,
             <1>15, <1>16, <1>17 DEF Next, UpdateLoop

\* A goroutine that runs is the newest, so only its own failure decides what
\* AbortedStartIsReported says, and only a live goroutine clears an entry.
LEMMA ReportStep ==
    ASSUME IInv, AbortedStartIsReported, [Next]_vars
    PROVE  AbortedStartIsReported'
<1> USE DEF IInv
<1>1. updates \in Seq(Update) /\ \A u \in DOMAIN updates : updates[u] \in Update
  BY UpdateType DEF TypeOK
<1>2. ASSUME \A u \in DOMAIN updates :
                /\ updates'[u].spec = updates[u].spec
                /\ updates'[u].pc = updates[u].pc
                /\ updates'[u].todo = updates[u].todo
                /\ updates'[u].next = updates[u].next,
             \A u \in DOMAIN updates' \ DOMAIN updates : updates'[u].pc = "none",
             DOMAIN updates \subseteq DOMAIN updates',
             syncErrors \subseteq syncErrors'
      PROVE  AbortedStartIsReported'
  <2>1. SUFFICES ASSUME NEW u \in DOMAIN updates',
                        NewestSpawned(u)', updates'[u].pc = "done"
                 PROVE  /\ MoreInits(u)' => CurrentInit(u)' \in syncErrors'
                        /\ ~MoreInits(u)' => \A i \in updates'[u].todo :
                              Least(i, updates'[u].todo) =>
                                 SpecOf(u)'.units[i].name \in syncErrors'
    BY DEF AbortedStartIsReported
  <2>2. u \in DOMAIN updates /\ updates[u].pc = "done"
    BY <1>2, <2>1
  <2>3. NewestSpawned(u)
    BY <1>2, <2>1, <2>2 DEF NewestSpawned, Spawned
  <2>4. /\ MoreInits(u)' = MoreInits(u) /\ CurrentInit(u)' = CurrentInit(u)
        /\ SpecOf(u)' = SpecOf(u)
    BY <1>2, <2>2 DEF MoreInits, CurrentInit, SpecOf
  <2>5. QED BY <1>2, <2>2, <2>3, <2>4 DEF AbortedStartIsReported
<1>3. ASSUME UNCHANGED <<updates, syncErrors>> PROVE AbortedStartIsReported'
  BY <1>2, <1>3
<1>4. ASSUME NEW h \in Handlers, CheckRoom(h) PROVE AbortedStartIsReported'
  BY <1>3, <1>4 DEF CheckRoom
<1>5. ASSUME NEW h \in Handlers, NEW s \in Specs, Send(h, s)
      PROVE  AbortedStartIsReported'
  <2>1. updates' = Append(updates, NewUpdate(s)) /\ UNCHANGED syncErrors
    BY <1>5 DEF Send
  <2>2. NewUpdate(s) \in Update
    BY DEF NewUpdate, Update, StarterPCs
  <2>3. /\ DOMAIN updates' = DOMAIN updates \cup {Len(updates) + 1}
        /\ \A u \in DOMAIN updates : updates'[u] = updates[u]
        /\ updates'[Len(updates) + 1] = NewUpdate(s)
    BY <1>1, <2>1, <2>2, AppendProperties, LenProperties
  <2>4. QED BY <1>2, <2>1, <2>3 DEF NewUpdate
<1>6. CASE DropOutdated \/ StopDropping \/ Receive \/ MarkRestarting \/ PrepareSandbox
  BY <1>3, <1>6
     DEF DropOutdated, StopDropping, Receive, MarkRestarting, PrepareSandbox
<1>7. CASE \/ \E i \in loop.remove : RemoveContainer(i)
           \/ \E i \in loop.create : CreateContainer(i)
  <2>1. UNCHANGED updates /\ syncErrors \subseteq syncErrors'
    BY <1>7 DEF RemoveContainer, CreateContainer
  <2>2. QED BY <1>2, <2>1
<1>8. CASE CancelPrevious
  <2>1. DOMAIN updates' = DOMAIN updates /\ UNCHANGED syncErrors
    BY <1>8 DEF CancelPrevious
  <2>2. \A u \in DOMAIN updates : /\ updates'[u].spec = updates[u].spec
                                  /\ updates'[u].pc = updates[u].pc
                                  /\ updates'[u].todo = updates[u].todo
                                  /\ updates'[u].next = updates[u].next
    BY <1>1, <1>8 DEF CancelPrevious, Update
  <2>3. QED BY <1>2, <2>1, <2>2
<1>9. CASE SpawnStarter
  <2>1. loop.id \in DOMAIN updates /\ loop.pc = "wait"
    BY <1>9 DEF SpawnStarter, TypeOK
  <2>2. /\ DOMAIN updates' = DOMAIN updates
        /\ \A u \in DOMAIN updates \ {loop.id} : updates'[u] = updates[u]
        /\ updates'[loop.id].pc = "start" /\ loop'.id = loop.id
    BY <1>1, <1>9, <2>1, ChanType DEF SpawnStarter, FinishUpdate, Update
  <2>3. \A u \in DOMAIN updates \ {loop.id} : Spawned(u)' => u < loop.id
    <3>1. \A u \in DOMAIN updates \ {loop.id} : Spawned(u)' => Spawned(u)
      BY <2>2 DEF Spawned
    <3>2. QED BY <2>1, <3>1, UpdateType DEF StarterInv
  <2>4. \A u \in DOMAIN updates \ {loop.id} : ~NewestSpawned(u)'
    <3>1. Spawned(loop.id)'
      BY <2>2 DEF Spawned
    <3>2. QED BY <2>1, <2>2, <2>3, <3>1, UpdateType DEF NewestSpawned
  <2>5. QED BY <2>2, <2>4 DEF AbortedStartIsReported
<1>10. ASSUME NEW u \in DOMAIN updates, Starter(u) PROVE AbortedStartIsReported'
  <2>1. /\ SameUpdates
        /\ \A v \in DOMAIN updates \ {u} : updates'[v] = updates[v]
    BY <1>10, StarterFrame
  <2>2. /\ Pending(u) /\ Spawned(u) /\ NewestSpawned(u)
    BY <1>10 DEF Starter, StartInitUnit, InitUnitSucceeded, GiveUpOnInit,
                 StartMainUnit, FinishStart, Pending, Spawned, StarterInv
  <2>3. updates'[u].pc \in StarterPCs \ {"none"}
    BY <1>1, <1>10 DEF Starter, StartInitUnit, InitUnitSucceeded, GiveUpOnInit,
                 StartMainUnit, FinishStart, AbortStart, Update, StarterPCs
  <2>4. ASSUME NEW v \in DOMAIN updates', NewestSpawned(v)' PROVE v = u
    <3>1. Spawned(u)' /\ Spawned(v)' /\ v \in DOMAIN updates
      BY <2>1, <2>2, <2>3, <2>4 DEF Spawned, NewestSpawned, SameUpdates
    <3>2. Spawned(v)
      BY <2>1, <2>2, <3>1 DEF Spawned
    <3>3. u <= v /\ v <= u /\ u \in Nat /\ v \in Nat
      BY <2>1, <2>2, <2>4, <3>1, <3>2, UpdateType DEF NewestSpawned, SameUpdates
    <3>4. QED BY <3>3
  <2>5. SpecOf(u)' = SpecOf(u)
    BY <2>1 DEF SameUpdates, SpecOf
  <2>6. CASE updates'[u].pc # "done"
    BY <2>4, <2>6 DEF AbortedStartIsReported
  <2>7. CASE updates'[u].pc = "done"
    <3>1. updates'[u].next = updates[u].next /\ updates'[u].todo = updates[u].todo
      BY <1>1, <1>10, <2>7
         DEF Starter, StartInitUnit, InitUnitSucceeded, GiveUpOnInit,
             StartMainUnit, FinishStart, AbortStart, Update
    <3>2. MoreInits(u)' = MoreInits(u) /\ CurrentInit(u)' = CurrentInit(u)
      BY <2>5, <3>1 DEF MoreInits, CurrentInit
    <3>3. \/ MoreInits(u) /\ CurrentInit(u) \in syncErrors'
          \/ ~MoreInits(u) /\ \E i \in updates[u].todo :
                Least(i, updates[u].todo) /\ SpecOf(u).units[i].name \in syncErrors'
          \/ ~MoreInits(u) /\ updates[u].todo = {}
      BY <1>1, <1>10, <2>7
         DEF Starter, StartInitUnit, InitUnitSucceeded, GiveUpOnInit,
             StartMainUnit, FinishStart, AbortStart, Report, Update
    <3>4. \A i, j \in updates[u].todo :
             Least(i, updates[u].todo) /\ Least(j, updates[u].todo) => i = j
      <4>1. updates[u].todo \subseteq Nat
        BY <1>1 DEF Update
      <4>2. QED BY <4>1 DEF Least
    <3>5. /\ MoreInits(u)' => CurrentInit(u)' \in syncErrors'
          /\ ~MoreInits(u)' => \A i \in updates'[u].todo :
                Least(i, updates'[u].todo) =>
                   SpecOf(u)'.units[i].name \in syncErrors'
      BY <2>5, <3>1, <3>2, <3>3, <3>4
    <3>6. QED BY <2>4, <3>5 DEF AbortedStartIsReported
  <2>8. QED BY <2>6, <2>7
<1>11. ASSUME NEW n \in Names, Helper(n) PROVE AbortedStartIsReported'
  BY <1>3, <1>11, HelperFrame
<1>12. CASE UNCHANGED vars
  BY <1>3, <1>12 DEF vars
<1>13. QED BY <1>4, <1>5, <1>6, <1>7, <1>8, <1>9, <1>10, <1>11, <1>12
           DEF Next, UpdateLoop

-------------------------------------------------------------------------------
(* The init units.                                                         *)

\* No regular unit has the name of an init unit.
LEMMA InitNameFacts ==
    ASSUME TypeOK, InitNamesApart
    PROVE  /\ \A u \in DOMAIN updates :
                 /\ \A j \in DOMAIN SpecOf(u).inits :
                       /\ SpecOf(u).inits[j].name \in Names
                       /\ InitName(SpecOf(u).inits[j].name)
                       /\ j \in Nat
                 /\ \A k \in DOMAIN SpecOf(u).units :
                       ~InitName(SpecOf(u).units[k].name)
           /\ \A k \in DOMAIN podStatus.units : ~InitName(podStatus.units[k].name)
<1>1. \A u \in DOMAIN updates : SpecOf(u) \in Specs /\ SpecOf(u) \in PodSpec
  BY UpdateType DEF Update, SpecOf
<1>2. podStatus \in Specs \/ DOMAIN podStatus.units = {}
  BY DEF TypeOK, EmptyStatus
<1>3. \A s \in Specs : \A k \in DOMAIN s.units : ~InitName(s.units[k].name)
  BY DEF InitNamesApart, InitName
<1>4. \A s \in Specs : \A j \in DOMAIN s.inits :
         InitName(s.inits[j].name) /\ s.inits[j].name \in Names /\ j \in Nat
  BY SpecsAssumption, UnitNameType DEF InitName, Unit
<1>5. QED BY <1>1, <1>2, <1>3, <1>4

\* Nothing happens to an init unit.
InitUnitsKept ==
    \A n \in Names : InitName(n) =>
        /\ unit'[n].helper = unit[n].helper
        /\ unit'[n].exit = unit[n].exit
        /\ unit'[n].orphan = unit[n].orphan

\* Goroutines neither begin nor go on; updates may be sent.
SameProgress ==
    /\ \A u \in DOMAIN updates :
          /\ u \in DOMAIN updates'
          /\ updates'[u].spec = updates[u].spec
          /\ updates'[u].pc = updates[u].pc
          /\ updates'[u].next = updates[u].next
    /\ \A u \in DOMAIN updates' \ DOMAIN updates : updates'[u].pc = "none"

\* Then the same goroutine is the newest, at the same place.
LEMMA SameNewest ==
    ASSUME SameProgress, NEW u
    PROVE  /\ u \in DOMAIN updates' /\ NewestSpawned(u)' =>
                u \in DOMAIN updates /\ NewestSpawned(u)
           /\ u \in DOMAIN updates /\ NewestSpawned(u) => NewestSpawned(u)'
           /\ u \in DOMAIN updates =>
                /\ SpecOf(u)' = SpecOf(u)
                /\ MoreInits(u)' = MoreInits(u)
                /\ CurrentInit(u)' = CurrentInit(u)
<1>1. \A v \in DOMAIN updates : Spawned(v)' = Spawned(v)
  BY DEF SameProgress, Spawned
<1>2. \A v \in DOMAIN updates' : Spawned(v)' => v \in DOMAIN updates
  BY DEF SameProgress, Spawned
<1>3. ASSUME u \in DOMAIN updates', NewestSpawned(u)'
      PROVE  u \in DOMAIN updates /\ NewestSpawned(u)
  BY <1>1, <1>2, <1>3 DEF NewestSpawned, SameProgress
<1>4. ASSUME u \in DOMAIN updates, NewestSpawned(u) PROVE NewestSpawned(u)'
  BY <1>1, <1>2, <1>4 DEF NewestSpawned, SameProgress
<1>5. ASSUME u \in DOMAIN updates
      PROVE  /\ SpecOf(u)' = SpecOf(u)
             /\ MoreInits(u)' = MoreInits(u)
             /\ CurrentInit(u)' = CurrentInit(u)
  BY <1>5 DEF SameProgress, SpecOf, MoreInits, CurrentInit
<1>6. QED BY <1>3, <1>4, <1>5

LEMMA InitsKept ==
    ASSUME TypeOK, InitNamesApart, InitsInv, InitUnitsKept, SameProgress,
           UNCHANGED podStatus, faults' = 0 => faults = 0,
           Replacing => Replacing'
    PROVE  InitsInv'
<1> SUFFICES ASSUME faults' = 0 PROVE InitHelpersInv' /\ NewestInv'
  BY DEF InitsInv
<1>1. InitHelpersInv /\ NewestInv
  BY DEF InitsInv
<1>2. InitHelpersInv'
  <2> SUFFICES ASSUME NEW n \in Names, InitName(n)
               PROVE  /\ ~unit'[n].orphan
                      /\ unit'[n].helper # NoHelper =>
                            \E u \in DOMAIN updates' :
                               /\ updates'[u].pc \in {"wait", "gone"}
                               /\ CurrentInit(u)' = n
    BY DEF InitHelpersInv, InitName
  <2>1. ASSUME NEW u \in DOMAIN updates, updates[u].pc \in {"wait", "gone"},
               CurrentInit(u) = n
        PROVE  \E v \in DOMAIN updates' :
                  updates'[v].pc \in {"wait", "gone"} /\ CurrentInit(v)' = n
    BY <2>1, SameNewest DEF SameProgress
  <2>2. QED BY <1>1, <2>1 DEF InitHelpersInv, InitUnitsKept
<1>3. ASSUME NEW u \in DOMAIN updates', NewestSpawned(u)'
      PROVE  /\ SpecOf(u)'.inits = podStatus'.inits
             /\ ~Replacing' => Finished(u)'
             /\ updates'[u].pc = "done" => ~MoreInits(u)'
  <2>1. u \in DOMAIN updates /\ NewestSpawned(u)
    BY <1>3, SameNewest
  <2>2. SpecOf(u)' = SpecOf(u) /\ MoreInits(u)' = MoreInits(u)
    BY <2>1, SameNewest
  <2>3. updates'[u].pc = updates[u].pc /\ updates'[u].next = updates[u].next
    BY <2>1 DEF SameProgress
  <2>4. Finished(u) => Finished(u)'
    <3>1. CurrentInit(u)' = CurrentInit(u)
      BY <2>1, SameNewest
    <3>2. QED BY <2>1, <2>2, <2>3, <3>1, InitNameFacts
              DEF Finished, ExitSeen, InitUnitsKept
  <2>5. QED BY <1>1, <2>1, <2>2, <2>3, <2>4 DEF NewestInv
<1>4. \/ podStatus'.inits = <<>> /\ podStatus'.units = <<>>
      \/ \E u \in DOMAIN updates' : NewestSpawned(u)'
  BY <1>1, SameNewest DEF NewestInv, SameProgress
<1>5. QED BY <1>2, <1>3, <1>4 DEF NewestInv

\* A helper that ends leaves the init units alone that are finished, and the
\* others to the goroutine that waits for them.
LEMMA InitsHelperStep ==
    ASSUME TypeOK, InitNamesApart, InitsInv, NEW m \in Names, Helper(m)
    PROVE  InitsInv'
<1>1. UNCHANGED <<loopVars, handler, updates, faults>>
  BY HelperFrame
<1> SUFFICES ASSUME faults = 0 PROVE InitHelpersInv' /\ NewestInv'
  BY <1>1 DEF InitsInv
<1>2. InitHelpersInv /\ NewestInv
  BY DEF InitsInv
<1>3. /\ \A n \in Names \ {m} : unit'[n] = unit[n]
      /\ unit'[m].orphan = unit[m].orphan
      /\ unit'[m].helper \in {unit[m].helper, NoHelper}
  <2>1. unit \in [Names -> UnitState] /\ unit[m] \in UnitState
    BY DEF TypeOK
  <2>2. QED BY <2>1 DEF Helper, HelperFails, CommandExits, OrphanExits, UnitState
<1>4. unit[m].helper # NoHelper \/ unit[m].orphan
  BY DEF Helper, HelperFails, CommandExits, OrphanExits
<1>5. UNCHANGED <<loop, podStatus>>
  BY <1>1 DEF loopVars
<1>6. \A u : CurrentInit(u)' = CurrentInit(u) /\ MoreInits(u)' = MoreInits(u)
              /\ SpecOf(u)' = SpecOf(u) /\ NewestSpawned(u)' = NewestSpawned(u)
  BY <1>1 DEF CurrentInit, MoreInits, SpecOf, NewestSpawned, Spawned
<1>7. InitHelpersInv'
  BY <1>1, <1>2, <1>3, <1>6 DEF InitHelpersInv, InitName
<1>8. Replacing' = Replacing
  BY <1>1, <1>5 DEF Replacing, Event, SpecOf
<1>9. ASSUME NEW u \in DOMAIN updates, Finished(u) PROVE Finished(u)'
  <2> SUFFICES ASSUME NEW j \in DOMAIN SpecOf(u).inits, j < updates[u].next,
                      ExitSeen(SpecOf(u).inits[j].name, "ok")
               PROVE  ExitSeen(SpecOf(u).inits[j].name, "ok")'
    BY <1>1, <1>6, <1>9 DEF Finished
  <2> DEFINE n == SpecOf(u).inits[j].name
  <2>1. n \in Names /\ InitName(n)
    BY InitNameFacts
  <2>2. unit[n].helper = NoHelper /\ unit[n].exit = "ok"
    BY DEF ExitSeen
  <2>3. ~unit[n].orphan
    BY <1>2, <2>1 DEF InitHelpersInv
  <2>4. n # m
    BY <1>4, <2>2, <2>3
  <2>5. unit'[n] = unit[n]
    BY <1>3, <2>1, <2>4
  <2>6. SpecOf(u)' = SpecOf(u)
    BY <1>6
  <2>7. QED BY <2>2, <2>5, <2>6 DEF ExitSeen
<1>10. NewestInv'
  BY <1>1, <1>2, <1>5, <1>6, <1>8, <1>9 DEF NewestInv
<1>11. QED BY <1>7, <1>10

\* What a goroutine does to its record and to the units, unless a call fails.
LEMMA StarterEffect ==
    ASSUME TypeOK, NEW u \in DOMAIN updates, Starter(u), faults' = 0
    PROVE  /\ faults = 0 /\ Pending(u)
           /\ SameUpdates /\ UNCHANGED <<loop, podStatus>>
           /\ \A v \in DOMAIN updates \ {u} : updates'[v] = updates[v]
           /\ \/ /\ updates[u].pc = "start" /\ updates'[u].pc = "wait"
                 /\ updates'[u].next = updates[u].next /\ MoreInits(u)
                 /\ unit' = Started(CurrentInit(u), SpecOf(u).policy)
              \/ /\ updates[u].pc = "wait" /\ updates'[u].pc = "start"
                 /\ updates'[u].next = updates[u].next + 1
                 /\ ExitSeen(CurrentInit(u), "ok") /\ UNCHANGED unit
              \/ /\ updates[u].pc = "wait" /\ updates'[u].pc = "gone"
                 /\ updates'[u].next = updates[u].next /\ UNCHANGED unit
              \/ /\ updates[u].pc = "start" /\ updates'[u].pc = "start"
                 /\ updates'[u].next = updates[u].next
                 /\ \E i \in updates[u].todo :
                       unit' = Started(SpecOf(u).units[i].name, SpecOf(u).policy)
              \/ /\ updates[u].pc = "start" /\ updates'[u].pc = "done"
                 /\ updates'[u].next = updates[u].next /\ UNCHANGED unit
                 /\ ~MoreInits(u)
<1>1. updates \in Seq(Update) /\ updates[u] \in Update /\ faults \in Nat
  BY UpdateType, BoundsAssumption DEF TypeOK
<1>2. /\ SameUpdates /\ UNCHANGED <<loop, podStatus>>
      /\ \A v \in DOMAIN updates \ {u} : updates'[v] = updates[v]
  BY StarterFrame DEF loopVars
<1>3. ~MayFail
  BY <1>1 DEF MayFail
<1>4. CASE StartInitUnit(u)
  BY <1>1, <1>2, <1>3, <1>4 DEF StartInitUnit, AbortStart, NoFault, Update, Pending
<1>5. CASE InitUnitSucceeded(u)
  BY <1>1, <1>2, <1>5 DEF InitUnitSucceeded, WaitSucceeded, Update, Pending
<1>6. CASE GiveUpOnInit(u)
  BY <1>1, <1>2, <1>6 DEF GiveUpOnInit, Update, Pending
<1>7. ASSUME NEW i \in updates[u].todo, StartMainUnit(u, i)
      PROVE  /\ faults = 0 /\ Pending(u)
             /\ updates[u].pc = "start" /\ updates'[u].pc = "start"
             /\ updates'[u].next = updates[u].next
             /\ unit' = Started(SpecOf(u).units[i].name, SpecOf(u).policy)
  BY <1>1, <1>3, <1>7 DEF StartMainUnit, AbortStart, NoFault, Update, Pending
<1>8. CASE FinishStart(u)
  BY <1>1, <1>2, <1>8 DEF FinishStart, Update, Pending
<1>9. QED BY <1>2, <1>4, <1>5, <1>6, <1>7, <1>8 DEF Starter

\* A goroutine starts an init unit that no other goroutine runs, and goes on when
\* the unit exited with 0.
LEMMA InitsStarterStep ==
    ASSUME IInv, InitNamesApart, InitsInv, NEW u \in DOMAIN updates, Starter(u)
    PROVE  InitsInv'
<1> USE DEF IInv
<1> SUFFICES ASSUME faults' = 0 PROVE InitHelpersInv' /\ NewestInv'
  BY DEF InitsInv
<1>1. /\ faults = 0 /\ Pending(u)
      /\ SameUpdates /\ UNCHANGED <<loop, podStatus>>
      /\ \A v \in DOMAIN updates \ {u} : updates'[v] = updates[v]
  BY StarterEffect
<1>2. InitHelpersInv /\ NewestInv
  BY <1>1 DEF InitsInv
<1>3. NewestSpawned(u) /\ u \in Nat /\ updates[u].next \in Nat
      /\ \A v \in DOMAIN updates : updates[v].pc \in {"wait", "gone"} => v = u
  <2>1. \A v \in DOMAIN updates : Pending(v) => NewestSpawned(v) /\ Spawned(v)
    BY DEF StarterInv, NewestSpawned
  <2>2. \A v \in DOMAIN updates : v \in Nat /\ updates[v] \in Update
    BY UpdateType
  <2>3. \A v \in DOMAIN updates : Pending(v) => v <= u /\ u <= v
    BY <1>1, <2>1 DEF NewestSpawned
  <2>4. QED BY <1>1, <2>1, <2>2, <2>3 DEF Pending, Update
<1>4. /\ DOMAIN updates' = DOMAIN updates
      /\ \A v \in DOMAIN updates : SpecOf(v)' = SpecOf(v)
  BY <1>1 DEF SameUpdates, SpecOf
<1>5. /\ \A v \in DOMAIN updates' : NewestSpawned(v)' => v = u
      /\ NewestSpawned(u)'
  <2>1. updates[u].pc # "none" /\ updates'[u].pc # "none"
    BY <1>1, StarterEffect DEF Pending
  <2>2. \A v \in DOMAIN updates : Spawned(v)' = Spawned(v)
    BY <1>1, <2>1 DEF Spawned
  <2>3. \A v \in DOMAIN updates : NewestSpawned(v)' = NewestSpawned(v)
    BY <1>4, <2>2 DEF NewestSpawned
  <2>4. \A v \in DOMAIN updates : NewestSpawned(v) => u <= v /\ v <= u
    BY <1>3 DEF NewestSpawned
  <2>5. \A v \in DOMAIN updates : v \in Nat
    BY UpdateType
  <2>6. QED BY <1>3, <1>4, <2>3, <2>4, <2>5
<1>6. Replacing' = Replacing
  <2>1. loop.pc \in {"remove", "create", "wait"} => loop.id \in DOMAIN updates
    BY DEF TypeOK
  <2>2. QED BY <1>1, <1>4, <2>1 DEF Replacing, Event
<1>7. SpecOf(u).inits = podStatus.inits /\ (~Replacing => Finished(u))
  BY <1>2, <1>3 DEF NewestInv
<1>8. SUFFICES /\ InitHelpersInv'
               /\ Finished(u) => Finished(u)'
               /\ updates'[u].pc = "done" => ~MoreInits(u)'
  BY <1>1, <1>4, <1>5, <1>6, <1>7 DEF NewestInv
<1>9. unit \in [Names -> UnitState]
  BY DEF TypeOK
<1>10. ASSUME NEW m, ~InitName(m), NEW policy, unit' = Started(m, policy)
       PROVE  \A n \in Names : InitName(n) => unit'[n] = unit[n]
  BY <1>9, <1>10 DEF Started
<1>11. CASE /\ updates[u].pc = "start" /\ updates'[u].pc = "wait"
            /\ updates'[u].next = updates[u].next /\ MoreInits(u)
            /\ unit' = Started(CurrentInit(u), SpecOf(u).policy)
  <2>1. updates[u].next \in DOMAIN SpecOf(u).inits
    <3>1. updates[u].next # 0
      BY UpdateType DEF Update
    <3>2. QED BY <1>3, <1>11, <3>1, UpdateType, UnitNameType DEF MoreInits
  <2>2. PICK m : m = CurrentInit(u)
    OBVIOUS
  <2>3. m \in Names /\ InitName(m)
    BY <2>1, <2>2, InitNameFacts DEF CurrentInit
  <2>4. \A n \in Names : InitName(n) =>
           ~unit[n].orphan /\ unit[n].helper = NoHelper
    BY <1>2, <1>3, <1>11 DEF InitHelpersInv
  <2>5. unit[m] \in UnitState
    BY <1>9, <2>3
  <2>6. unit' = Started(m, SpecOf(u).policy)
    BY <1>11, <2>2
  <2>7. /\ \A n \in Names \ {m} : unit'[n] = unit[n]
        /\ ~unit'[m].orphan
    BY <1>9, <2>3, <2>4, <2>5, <2>6 DEF Started, UnitState
  <2>8. CurrentInit(u)' = m
    BY <1>4, <1>11, <2>2 DEF CurrentInit
  <2>9. InitHelpersInv'
    BY <1>4, <1>11, <2>4, <2>7, <2>8 DEF InitHelpersInv, InitName
  <2>10. Finished(u) => Finished(u)'
    <3>1. \A j \in DOMAIN SpecOf(u).inits : SpecOf(u).inits[j].name \in Names
      BY InitNameFacts
    <3>2. QED BY <1>4, <1>11, <2>7, <2>8, <3>1 DEF Finished, ExitSeen
  <2>11. QED BY <1>11, <2>9, <2>10
<1>12. CASE /\ updates[u].pc = "wait" /\ updates'[u].pc = "start"
            /\ updates'[u].next = updates[u].next + 1
            /\ ExitSeen(CurrentInit(u), "ok") /\ UNCHANGED unit
  <2>1. \A n \in Names : InitName(n) =>
           ~unit[n].orphan /\ unit[n].helper = NoHelper
    BY <1>2, <1>3, <1>12 DEF InitHelpersInv, ExitSeen
  <2>2. InitHelpersInv'
    BY <1>12, <2>1 DEF InitHelpersInv, InitName
  <2>3. Finished(u) => Finished(u)'
    <3> SUFFICES ASSUME Finished(u), NEW j \in DOMAIN SpecOf(u).inits,
                        j < updates[u].next + 1
                 PROVE  ExitSeen(SpecOf(u).inits[j].name, "ok")
      BY <1>4, <1>12 DEF Finished, ExitSeen
    <3>1. j < updates[u].next \/ j = updates[u].next
      BY <1>3, InitNameFacts
    <3>2. QED BY <1>12, <3>1 DEF Finished, CurrentInit
  <2>4. QED BY <1>12, <2>2, <2>3
<1>13. CASE /\ updates[u].pc = "wait" /\ updates'[u].pc = "gone"
            /\ updates'[u].next = updates[u].next /\ UNCHANGED unit
  <2>1. CurrentInit(u)' = CurrentInit(u)
    BY <1>4, <1>13 DEF CurrentInit
  <2>2. InitHelpersInv'
    BY <1>2, <1>3, <1>4, <1>13, <2>1 DEF InitHelpersInv, InitName
  <2>3. Finished(u) => Finished(u)'
    BY <1>4, <1>13, <2>1 DEF Finished, ExitSeen
  <2>4. QED BY <1>13, <2>2, <2>3
<1>14. CASE /\ updates[u].pc = "start" /\ updates'[u].pc \in {"start", "done"}
            /\ updates'[u].next = updates[u].next
            /\ updates'[u].pc = "done" => ~MoreInits(u)
            /\ \A n \in Names : InitName(n) => unit'[n] = unit[n]
  <2>1. InitHelpersInv'
    BY <1>2, <1>3, <1>14 DEF InitHelpersInv, InitName
  <2>2. Finished(u) => Finished(u)'
    BY <1>4, <1>14, InitNameFacts DEF Finished, ExitSeen
  <2>3. MoreInits(u)' = MoreInits(u)
    BY <1>4, <1>14 DEF MoreInits
  <2>4. QED BY <1>14, <2>1, <2>2, <2>3
<1>15. \A i \in updates[u].todo : ~InitName(SpecOf(u).units[i].name)
  BY InitNameFacts DEF PositionsInv
<1>16. QED BY <1>10, <1>11, <1>12, <1>13, <1>14, <1>15, StarterEffect

\* The next goroutine starts when the one before it is done: its init units are
\* finished then, unless it starts them again.
LEMMA InitsSpawnStep ==
    ASSUME IInv, InitNamesApart, InitsInv, SpawnStarter
    PROVE  InitsInv'
<1> USE DEF IInv
<1>1. PICK v : v = loop.id
  OBVIOUS
<1>2. /\ loop.pc = "wait" /\ v \in DOMAIN updates /\ waitGroup = 0
      /\ UNCHANGED <<unit, faults>> /\ podStatus' = SpecOf(v)
      /\ loop'.pc = "check" /\ loop'.id = v
  BY <1>1, ChanType DEF SpawnStarter, FinishUpdate, TypeOK, PreviousFinished
<1> SUFFICES ASSUME faults = 0 PROVE InitHelpersInv' /\ NewestInv'
  BY <1>2 DEF InitsInv
<1>3. InitHelpersInv /\ NewestInv
  BY DEF InitsInv
<1>4. updates \in Seq(Update) /\ \A u \in DOMAIN updates : updates[u] \in Update
  BY UpdateType DEF TypeOK
<1>5. /\ DOMAIN updates' = DOMAIN updates
      /\ \A u \in DOMAIN updates \ {v} : updates'[u] = updates[u]
      /\ updates'[v].pc = "start" /\ updates'[v].spec = updates[v].spec
      /\ updates'[v].next = IF Event = "units_changed"
                            THEN Len(SpecOf(v).inits) + 1 ELSE 1
  BY <1>2, <1>4, <1>1 DEF SpawnStarter, Update
<1>6. \A u \in DOMAIN updates : updates[u].pc \in {"none", "done"}
  BY <1>2, <1>4 DEF StarterInv, Pending, Update, StarterPCs
<1>7. InitHelpersInv'
  <2>1. \A n \in Names : InitName(n) =>
           ~unit[n].orphan /\ unit[n].helper = NoHelper
    BY <1>3, <1>6 DEF InitHelpersInv
  <2>2. QED BY <1>2, <2>1 DEF InitHelpersInv, InitName
<1>8. NewestSpawned(v)' /\ \A u \in DOMAIN updates' : NewestSpawned(u)' => u = v
  <2>1. \A u \in DOMAIN updates \ {v} : Spawned(u)' => u < v
    <3>1. \A u \in DOMAIN updates \ {v} : Spawned(u)' => Spawned(u)
      BY <1>5 DEF Spawned
    <3>2. QED BY <1>2, <1>1, <3>1, UpdateType DEF StarterInv
  <2>2. Spawned(v)' /\ v \in Nat
    BY <1>2, <1>5, UpdateType DEF Spawned
  <2>3. \A u \in DOMAIN updates : u \in Nat
    BY UpdateType
  <2>4. QED BY <1>2, <1>5, <2>1, <2>2, <2>3 DEF NewestSpawned
<1>9. SpecOf(v)' = SpecOf(v)
  BY <1>5 DEF SpecOf
<1>10. ASSUME Event = "units_changed" PROVE Finished(v)'
  <2>1. UnitsSlicesEqual(SpecOf(v).inits, podStatus.inits)
        /\ ~(podStatus.inits = <<>> /\ podStatus.units = <<>>)
    BY <1>10, <1>1 DEF Event, DetectChangeType
  <2>2. PICK p \in DOMAIN updates : NewestSpawned(p)
    BY <1>3, <2>1 DEF NewestInv
  <2>3. updates[p].pc = "done"
    BY <1>6, <2>2 DEF NewestSpawned, Spawned
  <2>4. SpecOf(p).inits = podStatus.inits /\ Finished(p) /\ ~MoreInits(p)
    BY <1>3, <1>10, <2>2, <2>3 DEF NewestInv, Replacing
  <2>5. \A j \in DOMAIN SpecOf(p).inits : j < updates[p].next
    <3>1. /\ DOMAIN SpecOf(p).inits = 1 .. Len(SpecOf(p).inits)
          /\ Len(SpecOf(p).inits) \in Nat
      BY <2>2, UpdateType, UnitNameType
    <3>2. updates[p].next \in Nat /\ updates[p].next > Len(SpecOf(p).inits)
      BY <1>4, <2>2, <2>4, <3>1 DEF MoreInits, Update
    <3>3. QED BY <3>1, <3>2
  <2>6. \A j \in DOMAIN SpecOf(p).inits : ExitSeen(SpecOf(p).inits[j].name, "ok")
    BY <2>3, <2>4, <2>5 DEF Finished
  <2>7. /\ DOMAIN SpecOf(v).inits = 1 .. Len(SpecOf(v).inits)
        /\ DOMAIN podStatus.inits = 1 .. Len(podStatus.inits)
    BY <1>2, UpdateType, UnitNameType, StatusType
  <2>8. \A j \in DOMAIN SpecOf(v).inits : j \in DOMAIN podStatus.inits
           /\ SpecOf(v).inits[j].name = podStatus.inits[j].name
    BY <2>1, <2>7 DEF UnitsSlicesEqual, UnitsEqual
  <2>9. \A j \in DOMAIN SpecOf(v).inits : ExitSeen(SpecOf(v).inits[j].name, "ok")
    BY <2>4, <2>6, <2>8
  <2>10. QED BY <1>2, <1>9, <2>9 DEF Finished, ExitSeen
<1>11. ASSUME Event # "units_changed" PROVE Finished(v)'
  <2>1. updates'[v].next = 1 /\ DOMAIN SpecOf(v).inits \subseteq Nat \ {0}
    BY <1>2, <1>5, <1>11, UpdateType, UnitNameType
  <2>2. \A j \in Nat \ {0} : ~(j < 1)
    OBVIOUS
  <2>3. QED BY <1>9, <2>1, <2>2 DEF Finished
<1>12. NewestInv'
  BY <1>2, <1>5, <1>8, <1>9, <1>10, <1>11 DEF NewestInv
<1>13. QED BY <1>7, <1>12

\* Without changes the status takes over a specification with the same init units.
LEMMA InitsReceiveStep ==
    ASSUME IInv, InitNamesApart, InitsInv, Receive
    PROVE  InitsInv'
<1> USE DEF IInv
<1>1. UNCHANGED <<updates, unit, faults>> /\ loop.pc = "receive"
  BY DEF Receive
<1>2. SameProgress /\ InitUnitsKept /\ ~Replacing
  <2>1. \A u \in DOMAIN updates : updates'[u] = updates[u]
    BY <1>1
  <2>2. QED BY <1>1, <2>1 DEF SameProgress, InitUnitsKept, Replacing
<1>3. PICK id : id = Head(updateChan)
  OBVIOUS
<1>4. id \in DOMAIN updates
  <2>1. updateChan \in Seq(DOMAIN updates) /\ updateChan # <<>>
    BY DEF TypeOK, Receive
  <2>2. QED BY <1>3, <2>1, HeadTailProperties
<1>5. CASE DetectChangeType(SpecOf(id), podStatus) # "no_changes"
  <2>1. UNCHANGED podStatus
    BY <1>3, <1>5 DEF Receive
  <2>2. QED BY <1>1, <1>2, <2>1, InitsKept
<1>6. CASE DetectChangeType(SpecOf(id), podStatus) = "no_changes"
  <2>1. podStatus' = SpecOf(id) /\ loop'.pc = "check"
    BY <1>3, <1>6, ChanType DEF Receive
  <2>2. /\ SpecOf(id).inits = podStatus.inits
        /\ ~(podStatus.units = <<>> /\ podStatus.inits = <<>>)
    BY <1>4, <1>6, NoChangesMeansEqual, UpdateType, StatusType
  <2> SUFFICES ASSUME faults = 0 PROVE InitHelpersInv' /\ NewestInv'
    BY <1>1 DEF InitsInv
  <2>3. InitHelpersInv /\ NewestInv
    BY DEF InitsInv
  <2>4. \A u : /\ NewestSpawned(u)' = NewestSpawned(u) /\ SpecOf(u)' = SpecOf(u)
               /\ MoreInits(u)' = MoreInits(u) /\ CurrentInit(u)' = CurrentInit(u)
               /\ Finished(u)' = Finished(u)
    BY <1>1 DEF NewestSpawned, Spawned, SpecOf, MoreInits, CurrentInit, Finished,
                ExitSeen
  <2>5. InitHelpersInv'
    BY <1>1, <2>3, <2>4 DEF InitHelpersInv, InitName
  <2>6. NewestInv'
    BY <1>1, <1>2, <2>1, <2>2, <2>3, <2>4 DEF NewestInv
  <2>7. QED BY <2>5, <2>6
<1>7. QED BY <1>5, <1>6

\* A change of units removes regular units only; a restart of the pod ends the
\* helpers of the init units, and their goroutine is followed by another.
LEMMA InitsRemoveStep ==
    ASSUME IInv, InitNamesApart, InitsInv, NEW i \in loop.remove, RemoveContainer(i)
    PROVE  InitsInv'
<1> USE DEF IInv
<1> SUFFICES ASSUME faults' = 0 PROVE InitsInv'
  BY DEF InitsInv
<1>1. /\ i \in ToRemove(SpecOf(loop.id)) /\ RemovalList[i].name \in Names
      /\ UNCHANGED <<updates, podStatus>>
      /\ loop.pc = "remove" /\ loop'.pc = "remove" /\ loop'.id = loop.id
      /\ faults = 0
  BY RemoveEffect DEF RemoveContainer
<1>2. PICK m : m = RemovalList[i].name
  OBVIOUS
<1>3. unit' = [unit EXCEPT ![m] = Removed(@)]
  BY <1>1, <1>2, BoundsAssumption DEF RemoveContainer, MayFail, TypeOK
<1>4. /\ \A n \in Names \ {m} : unit'[n] = unit[n]
      /\ unit'[m].helper = NoHelper /\ unit'[m].orphan = unit[m].orphan
  <2>1. unit \in [Names -> UnitState] /\ unit[m] \in UnitState
    BY <1>1, <1>2 DEF TypeOK
  <2>2. QED BY <1>1, <1>2, <1>3, <2>1 DEF Removed, UnitState
<1>5. Event' = Event
  BY <1>1 DEF Event, SpecOf
<1>6. CASE Event = "units_changed"
  <2>1. i \in DOMAIN podStatus.units /\ m = podStatus.units[i].name
    BY <1>1, <1>2, <1>6 DEF ToRemove, Event, ToDelete, Differing, RemovalList
  <2>2. ~InitName(m)
    BY <2>1, InitNameFacts
  <2>3. InitUnitsKept
    BY <1>4, <2>2 DEF InitUnitsKept
  <2>4. SameProgress /\ ~Replacing
    BY <1>1, <1>6 DEF SameProgress, Replacing
  <2>5. QED BY <1>1, <2>3, <2>4, InitsKept
<1>7. CASE Event # "units_changed"
  <2>1. InitHelpersInv /\ NewestInv
    BY <1>1 DEF InitsInv
  <2>2. \A u : /\ NewestSpawned(u)' = NewestSpawned(u) /\ SpecOf(u)' = SpecOf(u)
               /\ MoreInits(u)' = MoreInits(u) /\ CurrentInit(u)' = CurrentInit(u)
    BY <1>1 DEF NewestSpawned, Spawned, SpecOf, MoreInits, CurrentInit
  <2>3. InitHelpersInv'
    BY <1>1, <1>4, <2>1, <2>2 DEF InitHelpersInv, InitName
  <2>4. Replacing'
    BY <1>1, <1>5, <1>7 DEF Replacing
  <2>5. NewestInv'
    BY <1>1, <2>1, <2>2, <2>4 DEF NewestInv
  <2>6. QED BY <2>3, <2>5 DEF InitsInv
<1>8. QED BY <1>6, <1>7

LEMMA InitsStep ==
    ASSUME IInv, InitNamesApart, InitsInv, [Next]_vars
    PROVE  InitsInv'
<1> USE DEF IInv
<1>1. InitUnitsKept \/ ~UNCHANGED unit
  BY DEF InitUnitsKept
<1>2. SameProgress \/ ~UNCHANGED updates
  BY DEF SameProgress
<1>3. updates \in Seq(Update) /\ \A u \in DOMAIN updates : updates[u] \in Update
  BY UpdateType DEF TypeOK
<1>4. loop.pc \in {"remove", "create", "wait"} => loop.id \in DOMAIN updates
  BY DEF TypeOK
<1>5. ASSUME NEW h \in Handlers, CheckRoom(h) PROVE InitsInv'
  <2>1. UNCHANGED <<updates, loop, podStatus, unit, faults>>
    BY <1>5 DEF CheckRoom
  <2>2. Replacing' = Replacing
    BY <2>1 DEF Replacing, Event, SpecOf
  <2>3. QED BY <1>1, <1>2, <2>1, <2>2, InitsKept
<1>6. ASSUME NEW h \in Handlers, NEW s \in Specs, Send(h, s) PROVE InitsInv'
  <2>1. updates' = Append(updates, NewUpdate(s))
        /\ UNCHANGED <<loop, podStatus, unit, faults>>
    BY <1>6 DEF Send
  <2>2. NewUpdate(s) \in Update
    BY DEF NewUpdate, Update, StarterPCs
  <2>3. /\ DOMAIN updates' = DOMAIN updates \cup {Len(updates) + 1}
        /\ \A u \in DOMAIN updates : updates'[u] = updates[u]
        /\ updates'[Len(updates) + 1] = NewUpdate(s)
    BY <1>3, <2>1, <2>2, AppendProperties, LenProperties
  <2>4. SameProgress
    BY <2>3 DEF SameProgress, NewUpdate
  <2>5. Replacing => Replacing'
    BY <1>4, <2>1, <2>3 DEF Replacing, Event, SpecOf
  <2>6. QED BY <1>1, <2>1, <2>4, <2>5, InitsKept
<1>7. CASE DropOutdated \/ StopDropping
  <2>1. UNCHANGED <<updates, podStatus, unit, faults>> /\ loop.pc = "check"
    BY <1>7 DEF DropOutdated, StopDropping
  <2>2. ~Replacing
    BY <2>1 DEF Replacing
  <2>3. QED BY <1>1, <1>2, <2>1, <2>2, InitsKept
<1>8. CASE Receive
  BY <1>8, InitsReceiveStep
<1>9. ASSUME NEW i \in loop.remove, RemoveContainer(i) PROVE InitsInv'
  BY <1>9, InitsRemoveStep
<1>10. CASE PrepareSandbox \/ \E i \in loop.create : CreateContainer(i)
  <2> SUFFICES ASSUME faults' = 0 PROVE InitsInv'
    BY DEF InitsInv
  <2>1. faults \in Nat
    BY BoundsAssumption DEF TypeOK
  <2>2. /\ UNCHANGED <<updates, podStatus, faults>>
        /\ loop.pc \in {"remove", "create"}
        /\ loop'.pc = "create" /\ loop'.id = loop.id
    <3>1. ~MayFail
      BY <2>1 DEF MayFail
    <3>2. ASSUME PrepareSandbox
          PROVE  /\ UNCHANGED <<updates, podStatus, faults>> /\ loop.pc = "remove"
                 /\ loop' = [loop EXCEPT !.pc = "create"]
      BY <3>1, <3>2 DEF PrepareSandbox, NoFault
    <3>3. ASSUME NEW i \in loop.create, CreateContainer(i)
          PROVE  /\ UNCHANGED <<updates, podStatus, faults>> /\ loop.pc = "create"
                 /\ loop'.pc = loop.pc /\ loop'.id = loop.id
      BY ChanType, <3>1, <3>3 DEF CreateContainer, NoFault
    <3>4. QED BY <1>10, <3>2, <3>3, ChanType
  <2>3. InitUnitsKept
    <3>1. CASE PrepareSandbox
      BY <1>1, <3>1 DEF PrepareSandbox
    <3>2. ASSUME NEW i \in loop.create, CreateContainer(i) PROVE InitUnitsKept
      <4>1. \/ UNCHANGED unit
            \/ unit' = [unit EXCEPT ![SpecOf(loop.id).units[i].name].rootfs =
                                        SpecOf(loop.id).units[i].image]
        BY <3>2 DEF CreateContainer
      <4>2. unit \in [Names -> UnitState] /\ \A n \in Names : unit[n] \in UnitState
        BY DEF TypeOK
      <4>3. QED BY <4>1, <4>2 DEF InitUnitsKept, UnitState
    <3>3. QED BY <1>10, <3>1, <3>2
  <2>4. Replacing' = Replacing
    BY <2>2 DEF Replacing, Event, SpecOf
  <2>5. QED BY <1>2, <2>2, <2>3, <2>4, InitsKept
<1>11. CASE CancelPrevious
  <2>1. /\ loop.pc = "create" /\ loop'.pc = "wait" /\ loop'.id = loop.id
        /\ DOMAIN updates' = DOMAIN updates /\ UNCHANGED <<unit, podStatus, faults>>
    BY <1>11, ChanType DEF CancelPrevious
  <2>2. \A u \in DOMAIN updates : /\ updates'[u].spec = updates[u].spec
                                  /\ updates'[u].pc = updates[u].pc
                                  /\ updates'[u].next = updates[u].next
    BY <1>3, <1>11 DEF CancelPrevious, Update
  <2>3. SameProgress
    BY <2>1, <2>2 DEF SameProgress
  <2>4. Replacing' = Replacing
    BY <1>4, <2>1, <2>2 DEF Replacing, Event, SpecOf
  <2>5. QED BY <1>1, <2>1, <2>3, <2>4, InitsKept
<1>12. CASE SpawnStarter
  BY <1>12, InitsSpawnStep
<1>13. ASSUME NEW u \in DOMAIN updates, Starter(u) PROVE InitsInv'
  BY <1>13, InitsStarterStep
<1>14. ASSUME NEW n \in Names, Helper(n) PROVE InitsInv'
  BY <1>14, InitsHelperStep
<1>15. CASE UNCHANGED vars
  <2>1. UNCHANGED <<updates, loop, podStatus, unit, faults>>
    BY <1>15 DEF vars
  <2>2. Replacing' = Replacing
    BY <2>1 DEF Replacing, Event, SpecOf
  <2>3. QED BY <1>1, <1>2, <2>1, <2>2, InitsKept
<1>16. CASE MarkRestarting
  <2>1. UNCHANGED <<updates, podStatus, unit, faults>> /\ SamePlace
    BY <1>16, MarkEffect
  <2>2. Replacing' = Replacing
    BY <2>1 DEF Replacing, Event, SpecOf, SamePlace
  <2>3. QED BY <1>1, <1>2, <2>1, <2>2, InitsKept
<1>17. QED BY <1>5, <1>6, <1>7, <1>8, <1>9, <1>10, <1>11, <1>12, <1>13, <1>14,
             <1>15, <1>16 DEF Next, UpdateLoop

\* An update has nothing to start until its goroutine is spawned.
LEMMA NothingToDoStep ==
    ASSUME IInv, NothingToDoInv, [Next]_vars
    PROVE  NothingToDoInv'
<1> USE DEF IInv
<1>1. updates \in Seq(Update) /\ \A u \in DOMAIN updates : updates[u] \in Update
  BY UpdateType DEF TypeOK
<1>2. ASSUME UNCHANGED updates PROVE NothingToDoInv'
  BY <1>2 DEF NothingToDoInv, Spawned
<1>3. ASSUME NEW h \in Handlers, NEW s \in Specs, Send(h, s) PROVE NothingToDoInv'
  <2>1. updates' = Append(updates, NewUpdate(s)) /\ NewUpdate(s) \in Update
    BY <1>3 DEF Send, NewUpdate, Update, StarterPCs
  <2>2. /\ DOMAIN updates' = DOMAIN updates \cup {Len(updates) + 1}
        /\ \A u \in DOMAIN updates : updates'[u] = updates[u]
        /\ updates'[Len(updates) + 1] = NewUpdate(s)
    BY <1>1, <2>1, AppendProperties, LenProperties
  <2>3. QED BY <2>2 DEF NothingToDoInv, Spawned, NewUpdate
<1>4. CASE CancelPrevious
  <2>1. DOMAIN updates' = DOMAIN updates
    BY <1>4 DEF CancelPrevious
  <2>2. \A u \in DOMAIN updates : /\ updates'[u].pc = updates[u].pc
                                  /\ updates'[u].todo = updates[u].todo
    BY <1>1, <1>4 DEF CancelPrevious, Update
  <2>3. QED BY <2>1, <2>2 DEF NothingToDoInv, Spawned
<1>5. CASE SpawnStarter
  <2>1. loop.id \in DOMAIN updates
    BY <1>5 DEF SpawnStarter, TypeOK
  <2>2. /\ DOMAIN updates' = DOMAIN updates
        /\ \A u \in DOMAIN updates \ {loop.id} : updates'[u] = updates[u]
        /\ updates'[loop.id].pc = "start"
    BY <1>1, <1>5, <2>1 DEF SpawnStarter, Update
  <2>3. QED BY <2>1, <2>2 DEF NothingToDoInv, Spawned
<1>6. CASE UpdateLoop /\ ~CancelPrevious /\ ~SpawnStarter
  <2>1. UNCHANGED updates
    BY <1>6 DEF UpdateLoop, DropOutdated, StopDropping, Receive, RemoveContainer,
                MarkRestarting, PrepareSandbox, CreateContainer
  <2>2. QED BY <1>2, <2>1
<1>7. ASSUME NEW u \in DOMAIN updates, Starter(u) PROVE NothingToDoInv'
  <2>1. /\ DOMAIN updates' = DOMAIN updates
        /\ \A v \in DOMAIN updates \ {u} : updates'[v] = updates[v]
    BY <1>7, StarterFrame DEF SameUpdates
  <2>2. updates'[u].pc # "none"
    BY <1>1, <1>7 DEF Starter, StartInitUnit, InitUnitSucceeded, GiveUpOnInit,
                 StartMainUnit, FinishStart, AbortStart, Update
  <2>3. QED BY <2>1, <2>2 DEF NothingToDoInv, Spawned
<1>8. ASSUME NEW n \in Names, Helper(n) PROVE NothingToDoInv'
  BY <1>2, <1>8, HelperFrame
<1>9. CASE UNCHANGED vars \/ \E h \in Handlers : CheckRoom(h)
  BY <1>2, <1>9 DEF vars, CheckRoom
<1>10. QED BY <1>3, <1>4, <1>5, <1>6, <1>7, <1>8, <1>9 DEF Next

\* A regular unit is only started by the goroutine of a spawned update, and when
\* that update is the last one taken, nothing is being replaced.
LEMMA StartsFollowInits ==
    ASSUME IInv, InitsInv, NothingToDoInv, [Next]_vars, faults = 0
    PROVE  StartsAfterInits \/ UNCHANGED vars
<1> USE DEF IInv
<1> SUFFICES ASSUME NEW u \in DOMAIN updates, loop.id = u, ~UNCHANGED vars,
                    updates[u].todo \ updates'[u].todo # {},
                    NEW j \in DOMAIN SpecOf(u).inits
             PROVE  ExitSeen(SpecOf(u).inits[j].name, "ok")
  BY DEF StartsAfterInits
<1>1. updates \in Seq(Update) /\ \A v \in DOMAIN updates : updates[v] \in Update
  BY UpdateType DEF TypeOK
<1>2. Starter(u)
  <2>1. ASSUME NEW h \in Handlers, NEW s \in Specs, Send(h, s)
        PROVE  updates'[u] = updates[u]
    <3>1. updates' = Append(updates, NewUpdate(s))
      BY <2>1 DEF Send
    <3>2. NewUpdate(s) \in Update
      BY DEF NewUpdate, Update, StarterPCs
    <3>3. QED BY <1>1, <3>1, <3>2, AppendProperties, LenProperties
  <2>2. CASE UpdateLoop
    <3>1. CASE SpawnStarter
      <4>1. ~Spawned(u)
        BY <3>1 DEF SpawnStarter, StarterInv
      <4>2. QED BY <4>1 DEF NothingToDoInv
    <3>2. CASE CancelPrevious
      <4>1. updates'[u].todo = updates[u].todo
        BY <1>1, <3>2 DEF CancelPrevious, Update
      <4>2. QED BY <4>1
    <3>3. CASE ~SpawnStarter /\ ~CancelPrevious
      <4>1. UNCHANGED updates
        BY <2>2, <3>3 DEF UpdateLoop, DropOutdated, StopDropping, Receive,
                          RemoveContainer, MarkRestarting, PrepareSandbox,
                          CreateContainer
      <4>2. QED BY <4>1
    <3>4. QED BY <3>1, <3>2, <3>3
  <2>3. ASSUME NEW v \in DOMAIN updates, Starter(v) PROVE v = u
    BY <2>3, StarterFrame
  <2>4. ASSUME NEW n \in Names, Helper(n) PROVE FALSE
    BY <2>4, HelperFrame
  <2>5. ASSUME NEW h \in Handlers, CheckRoom(h) PROVE FALSE
    BY <2>5 DEF CheckRoom
  <2>6. QED BY <2>1, <2>2, <2>3, <2>4, <2>5 DEF Next
<1>3. updates[u].pc = "start" /\ ~MoreInits(u)
  <2>1. ASSUME \/ StartInitUnit(u)
               \/ InitUnitSucceeded(u)
               \/ GiveUpOnInit(u)
        PROVE  updates'[u].todo = updates[u].todo
    BY <1>1, <2>1 DEF StartInitUnit, InitUnitSucceeded, GiveUpOnInit, AbortStart,
                      Update
  <2>2. \/ \E i \in updates[u].todo : StartMainUnit(u, i)
        \/ FinishStart(u)
    BY <1>2, <2>1 DEF Starter
  <2>3. QED BY <2>2 DEF StartMainUnit, FinishStart
<1>4. NewestSpawned(u) /\ ~Replacing
  BY <1>3 DEF StarterInv, Pending, Spawned, Replacing
<1>5. Finished(u)
  BY <1>4 DEF InitsInv, NewestInv
<1>6. j < updates[u].next
  <2>1. /\ DOMAIN SpecOf(u).inits = 1 .. Len(SpecOf(u).inits)
        /\ Len(SpecOf(u).inits) \in Nat
    BY UpdateType, UnitNameType
  <2>2. updates[u].next \in Nat /\ updates[u].next > Len(SpecOf(u).inits)
    BY <1>1, <1>3, <2>1 DEF MoreInits, Update
  <2>3. QED BY <2>1, <2>2
<1>7. QED BY <1>3, <1>5, <1>6 DEF Finished

-------------------------------------------------------------------------------
(* The theorems.                                                           *)

LEMMA UnitsInit ==
    Init => DeploymentInv /\ CreateListInv /\ MarkedInv
              /\ ImagesInv /\ AbortedStartIsReported
<1> SUFFICES ASSUME Init
             PROVE  DeploymentInv /\ CreateListInv /\ MarkedInv
                      /\ ImagesInv /\ AbortedStartIsReported
  OBVIOUS
<1>1. /\ loop.pc = "check" /\ DOMAIN updates = {} /\ DOMAIN podStatus.units = {}
      /\ \A n \in Names : unit[n].rootfs = NoImage
  BY DEF Init, EmptyStatus, FreshUnit
<1>2. DeploymentInv
  BY <1>1 DEF DeploymentInv, SettledInv, RemovalInv, CreationInv, OnlyDeployed
<1>3. QED BY <1>1, <1>2 DEF CreateListInv, MarkedInv, ReplacedUnitsAreMarked, ImagesInv,
              CreatedInv, TodoInv, NothingToDoInv, AbortedStartIsReported

\* The invariants about deployed units hold for pods without duplicate names.
LEMMA UnitsInvariance ==
    ASSUME DistinctNames
    PROVE  Spec => [](DeploymentInv /\ CreateListInv /\ MarkedInv
                        /\ ImagesInv)
<1> DEFINE Inv == IInv /\ DeploymentInv /\ CreateListInv
                    /\ MarkedInv /\ ImagesInv
<1>1. Init => Inv
  BY InitInv, UnitsInit
<1>2. Inv /\ [Next]_vars => Inv'
  <2>1. IInv /\ [Next]_vars => IInv'
    BY TypeStep, PositionsStep, ChanStep, StarterStep DEF IInv
  <2>2. QED BY <2>1, DeploymentStep, CreateListStep, MarkedStep, ImagesStep
<1>3. Inv => DeploymentInv /\ CreateListInv /\ MarkedInv /\ ImagesInv
  OBVIOUS
<1> HIDE DEF Inv
<1>4. QED BY <1>1, <1>2, <1>3, PTL DEF Spec

\* As long as no runtime call fails, the regular units of podStatus are deployed
\* between updates, each with its image, and nothing else is
\* (pod_controller.go:160-227): for every sequence of specifications.
THEOREM StatusIsDeployed ==
    ASSUME DistinctNames
    PROVE  Spec => []DeployedMatchesStatus
<1>1. DeploymentInv => DeployedMatchesStatus
  BY DEF DeploymentInv, SettledInv, OnlyDeployed, DeployedMatchesStatus, UnitNames
<1>2. QED BY UnitsInvariance, <1>1, PTL

\* While units are replaced, every unit that is removed and not yet created again
\* has its entry in currentlyRestartingUnits, or gets it with the next step of the
\* update loop (pod_controller.go:478-491): for every sequence of specifications.
THEOREM ReplacedAreMarked ==
    ASSUME DistinctNames
    PROVE  Spec => []ReplacedUnitsAreMarked
<1>1. MarkedInv => ReplacedUnitsAreMarked
  BY DEF MarkedInv
<1>2. QED BY UnitsInvariance, <1>1, PTL

\* Whatever fails and whatever other updates do, the goroutine of the last
\* update the loop took starts a regular unit only from the unit's own image
\* (pod_controller.go:290,324).
THEOREM StartsFromImage ==
    ASSUME DistinctNames
    PROVE  Spec => UnitsStartFromTheirImage
<1>1. ImagesInv /\ [Next]_vars =>
        [\A u \in DOMAIN updates :
           \A i \in updates[u].todo \ updates'[u].todo :
              loop.id = u =>
                unit[SpecOf(u).units[i].name].rootfs = SpecOf(u).units[i].image]_vars
  BY DEF ImagesInv, TodoInv, NewUnits
<1>2. QED BY UnitsInvariance, <1>1, PTL DEF Spec, UnitsStartFromTheirImage

\* A start that was given up stays reported as long as its goroutine is the
\* newest, whatever later updates create or fail to create
\* (pod_controller.go:320,332).
THEOREM AbortsAreReported == Spec => []AbortedStartIsReported
<1>1. Init => AbortedStartIsReported
  BY UnitsInit
<1>2. IInv /\ AbortedStartIsReported /\ [Next]_vars => AbortedStartIsReported'
  BY ReportStep
<1>3. QED BY Invariance, <1>1, <1>2, PTL DEF Spec

\* As long as no runtime call has failed, the goroutine of the last update the loop
\* took starts regular units only after every init unit of the pod has exited with
\* 0, also when a change of the regular units lets it skip them
\* (pod_controller.go:281,316).
THEOREM InitUnitsComeFirst ==
    ASSUME InitNamesApart
    PROVE  Spec => InitUnitsFinishFirstUnlessFaulty
<1> DEFINE Inv == IInv /\ InitsInv /\ NothingToDoInv
<1>1. Init => Inv
  <2>1. Init => InitsInv
    BY DEF Init, EmptyStatus, FreshUnit, InitsInv, InitHelpersInv, NewestInv
  <2>2. QED BY <2>1, InitInv, UnitsInit DEF ImagesInv
<1>2. Inv /\ [Next]_vars => Inv'
  <2>1. IInv /\ [Next]_vars => IInv'
    BY TypeStep, PositionsStep, ChanStep, StarterStep DEF IInv
  <2>2. QED BY <2>1, InitsStep, NothingToDoStep
<1>3. Inv /\ [Next]_vars => [faults = 0 => StartsAfterInits]_vars
  BY StartsFollowInits
<1> HIDE DEF Inv
<1>4. QED BY <1>1, <1>2, <1>3, PTL DEF Spec, InitUnitsFinishFirstUnlessFaulty

===============================================================================
