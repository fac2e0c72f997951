---------------------------- MODULE PodController ----------------------------
(***************************************************************************)
(* The pod controller of pkg/server/pod_controller.go over the itzo        *)
(* runtime of pkg/runtime/itzo_linux.go.                                   *)
(*                                                                         *)
(* Threads: the HTTP handlers that call UpdatePod, the update loop, and    *)
(* one start goroutine for every update that changed something. Each       *)
(* runtime call is one step of the thread that makes it, so that the       *)
(* others can run between any two calls. The commands of the units run and *)
(* exit on their own (CommandExits).                                       *)
(*                                                                         *)
(* Updates are numbered in the order they enter updateChan; updates[u]     *)
(* holds the specification of update u and the goroutine it spawned.       *)
(***************************************************************************)
EXTENDS PodSpecs, FiniteSets

CONSTANTS
    Handlers,       \* HTTP handlers that may run at the same time
    ChanSize,       \* specChanSize
    MaxUpdates,     \* bound: updates sent in a behaviour
    MaxFaults,      \* bound: runtime calls that fail in a behaviour
    NoImage         \* no root file system deployed

ASSUME ChanSizeAssumption == ChanSize \in Nat \ {0}
ASSUME BoundsAssumption == MaxUpdates \in Nat /\ MaxFaults \in Nat
ASSUME NoImageAssumption == NoImage \notin Images

VARIABLES
    updates,        \* sequence of [spec, pc, next, todo, cancelled]
    handler,        \* [Handlers -> {"idle", "send"}]
    updateChan,     \* the numbers of the updates waiting in the channel
    loop,           \* the update loop: [pc, id, seen, remove, create, marking]
    podStatus,      \* pc.podStatus
    cancelFunc,     \* the update whose context pc.cancelFunc cancels, 0 for nil
    waitGroup,      \* the counter of pc.waitGroup
    syncErrors,     \* the unit names with an entry in pc.syncErrors
    restarting,     \* pc.currentlyRestartingUnits
    unit,           \* per name: [rootfs, helper, exit, orphan]
    faults          \* runtime calls that failed so far

vars == <<updates, handler, updateChan, loop, podStatus, cancelFunc, waitGroup,
          syncErrors, restarting, unit, faults>>

loopVars == <<updateChan, loop, podStatus, cancelFunc, restarting>>
clientVars == <<handler, updateChan>>

\* Where a start goroutine is: not spawned, about to start a unit, in
\* waitForInitUnit, returned after Done, returned without Done.
StarterPCs == {"none", "start", "wait", "done", "gone"}

Live(u) == updates[u].pc \in {"start", "wait"}

NoHelper == "NoHelper"

\* A unit nobody deployed or started. helper is the restart policy of the
\* process RunningUnits holds for the name, orphan tells that a helper runs
\* that RunningUnits does not hold, exit is the last status on disk.
FreshUnit == [rootfs |-> NoImage, helper |-> NoHelper, exit |-> "none",
              orphan |-> FALSE]

-------------------------------------------------------------------------------
(* What the update being applied, loop.id, has to do. podStatus is still   *)
(* the status of the previous update while it is applied.                  *)

SpecOf(u) == updates[u].spec

Event == DetectChangeType(SpecOf(loop.id), podStatus)

\* RestartPod removes the units itself, then RemovePodSandbox removes the init
\* units and the units again.
RemovalList ==
    IF Event = "pod_restart"
    THEN podStatus.units \o podStatus.inits \o podStatus.units
    ELSE podStatus.units

\* Positions in RemovalList to remove, and in spec.units to create, for an
\* update with this specification.
ToRemove(spec) ==
    IF DetectChangeType(spec, podStatus) = "units_changed"
    THEN ToDelete(spec, podStatus)
    ELSE IF DetectChangeType(spec, podStatus) = "pod_restart"
    THEN 1 .. 2 * Len(podStatus.units) + Len(podStatus.inits)
    ELSE {}

ToCreate(spec) ==
    IF DetectChangeType(spec, podStatus) = "units_changed"
    THEN ToAdd(spec, podStatus)
    ELSE DOMAIN spec.units

\* The next position of an ordered loop over the positions left.
Least(i, positions) == i \in positions /\ \A j \in positions : i <= j

\* Runtime calls fail at will, MaxFaults times at most.
MayFail == faults < MaxFaults /\ faults' = faults + 1
NoFault == UNCHANGED faults

-------------------------------------------------------------------------------
(* UpdatePod: the length check and the send are two steps.                 *)

RoomInChan == Len(updateChan) # ChanSize

Sending == {h \in Handlers : handler[h] = "send"}

\* The check passes. When it fails the handler answers with an error and
\* nothing changes.
CheckRoom(h) ==
    /\ handler[h] = "idle"
    /\ Len(updates) + Cardinality(Sending) < MaxUpdates
    /\ RoomInChan
    /\ handler' = [handler EXCEPT ![h] = "send"]
    /\ UNCHANGED <<updates, updateChan, loop, podStatus, cancelFunc, waitGroup,
                   syncErrors, restarting, unit, faults>>

NewUpdate(spec) ==
    [spec |-> spec, pc |-> "none", next |-> 1, todo |-> {}, cancelled |-> FALSE]

\* The send, which blocks while the channel is full.
Send(h, spec) ==
    /\ handler[h] = "send"
    /\ Len(updateChan) < ChanSize
    /\ updates' = Append(updates, NewUpdate(spec))
    /\ updateChan' = Append(updateChan, Len(updates) + 1)
    /\ handler' = [handler EXCEPT ![h] = "idle"]
    /\ UNCHANGED <<loop, podStatus, cancelFunc, waitGroup, syncErrors,
                   restarting, unit, faults>>

-------------------------------------------------------------------------------
(* runUpdateLoop and doUpdate.                                             *)

\* A newer update follows the one at the head of the channel. (Mutants: the
\* bound is off by one in either direction.)
Outdated_DropsAll == Len(updateChan) > 0
Outdated_KeepsTwo == Len(updateChan) > 2
Outdated == Len(updateChan) > 1

\* Pulls off and drops an update that a newer one follows.
DropOutdated ==
    /\ loop.pc = "check"
    /\ Outdated
    /\ updateChan' = Tail(updateChan)
    /\ UNCHANGED <<updates, handler, loop, podStatus, cancelFunc, waitGroup,
                   syncErrors, restarting, unit, faults>>

\* At most one update waits: go on to the blocking receive. loop.seen keeps
\* the newest update at this point.
StopDropping ==
    /\ loop.pc = "check"
    /\ ~Outdated
    /\ loop' = [loop EXCEPT !.pc = "receive", !.seen = Len(updates)]
    /\ UNCHANGED <<updates, handler, updateChan, podStatus, cancelFunc,
                   waitGroup, syncErrors, restarting, unit, faults>>

\* Receives an update and starts SyncPodUnits on it. Without changes only
\* podStatus is replaced.
Receive ==
    /\ loop.pc = "receive"
    /\ updateChan # <<>>
    /\ updateChan' = Tail(updateChan)
    /\ LET spec == SpecOf(Head(updateChan)) IN
       IF DetectChangeType(spec, podStatus) = "no_changes"
       THEN /\ loop' = [loop EXCEPT !.pc = "check", !.id = Head(updateChan)]
            /\ podStatus' = spec
       ELSE /\ loop' = [loop EXCEPT !.pc = "remove", !.id = Head(updateChan),
                                    !.remove = ToRemove(spec),
                                    !.create = ToCreate(spec)]
            /\ UNCHANGED podStatus
    /\ UNCHANGED <<updates, handler, cancelFunc, waitGroup, syncErrors,
                   restarting, unit, faults>>

\* doUpdate records the specification when SyncPodUnits returns, also when it
\* returned early with an error.
FinishUpdate ==
    /\ podStatus' = SpecOf(loop.id)
    /\ loop' = [loop EXCEPT !.pc = "check", !.remove = {}, !.create = {}]

-------------------------------------------------------------------------------
(* RestartUnits, RestartPod and CreatePod: remove, prepare the sandbox,    *)
(* create. The first error ends the update.                                *)

\* ItzoRuntime.RemoveContainer: the helper is killed, then the directory of
\* the unit is removed. StopUnit errors are ignored, so a helper RunningUnits
\* does not hold survives. A removal that fails may have removed a part.
Removed(u) == [u EXCEPT !.helper = NoHelper, !.rootfs = NoImage, !.exit = "none"]
PartlyRemoved(u) ==
    {[u EXCEPT !.helper = NoHelper, !.rootfs = r, !.exit = e] :
        r \in {u.rootfs, NoImage}, e \in {u.exit, "none"}}

\* RestartUnits sets or deletes the entry of the unit in
\* currentlyRestartingUnits when the runtime call has returned: the names that
\* this concerns next. RestartPod and CreatePod do not.
ToMark(name) == IF Event = "units_changed" THEN {name} ELSE {}

RemoveContainer(i) ==
    LET name == RemovalList[i].name IN
    /\ loop.pc = "remove"
    /\ loop.marking = {}
    /\ Least(i, loop.remove)
    /\ \/ /\ NoFault
          /\ unit' = [unit EXCEPT ![name] = Removed(@)]
          /\ loop' = [loop EXCEPT !.remove = @ \ {i}, !.marking = ToMark(name)]
          /\ UNCHANGED podStatus
       \/ /\ MayFail
          /\ \E r \in PartlyRemoved(unit[name]) :
                unit' = [unit EXCEPT ![name] = r]
          /\ FinishUpdate
    /\ UNCHANGED <<updates, handler, updateChan, cancelFunc, waitGroup, syncErrors,
                   restarting>>

\* The entry of the unit that was removed or created last. (Mutant: the removed
\* unit gets none.)
Marked_Never == IF loop.pc = "remove" THEN restarting ELSE restarting \ loop.marking
Marked ==
    IF loop.pc = "remove" THEN restarting \cup loop.marking
    ELSE restarting \ loop.marking

\* currentlyRestartingUnits.Set after a removal, Delete after a creation.
MarkRestarting ==
    /\ loop.pc \in {"remove", "create"}
    /\ loop.marking # {}
    /\ restarting' = Marked
    /\ loop' = [loop EXCEPT !.marking = {}]
    /\ UNCHANGED <<updates, handler, updateChan, podStatus, cancelFunc, waitGroup,
                   syncErrors, unit, faults>>

\* Removals done. A pod that is created or restarted now deletes and creates
\* its volumes, which may fail; a failure leaves no entry in syncErrors.
PrepareSandbox ==
    /\ loop.pc = "remove"
    /\ loop.remove = {} /\ loop.marking = {}
    /\ \/ /\ NoFault
          /\ loop' = [loop EXCEPT !.pc = "create"]
          /\ UNCHANGED podStatus
       \/ /\ Event # "units_changed"
          /\ MayFail
          /\ FinishUpdate
    /\ UNCHANGED <<updates, handler, updateChan, cancelFunc, waitGroup,
                   syncErrors, restarting, unit>>

\* What a failed creation does to the update: it ends. (Mutant: the error is
\* logged and the next unit is created.)
CreationFailed_GoesOn(i) ==
    /\ loop' = [loop EXCEPT !.create = @ \ {i}]
    /\ UNCHANGED podStatus
CreationFailed(i) == FinishUpdate

\* ItzoRuntime.CreateContainer: pull the image into the unit's directory, save
\* the unit's configuration, attach its mounts. A failed call may have deployed
\* the image already.
CreateContainer(i) ==
    LET u == SpecOf(loop.id).units[i]
        deployed == [unit EXCEPT ![u.name].rootfs = u.image]
    IN
    /\ loop.pc = "create"
    /\ loop.marking = {}
    /\ Least(i, loop.create)
    /\ \/ /\ NoFault
          /\ unit' = deployed
          /\ loop' = [loop EXCEPT !.create = @ \ {i}, !.marking = ToMark(u.name)]
          /\ UNCHANGED <<podStatus, syncErrors>>
       \/ /\ MayFail
          /\ unit' \in {unit, deployed}
          /\ syncErrors' = syncErrors \cup {u.name}
          /\ CreationFailed(i)
    /\ UNCHANGED <<updates, handler, updateChan, cancelFunc, waitGroup, restarting>>

\* Everything is created: a context for this update, and the end of the
\* previous one.
CancelPrevious ==
    /\ loop.pc = "create"
    /\ loop.create = {} /\ loop.marking = {}
    /\ updates' = [u \in DOMAIN updates |->
                     IF u = cancelFunc
                     THEN [updates[u] EXCEPT !.cancelled = TRUE]
                     ELSE updates[u]]
    /\ cancelFunc' = loop.id
    /\ loop' = [loop EXCEPT !.pc = "wait"]
    /\ UNCHANGED <<handler, updateChan, podStatus, waitGroup, syncErrors,
                   restarting, unit, faults>>

\* pc.waitGroup.Wait() returns. (Mutant: the wait is dropped.)
PreviousFinished_NoWait == TRUE
PreviousFinished == waitGroup = 0

\* The goroutine of this update. A change of units skips the init units.
SpawnStarter ==
    LET spec == SpecOf(loop.id) IN
    /\ loop.pc = "wait"
    /\ PreviousFinished
    /\ waitGroup' = 1
    /\ updates' = [updates EXCEPT ![loop.id].pc = "start",
                     ![loop.id].next = IF Event = "units_changed"
                                       THEN Len(spec.inits) + 1 ELSE 1,
                     ![loop.id].todo = ToCreate(spec)]
    /\ FinishUpdate
    /\ UNCHANGED <<handler, updateChan, cancelFunc, syncErrors, restarting,
                   unit, faults>>

UpdateLoop ==
    \/ DropOutdated
    \/ StopDropping
    \/ Receive
    \/ \E i \in loop.remove : RemoveContainer(i)
    \/ MarkRestarting
    \/ PrepareSandbox
    \/ \E i \in loop.create : CreateContainer(i)
    \/ CancelPrevious
    \/ SpawnStarter

-------------------------------------------------------------------------------
(* The start goroutine of update u.                                        *)

\* StartContainer runs a helper with the pod's policy, also for init units,
\* and RunningUnits forgets the helper it held under the name. The status on
\* disk is no longer the one of an exit.
Started(n, policy) ==
    [unit EXCEPT ![n].helper = policy,
                 ![n].exit = "none",
                 ![n].orphan = @ \/ unit[n].helper # NoHelper]

MoreInits(u) == updates[u].next <= Len(SpecOf(u).inits)

CurrentInit(u) == SpecOf(u).inits[updates[u].next].name

\* pc.syncErrors[unit.Name] = *unitStatus. (Mutant: only logged.)
Report_OnlyLogged(name) == UNCHANGED syncErrors
Report(name) == syncErrors' = syncErrors \cup {name}

\* pc.waitGroup.Done(). (Mutant: forgotten.)
Done_Forgotten == UNCHANGED waitGroup
Done == waitGroup' = waitGroup - 1

\* StartContainer failed: report the unit, call Done and return.
AbortStart(u, name) ==
    /\ MayFail
    /\ Report(name)
    /\ Done
    /\ updates' = [updates EXCEPT ![u].pc = "done"]
    /\ UNCHANGED unit

StartInitUnit(u) ==
    /\ updates[u].pc = "start"
    /\ MoreInits(u)
    /\ \/ /\ NoFault
          /\ unit' = Started(CurrentInit(u), SpecOf(u).policy)
          /\ updates' = [updates EXCEPT ![u].pc = "wait"]
          /\ UNCHANGED <<waitGroup, syncErrors>>
       \/ AbortStart(u, CurrentInit(u))
    /\ UNCHANGED <<loopVars, handler>>

\* What a poll of waitForInitUnit finds: a running unit is not terminated,
\* whatever its status on disk says.
ExitSeen(name, code) == unit[name].helper = NoHelper /\ unit[name].exit = code

\* waitForInitUnit returns true. (Mutant: on any exit.)
WaitSucceeded_AnyExit(u) == \E code \in {"ok", "err"} : ExitSeen(CurrentInit(u), code)
WaitSucceeded(u) == ExitSeen(CurrentInit(u), "ok")

\* The init unit exited with 0: on to the next unit.
InitUnitSucceeded(u) ==
    /\ updates[u].pc = "wait"
    /\ WaitSucceeded(u)
    /\ updates' = [updates EXCEPT ![u].pc = "start", ![u].next = @ + 1]
    /\ UNCHANGED <<loopVars, handler, waitGroup, syncErrors, unit, faults>>

\* waitForInitUnit returned false: the context was cancelled, or the init unit
\* failed and its policy is Never. The goroutine returns without Done.
WaitGivenUp(u) ==
    \/ updates[u].cancelled
    \/ /\ SpecOf(u).policy = "Never"
       /\ ExitSeen(CurrentInit(u), "err")

GiveUpOnInit(u) ==
    /\ updates[u].pc = "wait"
    /\ WaitGivenUp(u)
    /\ updates' = [updates EXCEPT ![u].pc = "gone"]
    /\ UNCHANGED <<loopVars, handler, waitGroup, syncErrors, unit, faults>>

StartMainUnit(u, i) ==
    LET name == SpecOf(u).units[i].name IN
    /\ updates[u].pc = "start"
    /\ ~MoreInits(u)
    /\ Least(i, updates[u].todo)
    /\ \/ /\ NoFault
          /\ unit' = Started(name, SpecOf(u).policy)
          /\ syncErrors' = syncErrors \ {name}
          /\ updates' = [updates EXCEPT ![u].todo = @ \ {i}]
          /\ UNCHANGED waitGroup
       \/ AbortStart(u, name)
    /\ UNCHANGED <<loopVars, handler>>

FinishStart(u) ==
    /\ updates[u].pc = "start"
    /\ ~MoreInits(u)
    /\ updates[u].todo = {}
    /\ Done
    /\ updates' = [updates EXCEPT ![u].pc = "done"]
    /\ UNCHANGED <<loopVars, handler, syncErrors, unit, faults>>

Starter(u) ==
    \/ StartInitUnit(u)
    \/ InitUnitSucceeded(u)
    \/ GiveUpOnInit(u)
    \/ \E i \in updates[u].todo : StartMainUnit(u, i)
    \/ FinishStart(u)

-------------------------------------------------------------------------------
(* The helper of a unit: its command exits and the restart policy decides  *)
(* whether it is run again.                                                *)

RunAgain(policy, failed) ==
    \/ policy = "Always"
    \/ policy = "OnFailure" /\ failed

\* code is what the status on disk says. The reaper of the helper may take the
\* exit status before the helper does: then the code is 0, a failure all the
\* same. A failed probe has the code 0 and is no failure.
CommandExits(n, code, failed) ==
    /\ code = "err" => failed
    /\ unit[n].helper # NoHelper
    /\ unit' = [unit EXCEPT ![n].exit = code,
                            ![n].helper = IF RunAgain(@, failed) THEN @ ELSE NoHelper]
    /\ UNCHANGED <<loopVars, handler, updates, waitGroup, syncErrors, faults>>

\* The helper ends before it runs the command, whatever the policy.
HelperFails(n) ==
    /\ unit[n].helper # NoHelper
    /\ unit' = [unit EXCEPT ![n].exit = "none", ![n].helper = NoHelper]
    /\ UNCHANGED <<loopVars, handler, updates, waitGroup, syncErrors, faults>>

\* The command of a helper RunningUnits lost track of exits; its status
\* overwrites the status on disk.
OrphanExits(n, code) ==
    /\ unit[n].orphan
    /\ unit' = [unit EXCEPT ![n].exit = code]
    /\ UNCHANGED <<loopVars, handler, updates, waitGroup, syncErrors, faults>>

Helper(n) ==
    \/ HelperFails(n)
    \/ \E code \in {"ok", "err"} :
          \/ OrphanExits(n, code)
          \/ \E failed \in BOOLEAN : CommandExits(n, code, failed)

-------------------------------------------------------------------------------

Init ==
    /\ updates = <<>>
    /\ handler = [h \in Handlers |-> "idle"]
    /\ updateChan = <<>>
    /\ loop = [pc |-> "check", id |-> 0, seen |-> 0, remove |-> {}, create |-> {},
               marking |-> {}]
    /\ podStatus = EmptyStatus
    /\ cancelFunc = 0
    /\ waitGroup = 0
    /\ syncErrors = {}
    /\ restarting = {}
    /\ unit = [n \in Names |-> FreshUnit]
    /\ faults = 0

Next ==
    \/ \E h \in Handlers : CheckRoom(h)
    \/ \E h \in Handlers, s \in Specs : Send(h, s)
    \/ UpdateLoop
    \/ \E u \in DOMAIN updates : Starter(u)
    \/ \E n \in Names : Helper(n)

Spec == Init /\ [][Next]_vars

\* The Go scheduler runs every goroutine that can run, a blocked send goes
\* through once there is room, and the commands of units exit with 0 if they
\* are run again and again.
Fairness ==
    /\ \A h \in Handlers : WF_vars(\E s \in Specs : Send(h, s))
    /\ WF_vars(UpdateLoop)
    /\ \A u \in 1 .. MaxUpdates : WF_vars(u \in DOMAIN updates /\ Starter(u))
    /\ \A n \in Names : WF_vars(CommandExits(n, "ok", FALSE))

FairSpec == Spec /\ Fairness

-------------------------------------------------------------------------------
(* Properties.                                                             *)

Update == [spec : Specs, pc : StarterPCs, next : Nat \ {0},
           todo : SUBSET Nat, cancelled : BOOLEAN]

UnitState == [rootfs : Images \cup {NoImage}, helper : Policies \cup {NoHelper},
              exit : {"none", "ok", "err"}, orphan : BOOLEAN]

TypeOK ==
    /\ updates \in Seq(Update)
    /\ handler \in [Handlers -> {"idle", "send"}]
    /\ updateChan \in Seq(DOMAIN updates)
    /\ Len(updateChan) <= ChanSize
    /\ loop \in [pc : {"check", "receive", "remove", "create", "wait"},
                 id : Nat, seen : Nat, remove : SUBSET Nat, create : SUBSET Nat,
                 marking : SUBSET Names]
    /\ loop.id \in DOMAIN updates \cup {0}
    /\ loop.pc \in {"remove", "create", "wait"} => loop.id # 0
    /\ podStatus \in Specs \cup {EmptyStatus}
    /\ cancelFunc \in DOMAIN updates \cup {0}
    /\ waitGroup \in Nat
    /\ syncErrors \subseteq Names
    /\ restarting \subseteq Names
    /\ unit \in [Names -> UnitState]
    /\ faults \in 0 .. MaxFaults

\* The goroutine of update u was spawned.
Spawned(u) == updates[u].pc # "none"

\* No goroutine was spawned after the one of update u.
NewestSpawned(u) ==
    /\ Spawned(u)
    /\ \A v \in DOMAIN updates : Spawned(v) => v <= u

\* At most one start goroutine runs, and it is the newest: once an update has
\* spawned its goroutine, none of an earlier update starts a unit any more
\* ("Wait for previous update to finish.", pod_controller.go:306).
OnlyNewestStarterRuns ==
    \A u \in DOMAIN updates : Live(u) => NewestSpawned(u)

\* The newest accepted update waits in the channel, is being applied or has
\* been applied: dropping outdated updates never drops the latest one
\* (pod_controller.go:117).
LatestUpdateNotLost ==
    updates # <<>> =>
        \/ loop.id = Len(updates)
        \/ updateChan # <<>> /\ updateChan[Len(updateChan)] = Len(updates)

\* A goroutine that returned before it had started everything, after the
\* failure of a start, left the unit that failed in syncErrors for GetStatus
\* to report (pod_controller.go:320,332), and no later failed update takes it
\* away.
AbortedStartIsReported ==
    \A u \in DOMAIN updates :
        NewestSpawned(u) /\ updates[u].pc = "done" =>
            /\ MoreInits(u) => CurrentInit(u) \in syncErrors
            /\ ~MoreInits(u) =>
                \A i \in updates[u].todo :
                    Least(i, updates[u].todo) => SpecOf(u).units[i].name \in syncErrors

\* While update u is the last one the loop took, its goroutine starts a
\* regular unit only from the root file system of the unit's own image: the
\* creation is over, and no removal of an earlier update comes late. (Without
\* a root file system the command would run outside of any chroot.)
UnitsStartFromTheirImage ==
    [][\A u \in DOMAIN updates :
         \A i \in updates[u].todo \ updates'[u].todo :
            loop.id = u =>
              unit[SpecOf(u).units[i].name].rootfs = SpecOf(u).units[i].image]_vars

\* While update u is the last one the loop took, its goroutine starts a
\* regular unit only when every init unit of the pod has exited with 0 and none
\* of them runs ("Start init units first, one by one, and wait for each to
\* finish.", pod_controller.go:316).
StartsAfterInits ==
    \A u \in DOMAIN updates :
        loop.id = u /\ updates[u].todo \ updates'[u].todo # {} =>
            \A j \in DOMAIN SpecOf(u).inits :
                ExitSeen(SpecOf(u).inits[j].name, "ok")

\* As long as no runtime call has failed: a change of the regular units may skip
\* the init units, because they finished, or were about to finish, when it
\* arrived. After a failed creation it skips init units that never ran.
InitUnitsFinishFirstUnlessFaulty ==
    [][faults = 0 => StartsAfterInits]_vars

\* While the regular units of a pod are replaced, currentlyRestartingUnits has
\* an entry for every unit of podStatus that is removed and not yet created
\* again, for GetStatus to find ("if KIP asks for status in the middle of the
\* restart", pod_controller.go:381) - but for the unit that was removed last,
\* whose entry is the next thing the loop sets (:478,482): the gap in which
\* GetStatus does not find it is that one step, and no other. The entry stays
\* until the unit is created.
ReplacedUnitsAreMarked ==
    loop.pc \in {"remove", "create"} /\ Event = "units_changed" /\ faults = 0 =>
        \A n \in UnitNames(podStatus.units) :
            unit[n].rootfs = NoImage =>
                n \in restarting \/ (loop.pc = "remove" /\ n \in loop.marking)

\* Between updates, when no runtime call has failed, exactly the regular units
\* of podStatus are deployed, each with its image: additions, removals,
\* replacements and reorderings of any number of updates leave nothing behind
\* and lose nothing, although the positional diff deletes and adds the same
\* name in one update.
DeployedMatchesStatus ==
    loop.pc \in {"check", "receive"} /\ faults = 0 =>
        /\ \A i \in DOMAIN podStatus.units :
              unit[podStatus.units[i].name].rootfs = podStatus.units[i].image
        /\ \A n \in Names \ UnitNames(podStatus.units) : unit[n].rootfs = NoImage

\* The controller takes updates as PodUpdates describes.
Delivery == INSTANCE PodUpdates WITH
    latest <- Len(updates), seen <- loop.seen, taken <- loop.id

TakesLatestUpdates == Delivery!Spec

\* A sent update, or a newer one, is eventually applied and recorded in
\* podStatus: the update loop never waits for ever (pod_controller.go:306).
\* Holds for pods without init units only, see UpdateIsNotStuck.
EveryUpdateIsApplied ==
    \A u \in 1 .. MaxUpdates :
        u \in DOMAIN updates ~>
            loop.id >= u /\ loop.pc \in {"check", "receive"}

\* A handler that passed the length check gets its update into the channel and
\* answers its client (pod_controller.go:156-158).
HandlersReturn == \A h \in Handlers : handler[h] = "send" ~> handler[h] = "idle"

-------------------------------------------------------------------------------
(* The parts of the inductive invariant that PodControllerProofs proves.   *)

\* The positions of every pending loop exist.
PositionsInv ==
    /\ loop.pc = "remove" => loop.remove \subseteq ToRemove(SpecOf(loop.id))
    /\ loop.pc \in {"remove", "create"} =>
          loop.create \subseteq DOMAIN SpecOf(loop.id).units
    /\ \A u \in DOMAIN updates :
          /\ updates[u].todo \subseteq DOMAIN SpecOf(u).units
          /\ updates[u].pc = "wait" => MoreInits(u)

\* The channel holds the newest updates in order, all newer than loop.id, and
\* it is empty only when the newest update was received.
ChanInv ==
    /\ \A k \in DOMAIN updateChan :
          updateChan[k] = Len(updates) - Len(updateChan) + k
    /\ loop.id + Len(updateChan) <= Len(updates)
    /\ updateChan = <<>> => loop.id = Len(updates)

\* A goroutine the wait group still counts, also one that returned without
\* Done.
Pending(u) == updates[u].pc \in {"start", "wait", "gone"}

\* Only updates the loop has reached have goroutines, at most one is pending,
\* it is the newest one, and the wait group counts it.
StarterInv ==
    /\ \A u \in DOMAIN updates : Spawned(u) =>
          u <= loop.id /\ (loop.pc \in {"remove", "create", "wait"} => u # loop.id)
    /\ \A u \in DOMAIN updates : Pending(u) => NewestSpawned(u) /\ waitGroup = 1

\* What the last look at the channel length tells about the next update.
SeenInv ==
    /\ loop.seen <= Len(updates)
    /\ loop.pc = "receive" => loop.seen <= Len(updates) - Len(updateChan) + 1

IInv == TypeOK /\ PositionsInv /\ ChanInv /\ StarterInv /\ SeenInv

-------------------------------------------------------------------------------
(* What comments of the code say and the code does not do.                 *)

\* pod_controller.go:306 "Wait for previous update to finish.": the wait ends.
UpdateIsNotStuck == loop.pc = "wait" ~> loop.pc # "wait"

WaitsForInit(u) == u \in DOMAIN updates /\ updates[u].pc = "wait"

\* pod_controller.go:312 "Restart policy "Always" is nonsensical for init
\* units.": an init unit whose command exits with 0 is finished.
SuccessfulInitUnitFinishes ==
    \A u \in 1 .. MaxUpdates :
        (WaitsForInit(u) /\ unit[CurrentInit(u)].exit = "ok") ~> ~WaitsForInit(u)

===============================================================================
