----------------------------- MODULE RuntimeCalls -----------------------------
(***************************************************************************)
(* What the pod controller asks of a container runtime: the calls that     *)
(* CreatePod, RestartPod and RestartUnits of pkg/server/pod_controller.go  *)
(* make on the interface of pkg/runtime/runtime.go, one after the other,   *)
(* and the start goroutine that runs beside them. ItzoRuntime,             *)
(* PodmanRuntime and MacRuntime answer the calls, each in its own module.  *)
(*                                                                         *)
(* The queue of updates, the wait for init units and its giving up are in  *)
(* PodController; here an init unit that was started has finished.         *)
(***************************************************************************)
EXTENDS PodSpecs, Selections

CONSTANTS
    Volumes,        \* volume names
    Requests,       \* what a client may send: [pod, volumes, mounts, overlay]
    MaxUpdates,     \* bound: updates
    MaxFaults       \* bound: calls that fail although nothing is wrong

ASSUME RequestsAssumption ==
    /\ \A r \in Requests :
          /\ r.pod \in Specs
          /\ r.volumes \in Seq(Volumes)
          /\ r.mounts \in [Names -> Seq(Volumes)]
          /\ r.overlay \in BOOLEAN
    /\ MaxUpdates \in Nat
    /\ MaxFaults \in Nat

VARIABLES
    status,         \* podStatus: the request that was applied last
    target,         \* the request being applied
    work,           \* the calls the update loop still has to make
    todo,           \* the units the start goroutine still has to start
    updates,        \* updates so far
    faults,         \* faults so far
    failed          \* history: an update or a start goroutine gave up

callVars == <<status, target, work, todo, updates, faults, failed>>

\* Without the annotation, root file systems are overlays.
NoRequest ==
    [pod |-> EmptyStatus, volumes |-> <<>>, mounts |-> [n \in Names |-> <<>>],
     overlay |-> TRUE]

Call(op, unit, request) == [op |-> op, unit |-> unit, request |-> request]
NoUnit == [name |-> "none", image |-> "none"]

Calls(op, units, request) ==
    [i \in DOMAIN units |-> Call(op, units[i], request)]

-------------------------------------------------------------------------------
(* The calls of an update, in order. The last one spawns the starter.      *)

CreatePod(spec) ==
    <<Call("RunPodSandbox", NoUnit, spec)>>
      \o Calls("CreateContainer", spec.pod.units, spec)

RestartPod(spec, old) ==
    Calls("RemoveContainer", old.pod.units, old)
      \o <<Call("StopPodSandbox", NoUnit, old), Call("RemovePodSandbox", NoUnit, old)>>
      \o CreatePod(spec)

\* (Mutant: the new units are created before the old ones are removed.)
RestartUnits_CreatesFirst(spec, old) ==
    Calls("CreateContainer", Pick(spec.pod.units, ToAdd(spec.pod, old.pod)), spec)
      \o Calls("RemoveContainer", Pick(old.pod.units, ToDelete(spec.pod, old.pod)), old)

RestartUnits(spec, old) ==
    Calls("RemoveContainer", Pick(old.pod.units, ToDelete(spec.pod, old.pod)), old)
      \o Calls("CreateContainer", Pick(spec.pod.units, ToAdd(spec.pod, old.pod)), spec)

Spawn(inits, units) == <<[op |-> "spawn", units |-> inits \o units]>>

SyncPodUnits(spec, old) ==
    LET event == DetectChangeType(spec.pod, old.pod) IN
    CASE event = "pod_created" ->
            CreatePod(spec) \o Spawn(spec.pod.inits, spec.pod.units)
      [] event = "pod_restart" ->
            RestartPod(spec, old) \o Spawn(spec.pod.inits, spec.pod.units)
      [] event = "units_changed" ->
            RestartUnits(spec, old)
              \o Spawn(<<>>, Pick(spec.pod.units, ToAdd(spec.pod, old.pod)))
      [] event = "no_changes" -> <<>>

-------------------------------------------------------------------------------
(* The update loop. doUpdate records the request when SyncPodUnits         *)
(* returns, whether it succeeded or not.                                   *)

Idle == work = <<>>

\* The calls that are left after this one; none, and the update is over.
Proceed(rest) ==
    /\ work' = rest
    /\ status' = IF rest = <<>> THEN target ELSE status
    /\ UNCHANGED <<target, updates, failed>>

GiveUp ==
    /\ work' = <<>>
    /\ status' = target
    /\ failed' = TRUE
    /\ UNCHANGED <<target, updates>>

\* The call at the head of work, which the runtime answers.
Next_(op) == ~Idle /\ Head(work).op = op

Fault == faults < MaxFaults /\ faults' = faults + 1

\* An answer that only a fault explains, or one that needs none.
Ok == Proceed(Tail(work)) /\ UNCHANGED faults
Refused == GiveUp /\ UNCHANGED faults
Broken == GiveUp /\ Fault

\* A failure that is only logged.
Ignored == Fault /\ UNCHANGED <<status, target, work, todo, updates, failed>>

BeginUpdate(request) ==
    /\ Idle
    /\ updates < MaxUpdates
    /\ updates' = updates + 1
    /\ target' = request
    /\ work' = SyncPodUnits(request, status)
    /\ status' = IF work' = <<>> THEN request ELSE status
    /\ UNCHANGED <<todo, faults, failed>>

\* The previous start goroutine is waited for, and the next one started.
SpawnStarter ==
    /\ Next_("spawn")
    /\ todo = <<>>
    /\ todo' = Head(work).units
    /\ Ok

-------------------------------------------------------------------------------
(* The start goroutine.                                                    *)

Starts(name) == todo # <<>> /\ Head(todo).name = name

Started == todo' = Tail(todo) /\ UNCHANGED <<status, target, work, updates, faults, failed>>

\* A start that fails ends the goroutine.
NotStarted ==
    /\ todo' = <<>>
    /\ failed' = TRUE
    /\ UNCHANGED <<status, target, work, updates>>

CallInit ==
    /\ status = NoRequest
    /\ target = NoRequest
    /\ work = <<>>
    /\ todo = <<>>
    /\ updates = 0
    /\ faults = 0
    /\ failed = FALSE

===============================================================================
