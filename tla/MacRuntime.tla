------------------------------ MODULE MacRuntime ------------------------------
(***************************************************************************)
(* The runtime that runs units as virtual machines of anka on a Mac:       *)
(* pkg/runtime/mac. A machine is named by the last part of the image, so   *)
(* units of one image share it. anka and its registry are external.        *)
(***************************************************************************)
EXTENDS RuntimeCalls

CONSTANT
    Templates       \* the images the registry has a template of

ASSUME TemplatesAssumption ==
    /\ Templates \subseteq Images
    /\ Images # {}

VARIABLES
    vmid,           \* UnitsVMIDs: the units with a machine
    image,          \* per unit: the image of its machine
    vm,             \* per image: "absent", "stopped" or "running"
    dropped,        \* history: units removed since the starter was spawned
    crashed         \* a nil status was dereferenced in the start goroutine

macVars == <<vmid, image, vm, dropped, crashed>>

\* EnsureAnkaBin; the other two do nothing.
MacSandbox ==
    /\ \/ Next_("RunPodSandbox") /\ (Ok \/ Broken)
       \/ Next_("StopPodSandbox") /\ Ok
       \/ Next_("RemovePodSandbox") /\ Ok
    /\ UNCHANGED <<vmid, image, vm, dropped, crashed, todo>>

\* The anka commands: show, registry pull, start and stop, and the question to
\* the registry whether it has the template.
Shown(i) == vm[i] # "absent"
GetVMTemplate(i) == i \in Templates
PullImage(i) == vm' = [vm EXCEPT ![i] = IF @ = "absent" THEN "stopped" ELSE @]
Start(i) == vm' = [vm EXCEPT ![i] = "running"]
Stop(i) == vm' = [vm EXCEPT ![i] = "stopped"]

Store(unit) ==
    /\ vmid' = vmid \cup {unit.name}
    /\ image' = [image EXCEPT ![unit.name] = unit.image]

\* (Mutant: the machine that is there already is not stored.)
MacCreateContainer_NotStored(unit) ==
    /\ \/ Shown(unit.image) /\ Ok /\ UNCHANGED <<vmid, image, vm>>
       \/ GetVMTemplate(unit.image) /\ PullImage(unit.image) /\ Store(unit) /\ Ok
    /\ UNCHANGED <<dropped, crashed, todo>>

\* A machine that anka shows is used; otherwise its template is looked up and
\* pulled.
MacCreateContainer(unit) ==
    /\ \/ Shown(unit.image) /\ Store(unit) /\ Ok /\ UNCHANGED vm
       \/ /\ GetVMTemplate(unit.image)
          /\ PullImage(unit.image)
          /\ Store(unit)
          /\ Proceed(Tail(work))
          /\ IF Shown(unit.image) THEN Fault ELSE UNCHANGED faults
       \/ /\ ~Shown(unit.image) /\ ~GetVMTemplate(unit.image)
          /\ Refused
          /\ UNCHANGED <<vmid, image, vm>>
       \/ Broken /\ UNCHANGED <<vmid, image, vm>>
    /\ UNCHANGED <<dropped, crashed, todo>>

\* Without a machine the call returns an error and no status, and the starter
\* dereferences the status: the daemon ends.
MacStartContainer(name) ==
    /\ Starts(name)
    /\ \/ /\ name \in vmid
          /\ Start(image[name])
          /\ Started
          /\ UNCHANGED crashed
       \/ name \in vmid /\ NotStarted /\ Fault /\ UNCHANGED <<vm, crashed>>
       \/ name \notin vmid /\ crashed' = TRUE /\ NotStarted /\ UNCHANGED <<vm, faults>>
    /\ UNCHANGED <<vmid, image, dropped>>

\* The machine is stopped, not deleted.
MacRemoveContainer(name) ==
    /\ \/ /\ name \in vmid
          /\ Stop(image[name])
          /\ vmid' = vmid \ {name}
          /\ dropped' = dropped \cup {name}
          /\ Ok
       \/ name \notin vmid /\ Refused /\ UNCHANGED <<vm, vmid, dropped>>
       \/ name \in vmid /\ Broken /\ UNCHANGED <<vm, vmid, dropped>>
    /\ UNCHANGED <<image, crashed, todo>>

MachineStops(i) ==
    /\ vm[i] = "running"
    /\ Stop(i)
    /\ UNCHANGED <<vmid, image, dropped, crashed>>
    /\ UNCHANGED callVars

MacAnswer ==
    /\ ~crashed
    /\ \/ MacSandbox
       \/ Next_("CreateContainer") /\ MacCreateContainer(Head(work).unit)
       \/ Next_("RemoveContainer") /\ MacRemoveContainer(Head(work).unit.name)
       \/ \E name \in Names : MacStartContainer(name)
       \/ \E i \in Images : MachineStops(i)

MacInit ==
    /\ vmid = {}
    /\ image = [n \in Names |-> CHOOSE i \in Images : TRUE]
    /\ vm = [i \in Images |-> "absent"]
    /\ dropped = {}
    /\ crashed = FALSE

\* ContainerStatus: no status at all without a machine, and a failed one while
\* the machine is not running, also before its first start.
MacStatus(name) ==
    IF name \notin vmid THEN "nil"
    ELSE CASE vm[image[name]] = "running" -> "running"
           [] vm[image[name]] = "stopped" -> "failed"
           [] OTHER -> "nil"

===============================================================================
