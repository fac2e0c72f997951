------------------------------- MODULE Runtimes -------------------------------
(***************************************************************************)
(* The calls of the pod controller answered by the runtime that the flags  *)
(* of the daemon choose.                                                   *)
(***************************************************************************)
EXTENDS ItzoRuntime, PodmanRuntime, MacRuntime

VARIABLE
    runtime         \* the runtime the daemon was started with

runtimes == {"itzo", "podman", "mac"}

vars == <<callVars, itzoVars, podmanVars, macVars, runtime>>

Init ==
    /\ runtime \in runtimes
    /\ CallInit
    /\ ItzoInit
    /\ PodmanInit
    /\ MacInit
    \* what the runtimes that are not used look like does not matter
    /\ runtime # "itzo" =>
          /\ source = CHOOSE s \in Sources : TRUE
          /\ \A v \in Volumes : hostfile[v] = "absent"

\* The controller's own steps. The machines that were dropped count from the
\* start of a start goroutine.
Controller ==
    /\ ~crashed
    /\ \/ (\E r \in Requests : BeginUpdate(r)) /\ UNCHANGED macVars
       \/ /\ SpawnStarter
          /\ dropped' = {}
          /\ UNCHANGED <<vmid, image, vm, crashed>>
    /\ UNCHANGED <<itzoVars, podmanVars, runtime>>

Next ==
    \/ Controller
    \/ /\ runtime = "itzo" /\ ItzoAnswer
       /\ UNCHANGED <<podmanVars, macVars, runtime>>
    \/ /\ runtime = "podman" /\ PodmanAnswer
       /\ UNCHANGED <<itzoVars, macVars, runtime>>
    \/ /\ runtime = "mac" /\ MacAnswer
       /\ UNCHANGED <<itzoVars, podmanVars, runtime>>

Spec == Init /\ [][Next]_vars

-------------------------------------------------------------------------------
(* Properties.                                                             *)

TypeOK ==
    /\ runtime \in runtimes
    /\ status.pod \in Specs \cup {EmptyStatus}
    /\ updates \in 0 .. MaxUpdates /\ faults \in 0 .. MaxFaults
    /\ entry \in [Volumes -> {"none", "dir", "link"}]
    /\ layers \in [Volumes -> Seq({"bind", "tmpfs"})]
    /\ source \in Sources /\ hostfile \in [Volumes -> Files]
    /\ dir \subseteq Names /\ helper \subseteq Names /\ overlaid \subseteq Names
    /\ attached \in [Names -> [Volumes -> Nat]]
    /\ stopped \in BOOLEAN /\ detaching \in Seq(Volumes)
    /\ leftMounted \subseteq Names /\ emptied \subseteq Volumes
    /\ ctr \in [Names -> {"none", "created", "running", "exited"}]
    /\ vmid \subseteq Names
    /\ image \in [Names -> Images]
    /\ vm \in [Images -> {"absent", "stopped", "running"}]
    /\ crashed => runtime = "mac"

\* How often a unit's specification mounts the volume.
Wanted(name, v) ==
    Cardinality({i \in DOMAIN status.mounts[name] : status.mounts[name][i] = v})

\* What the controller believes to be deployed is: after updates none of which
\* gave up, every regular unit has a container, a machine, or a directory in
\* which each of its volumes is mounted exactly once - although a start of the
\* previous update may run while units are removed and created
\* (pod_controller.go:422-495). podman's swallowed creations are the exception.
UnitsAreDeployed ==
    Idle /\ ~failed =>
      \A n \in UnitNames(status.pod.units) :
        CASE runtime = "itzo" ->
                n \in dir /\ \A v \in Volumes : attached[n][v] = Wanted(n, v)
          [] runtime = "podman" -> ctr[n] # "none" \/ swallowed
          [] runtime = "mac" -> MacStatus(n) # "nil"

\* A unit has the same mounts in every request that has it. Then a unit whose
\* mounts change is created again; otherwise the controller, which compares names
\* and images, would leave it as it is.
MountsFollowUnits(requests) ==
    \A r, q \in requests : \A j \in DOMAIN r.pod.units, k \in DOMAIN q.pod.units :
        r.pod.units[j] = q.pod.units[k] =>
            LET name == r.pod.units[j].name IN r.mounts[name] = q.mounts[name]

\* The removal of a unit takes a volume's content along only when one of its own
\* unmounts failed, which RemoveContainer logs before it removes the files all the
\* same, or when an earlier call gave up: the controller then holds the mounts of
\* units that it never created for those of the units that are there
\* (itzo_linux.go:159-187, unit.go:352-360).
VolumesSurviveUnits ==
    [][emptied' # emptied => failed \/ Head(work).unit.name \in leftMounted']_vars

InitNames == UNION {UnitNames(r.pod.inits) : r \in Requests}

\* The daemon only dies of a unit without a machine when that is an init unit,
\* which nobody creates, or one that the update loop removed under the start
\* goroutine (pod_controller.go:320,332, mac.go:85-88).
CrashNeedsRemovedUnit ==
    [][crashed' /\ ~crashed => Head(todo).name \in dropped \cup InitNames]_vars

\* What RemoveContainer promises: "Detach all its mounts" comes before "Remove
\* its files/directories" (itzo_linux.go:164-166).
MountsAreDetachedFirst == emptied = {}

===============================================================================
