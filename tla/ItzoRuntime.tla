----------------------------- MODULE ItzoRuntime -----------------------------
(***************************************************************************)
(* The runtime that runs units itself: pkg/runtime/itzo_linux.go and the   *)
(* volumes of pkg/mount/mount.go.                                          *)
(*                                                                         *)
(* A volume has an entry under mounts/: a directory for an emptyDir, a     *)
(* link for everything else. An emptyDir is mounted onto itself, and a     *)
(* memory one has a tmpfs on top. A unit has a directory with its root     *)
(* file system, into which its volumes are mounted.                        *)
(***************************************************************************)
EXTENDS RuntimeCalls, Integers

CONSTANT
    Sources         \* what the volumes may be: functions from Volumes

\* What the path of a host path volume is.
Files == {"absent", "dir", "file", "socket", "chardev", "blockdev"}

HostPathTypes == {"Unset", "DirectoryOrCreate", "Directory", "FileOrCreate", "File",
                  "Socket", "CharDevice", "BlockDevice", "invalid"}

\* An emptyDir by its medium; several: a disk emptyDir and another source.
EmptyDirs == {"disk", "memory", "unknown", "several"}

\* content: a package, secret, config map or projected volume.
ASSUME SourcesAssumption ==
    Sources \subseteq
        [Volumes -> EmptyDirs \cup HostPathTypes \cup {"content", "nothing"}]

VARIABLES
    source,         \* per volume: its VolumeSource; never changes
    entry,          \* per volume: "none", "dir" or "link"
    layers,         \* per volume: what is mounted at its entry, the last on top
    hostfile,       \* per volume: what its host path is
    overlaid,       \* the units whose root file system is an overlay mount
    dir,            \* the units that have a directory
    helper,         \* the units that run
    attached,       \* per unit and volume: how often it is mounted in the unit
    stopped,        \* the unit that RemoveContainer is about has been stopped
    detaching,      \* the volumes RemoveContainer still has to detach from it
    leftMounted,    \* history: the units one of whose unmounts failed
    emptied         \* history: volumes whose content went with a unit's files

volumeVars == <<entry, layers, hostfile>>
removalVars == <<stopped, detaching, leftMounted, emptied>>
unitVars == <<overlaid, dir, helper, attached, removalVars>>
itzoVars == <<source, volumeVars, unitVars>>

None == [v \in Volumes |-> 0]

-------------------------------------------------------------------------------
(* CreateMount.                                                            *)

\* The types that create what is absent.
Ensured(type, file) ==
    CASE type = "DirectoryOrCreate" /\ file = "absent" -> "dir"
      [] type = "FileOrCreate" /\ file = "absent" -> "file"
      [] OTHER -> file

\* The checks of sockets and devices are inverted in the code.
HostPathOK(type, file) ==
    LET f == Ensured(type, file) IN
    CASE type = "Unset" -> TRUE
      [] type \in {"DirectoryOrCreate", "Directory"} -> f = "dir"
      [] type \in {"FileOrCreate", "File"} -> f \notin {"absent", "dir"}
      [] type = "Socket" -> f \notin {"absent", "socket"}
      [] type = "CharDevice" -> f \notin {"absent", "chardev"}
      [] type = "BlockDevice" -> f \notin {"absent", "blockdev"}
      [] OTHER -> FALSE

\* createEmptydir mounts the directory onto itself.
EmptyDirMounts(v) ==
    CASE source[v] = "memory" -> <<"bind", "tmpfs">>
      [] source[v] \in EmptyDirs \ {"memory"} -> <<"bind">>
      [] OTHER -> <<>>

MakesLink(v) == source[v] \in HostPathTypes \cup {"content"}

\* Nothing is in the way: one source, of a known kind, no entry where the link
\* goes, a host path of the right type.
Creatable(v) ==
    /\ source[v] \notin {"unknown", "several", "nothing"}
    /\ MakesLink(v) => entry[v] = "none"
    /\ source[v] \in HostPathTypes => HostPathOK(source[v], hostfile[v])

\* createEmptydir up to its n-th mount.
MakeEmptyDir(v, n) ==
    /\ entry' = IF source[v] \in EmptyDirs /\ entry[v] = "none"
                THEN [entry EXCEPT ![v] = "dir"] ELSE entry
    /\ layers' = [layers EXCEPT ![v] = @ \o SubSeq(EmptyDirMounts(v), 1, n)]

EnsureHostPath(v) == hostfile' = [hostfile EXCEPT ![v] = Ensured(source[v], @)]

CreateMount(v) ==
    LET all == Len(EmptyDirMounts(v)) IN
    /\ \/ /\ Creatable(v)
          /\ IF MakesLink(v)
             THEN entry' = [entry EXCEPT ![v] = "link"] /\ UNCHANGED layers
             ELSE MakeEmptyDir(v, all)
          /\ EnsureHostPath(v)
          /\ Ok
       \/ ~Creatable(v) /\ MakeEmptyDir(v, all) /\ EnsureHostPath(v) /\ Refused
       \/ /\ \E n \in 0 .. all : MakeEmptyDir(v, n)
          /\ EnsureHostPath(v) \/ UNCHANGED hostfile
          /\ Broken
    /\ UNCHANGED <<source, unitVars, todo>>

-------------------------------------------------------------------------------
(* DeleteMount. A directory that something is mounted on cannot be         *)
(* removed: the mount of a disk emptyDir onto itself stays in its way, and *)
(* of a memory one only the tmpfs is unmounted.                            *)

RemovesEntry(v) == MakesLink(v) \/ (source[v] = "disk" /\ layers[v] = <<>>)
UnmountsTmpfs(v) == source[v] = "memory" /\ layers[v] # <<>>

DeleteMount(v) ==
    /\ \/ RemovesEntry(v) /\ entry' = [entry EXCEPT ![v] = "none"] /\ UNCHANGED layers /\ Ok
       \/ /\ UnmountsTmpfs(v)
          /\ layers' = [layers EXCEPT ![v] = SubSeq(@, 1, Len(@) - 1)]
          /\ UNCHANGED entry
          /\ Ok
       \/ source[v] = "unknown" /\ UNCHANGED <<entry, layers>> /\ Ok
       \/ /\ ~RemovesEntry(v) /\ ~UnmountsTmpfs(v) /\ source[v] # "unknown"
          \* the emptyDir of several sources is gone before the error
          /\ entry' = IF source[v] = "several" /\ layers[v] = <<>>
                      THEN [entry EXCEPT ![v] = "none"] ELSE entry
          /\ UNCHANGED layers
          /\ Refused
       \/ UNCHANGED <<entry, layers>> /\ Broken
    /\ UNCHANGED <<source, hostfile, unitVars, todo>>

-------------------------------------------------------------------------------
(* CreateContainer: the image is pulled, the configuration saved, and the  *)
(* volumes attached in order. The unit's directory is made first.          *)

MakeUnit(name) == dir' = dir \cup {name}

\* AttachMount finds its source: the link to a host path may lead nowhere.
Resolves(v) ==
    entry[v] # "none" /\ (source[v] \in HostPathTypes => hostfile[v] # "absent")

\* How many of the volumes are attached before one is not there.
Reach(vs) ==
    LET absent == {i \in DOMAIN vs : ~Resolves(vs[i])} IN
    IF absent = {} THEN Len(vs) ELSE (CHOOSE i \in absent : \A j \in absent : i <= j) - 1

Attached(name, vs) ==
    [attached EXCEPT ![name] =
        [v \in Volumes |-> @[v] + Cardinality({i \in DOMAIN vs : vs[i] = v})]]

\* The annotations are those of the previous update: doUpdate takes the new ones
\* over when the units are created. An overlay over one that could not be unmounted
\* is not told from it.
MakeRootfs(name) == overlaid' = IF status.overlay THEN overlaid \cup {name} ELSE overlaid

ItzoCreateContainer(unit, request) ==
    LET name == unit.name
        vs == request.mounts[name] IN
    /\ MakeUnit(name)
    /\ \/ /\ MakeRootfs(name)
          /\ attached' = Attached(name, SubSeq(vs, 1, Reach(vs)))
          /\ IF Reach(vs) = Len(vs) THEN Ok ELSE Refused
       \/ /\ MakeRootfs(name)
          /\ \E n \in 0 .. Reach(vs) : attached' = Attached(name, SubSeq(vs, 1, n))
          /\ Broken
       \/ UNCHANGED <<overlaid, attached>> /\ Broken
    /\ UNCHANGED <<source, volumeVars, helper, removalVars, todo>>

-------------------------------------------------------------------------------
(* RemoveContainer: the unit is stopped, the volumes that the caller's     *)
(* specification names are detached, and the unit's files are removed with *)
(* everything that is still mounted among them. Only the last step's error *)
(* counts; the others are logged. The start goroutine may run in between.  *)

\* StopUnit opens the unit that runs, which makes its directory; when that fails
\* the helper is not killed.
StopUnit(unit, request) ==
    LET name == unit.name IN
    /\ ~stopped
    /\ stopped' = TRUE
    /\ detaching' = request.mounts[name]
    /\ \/ /\ helper' = helper \ {name}
          /\ dir' = IF name \in helper THEN dir \cup {name} ELSE dir
          /\ UNCHANGED callVars
       \/ name \in helper /\ UNCHANGED <<helper, dir>> /\ Ignored
    /\ UNCHANGED <<source, volumeVars, overlaid, attached, leftMounted, emptied>>

\* (Mutant: the mounts are left to Destroy.)
Detached_Not(name, v) == attached[name][v]

\* (Mutant: every mount is taken off the count, whether it is there or not.)
Detached_Unchecked(name, v) == attached[name][v] - 1

\* Unmounting what is not mounted is an error, too.
Detached(name, v) == IF attached[name][v] = 0 THEN 0 ELSE attached[name][v] - 1

DetachMount(unit) ==
    LET name == unit.name
        v == Head(detaching) IN
    /\ stopped /\ detaching # <<>>
    /\ detaching' = Tail(detaching)
    /\ \/ /\ attached' = [attached EXCEPT ![name][v] = Detached(name, v)]
          /\ UNCHANGED leftMounted
          /\ UNCHANGED callVars
       \/ leftMounted' = leftMounted \cup {name} /\ UNCHANGED attached /\ Ignored
    /\ UNCHANGED <<source, volumeVars, overlaid, dir, helper, stopped, emptied>>

\* Of what is mounted in a unit, the directories are emptied with its files; a
\* mounted file cannot be removed.
IsDirectory(v) == source[v] \in HostPathTypes => hostfile[v] = "dir"
Lost(name) == {v \in Volumes : attached'[name][v] > 0 /\ IsDirectory(v)}

\* Destroy unmounts the overlay, which takes the volumes with it.
UnmountRootfs(name) ==
    /\ overlaid' = overlaid \ {name}
    /\ attached' = IF name \in overlaid THEN [attached EXCEPT ![name] = None]
                   ELSE attached

\* Removing the files fails where something is mounted; the directory stays.
RemoveUnit(unit) ==
    LET name == unit.name IN
    /\ stopped /\ detaching = <<>>
    /\ stopped' = FALSE
    /\ \/ /\ UnmountRootfs(name)
          /\ attached'[name] = None
          /\ dir' = dir \ {name}
          /\ leftMounted' = leftMounted \ {name}
          /\ UNCHANGED emptied
          /\ Ok
       \/ /\ UnmountRootfs(name)
          /\ attached'[name] # None
          /\ dir' = dir \cup {name}
          /\ emptied' = emptied \cup Lost(name)
          /\ UNCHANGED leftMounted
          /\ Refused
       \/ /\ \/ UnmountRootfs(name) /\ UNCHANGED leftMounted
             \/ /\ name \in overlaid
                /\ leftMounted' = leftMounted \cup {name}
                /\ UNCHANGED <<overlaid, attached>>
          /\ dir' = dir \cup {name}
          /\ \E vs \in SUBSET Lost(name) : emptied' = emptied \cup vs
          /\ Broken
    /\ UNCHANGED <<source, volumeVars, helper, detaching, todo>>

ItzoRemoveContainer(unit, request) ==
    \/ StopUnit(unit, request)
    \/ DetachMount(unit)
    \/ RemoveUnit(unit)

-------------------------------------------------------------------------------
(* The sandbox is its volumes, and removing it removes the units first.    *)

VolumeCalls(op, request) ==
    [i \in DOMAIN request.volumes |-> [op |-> op, volume |-> request.volumes[i]]]

Expand(calls) ==
    /\ Proceed(calls \o Tail(work))
    /\ UNCHANGED <<todo, faults>>
    /\ UNCHANGED itzoVars

ItzoSandbox ==
    LET request == Head(work).request IN
    \/ /\ Next_("RunPodSandbox")
       /\ Expand(VolumeCalls("CreateMount", request))
    \/ /\ Next_("StopPodSandbox")
       /\ Expand(<<>>)
    \/ /\ Next_("RemovePodSandbox")
       /\ Expand(Calls("RemoveContainer", request.pod.inits \o request.pod.units, request)
                   \o VolumeCalls("DeleteMount", request))

\* StartUnit makes the unit's directory if it is gone, and runs the helper.
ItzoStartContainer(name) ==
    /\ Starts(name)
    /\ dir' = dir \cup {name}
    /\ \/ helper' = helper \cup {name} /\ Started
       \/ NotStarted /\ Fault /\ UNCHANGED helper
    /\ UNCHANGED <<source, volumeVars, overlaid, attached, removalVars>>

HelperExits(name) ==
    /\ name \in helper
    /\ helper' = helper \ {name}
    /\ UNCHANGED <<source, volumeVars, overlaid, dir, attached, removalVars>>
    /\ UNCHANGED callVars

ItzoAnswer ==
    \/ ItzoSandbox
    \/ Next_("CreateMount") /\ CreateMount(Head(work).volume)
    \/ Next_("DeleteMount") /\ DeleteMount(Head(work).volume)
    \/ Next_("CreateContainer") /\ ItzoCreateContainer(Head(work).unit, Head(work).request)
    \/ Next_("RemoveContainer") /\ ItzoRemoveContainer(Head(work).unit, Head(work).request)
    \/ \E name \in Names : ItzoStartContainer(name)
    \/ \E name \in Names : HelperExits(name)

ItzoInit ==
    /\ source \in Sources
    /\ entry = [v \in Volumes |-> "none"]
    /\ layers = [v \in Volumes |-> <<>>]
    /\ hostfile \in [Volumes -> Files]
    /\ \A v \in Volumes : source[v] \notin HostPathTypes => hostfile[v] = "absent"
    /\ overlaid = {}
    /\ dir = {}
    /\ helper = {}
    /\ attached = [n \in Names |-> None]
    /\ stopped = FALSE
    /\ detaching = <<>>
    /\ leftMounted = {}
    /\ emptied = {}

===============================================================================
