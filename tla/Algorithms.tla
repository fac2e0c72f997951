------------------------------ MODULE Algorithms ------------------------------
(***************************************************************************)
(* The computations that handlers and the helper do in one go, each as a   *)
(* step from a task, which holds the input, to its result. The properties  *)
(* compare results with what the computation is for.                       *)
(***************************************************************************)
EXTENDS ProcessTrees, FilesAndVolumes, UnitSettings, Conversion

CONSTANT Tasks      \* records whose op names the computation

EntryKinds == {"dir", "file", "symlink", "hardlink"}
Kinds == {"absent", "dir", "file", "part", "symlink", "earlier", "shared"}

AtMostOne(S) == \A x, y \in S : x = y

\* What callers pass: the listing of /proc is in the order of the pids, a request
\* for a file names any limits, an archive names files of the directory and links
\* to some of them, a user or a group is asked for or not, environments and command
\* lines are strings, and a volume's fields are those of its type.
ASSUME TasksAssumption ==
    \A t \in Tasks :
        /\ t.op \in {"killTree", "killChildren"} =>
            /\ t.processes \in Seq([pid : Nat, ppid : Nat])
            /\ \A i, j \in DOMAIN t.processes :
                i < j => t.processes[i].pid < t.processes[j].pid
        /\ t.op = "killChildren" => t.orphans \subseteq DOMAIN t.processes
        /\ t.op = "tail" =>
            t.file \in Seq({"x", "newline"}) /\ t.lines \in Int /\ t.bytes \in Int
        /\ t.op = "deploy" =>
            /\ t.files \in [DOMAIN t.files -> Kinds]
            /\ t.entries \in Seq([name : DOMAIN t.files, kind : EntryKinds, made : {"whole", "part", "not"},
                                  target : {t.entries[i].target : i \in DOMAIN t.entries}])
            /\ \A i \in DOMAIN t.entries :
                t.entries[i].kind = "hardlink" => t.entries[i].target \in DOMAIN t.files
        /\ t.op = "user" =>
            /\ t.files.users \in Seq([name : STRING, uid : Nat, gid : Nat, home : STRING])
            /\ t.files.groups \in Seq([name : STRING, gid : Nat])
            /\ \A asked \in {t.pod.user, t.pod.group, t.unit.user, t.unit.group} : AtMostOne(asked)
        /\ t.op = "command" =>
            /\ t.secrets \in [DOMAIN t.secrets -> STRING]
            /\ t.env \in Seq([key : STRING, value : STRING, secret : SUBSET STRING])
            /\ t.image.env \in Seq([key : STRING, value : STRING])
            /\ {t.image.entrypoint, t.image.cmd, t.command, t.args} \subseteq Seq(STRING)
        /\ t.op = "convert" =>
            /\ t.volume.fields \subseteq ToSet(VolumeOrder)
            /\ \A i \in DOMAIN t.volume.sources : t.volume.sources[i] \subseteq ToSet(SourceOrder)

VARIABLES
    task,
    result          \* a set with the result, empty until it is there

vars == <<task, result>>

Init == task \in Tasks /\ result = {}

Finish(op, value) ==
    /\ result = {}
    /\ task.op = op
    /\ result' = {value}
    /\ UNCHANGED task

-------------------------------------------------------------------------------

KillTree == Finish("killTree", KillProcessTree(task.pid, task.processes))

KillDaemonsChildren ==
    Finish("killChildren",
           KillChildren(task.pid, task.adopter, task.orphans, task.processes))

FileHandler ==
    /\ task.op = "tail" /\ ~TailPanics(task.lines, task.bytes)
    /\ Finish("tail", TailFile(task.file, task.lines, BytesAsked(task.lines, task.bytes)))

DeployHandler == Finish("deploy", DeployPackage(task.entries, task.files))

ResizevolumeHandler ==
    Finish("resize", ResizeVolume(task.partitioned, task.growpart, task.resize2fs))

\* The user of the unit's command, looked up by the helper, and of a session.
LookUpUsers ==
    Finish("user", [command |-> GetUser("os", task.files, task.image, task.pod, task.unit),
                    session |-> GetUser("passwd", task.files, task.image, task.pod, task.unit)])

\* The environment and the command line that StartUnit and Run make.
PrepareCommand ==
    LET env == HelperEnv(task.image.env, MergeSecrets(task.secrets, task.env)) IN
    Finish("command",
           [argv |-> CreateCommand(task.image, task.command, task.args),
            env |-> Environ(EnsureDefaultEnviron(env, "pod", "home"))])

SetCapabilities ==
    Finish("caps", {MapCapabilities(c) : c \in TweakCapabilities(task.basics, task.adds, task.drops)})

ConvertUnit ==
    Finish("convert",
           [ports |-> UnitPortsToPodmanPortMapping(task.ports),
            volume |-> MilpaToK8sVolume(task.volume, task.packages),
            state |-> ContainerStateToUnit(task.state)])

Next ==
    \/ KillTree \/ KillDaemonsChildren
    \/ FileHandler \/ DeployHandler \/ ResizevolumeHandler
    \/ LookUpUsers \/ PrepareCommand \/ SetCapabilities \/ ConvertUnit

Spec == Init /\ [][Next]_vars

Results(op) == IF task.op = op THEN result ELSE {}

-------------------------------------------------------------------------------
(* Properties.                                                             *)

Positions(pid, pids) == {i \in DOMAIN pids : pids[i] = pid}

\* killProcessTree ends exactly the process and what is below it in the listing,
\* nothing twice and no parent before its children (kill.go:27-91). KillChildren ends
\* nothing but descendants of the daemon, all of its own children, and theirs when
\* no process has a smaller pid than its parent and the kills orphan none before its
\* own turn, except to the daemon (util.go:353-373).
KillersReachTheTree ==
    /\ \A order \in Results("killTree") :
        /\ ToSet(order) = Tree(task.pid, task.processes)
        /\ IsForest(task.processes) =>
            /\ IsInjective(order)
            /\ \A i \in DOMAIN task.processes :
                \A c \in Positions(task.processes[i].pid, order),
                   p \in Positions(task.processes[i].ppid, order) : c < p
    /\ \A killed \in Results("killChildren") :
        LET ps == task.processes
            below == Tree(task.pid, ps) \ {task.pid} IN
        /\ killed \subseteq below
        /\ \A i \in DOMAIN ps : ps[i].ppid = task.pid /\ ps[i].pid # task.pid => ps[i].pid \in killed
        /\ task.orphans = {} \/ task.adopter = task.pid
             => ((\A i \in DOMAIN ps : ps[i].ppid < ps[i].pid) => killed = below)

\* TailFile returns the end of the file: all of a file that is within the limits,
\* never more lines than asked for, and without a limit of lines exactly as many
\* bytes as allowed. With one, whole chunks are read, and the text may pass the
\* limit of bytes by less than a chunk (file.go:69-90). (The first line it returns
\* may be the end of one that an earlier chunk holds.)
\*
\* A package whose names are distinct and whose hard links lead to files of the
\* package, unpacked into a new directory or over an earlier package with its like
\* in the place of directories and files: what could be written is there, whatever
\* else failed; if everything could, the deploy succeeds; and if it succeeds, all
\* links are there, in whatever order the archive names them. It may succeed without
\* what could not be written (util.go:245,261).
FilesArriveWhole ==
    /\ \A text \in Results("tail") :
        LET limit == BytesLimit(BytesAsked(task.lines, task.bytes)) IN
        /\ IsSuffix(text, task.file)
        /\ task.lines > 0 => Newlines(text) <= task.lines
        /\ text # <<>> => Len(text) < limit + ChunkSize
        /\ Len(task.file) <= limit /\ (task.lines > 0 => Newlines(task.file) < task.lines)
             => text = task.file
        /\ task.lines <= 0 /\ Len(task.file) > limit => Len(text) = limit
        /\ task.lines > 0 /\ Newlines(task.file) > task.lines /\ Len(text) < limit
             => Newlines(text) = task.lines
    /\ \A deployed \in Results("deploy") :
        LET entries == task.entries
            KindOf(name) == {entries[i].kind : i \in {j \in DOMAIN entries : entries[j].name = name}}
            Like(kind) == IF kind = "dir" THEN {"absent", "dir"}
                          ELSE {"absent", "file", "part", "earlier"} IN
        /\ \A i, j \in DOMAIN entries : entries[i].name = entries[j].name => i = j
        /\ \A i \in DOMAIN entries :
            IF IsLink(entries[i])
            THEN entries[i].kind = "hardlink" => KindOf(entries[i].target) = {"file"}
            ELSE task.files[entries[i].name] \in Like(entries[i].kind)
        => /\ \A i \in DOMAIN entries :
                ~IsLink(entries[i]) /\ entries[i].made = "whole"
                  => deployed.files[entries[i].name] = entries[i].kind
           /\ (\A i \in DOMAIN entries : IsLink(entries[i]) \/ entries[i].made = "whole")
                => deployed.ok
           /\ deployed.ok =>
                \A i \in DOMAIN entries : IsLink(entries[i]) =>
                    deployed.files[entries[i].name] =
                        IF entries[i].kind = "symlink" THEN "symlink"
                        ELSE deployed.files[entries[i].target]

OneLine(entries, Fits(_)) == Cardinality({i \in DOMAIN entries : Fits(entries[i])}) = 1

\* What the image asks for is named by exactly one line of the files, or is a group
\* with a number that no user has.
Unambiguous(files, spec) ==
    /\ IF spec.user.kind = "id" THEN OneLine(files.users, LAMBDA u : u.uid = spec.user.id)
       ELSE OneLine(files.users, LAMBDA u : u.name = spec.user.name)
    /\ \A g \in spec.group :
        IF g.kind = "id" THEN \A i \in DOMAIN files.users : files.users[i].uid # g.id
        ELSE OneLine(files.groups, LAMBDA e : e.name = g.name)

\* The first of some values that is there.
Preferred(choices) ==
    LET i == SelectInSeq(choices, LAMBDA c : c # {}) IN IF i = 0 THEN {} ELSE choices[i]

UsersAsConfigured(users) ==
    /\ users.session = users.command
    /\ \A u \in users.command :
        /\ Preferred(<<task.unit.user, task.pod.user, {u.uid}>>) = {u.uid}
        /\ Preferred(<<task.unit.group, task.pod.group, {u.gid}>>) = {u.gid}

\* What the last entry of a key says.
Said(env, key) == {env[i].value : i \in {j \in DOMAIN env :
                      env[j].key = key /\ \A k \in DOMAIN env : k > j => env[k].key # key}}

CommandAsConfigured(command) ==
    LET env == MergeSecrets(task.secrets, task.env) IN
    /\ \A key \in KeysOf(env) \cup KeysOf(task.image.env) :
        {command.env[key]} = Preferred(<<{"pod"} \cap {x \in {"pod"} : key = "HOSTNAME"},
                                         Said(env, key), Said(task.image.env, key)>>)
    /\ {"HOSTNAME", "TERM", "HOME", "PATH"} \subseteq DOMAIN command.env
    /\ task.image.cmd # <<>> /\ ToSet(task.image.cmd) \cap ToSet(task.command \o task.args) = {}
        => (IsSuffix(task.image.cmd, command.argv) <=> task.command = <<>> /\ task.args = <<>>)

CapabilitiesAsConfigured(granted) ==
    \A caps \in granted, cap \in AllCapabilities :
        /\ cap \in caps => cap \in task.basics \/ {cap, "ALL"} \cap task.adds # {}
        /\ cap \in caps /\ {cap, "ALL"} \cap task.drops # {} => {cap, "ALL"} \cap task.adds # {}
        /\ cap \in task.adds \ task.drops => cap \in caps

ContainerAsConfigured(converted) ==
    LET ports == task.ports
        valid == 1 .. PortSpan - 1 IN
    /\ (\A i \in DOMAIN ports : ports[i].container \in valid /\ ports[i].host \in valid \cup {0})
         => converted.ports = {[i \in DOMAIN ports |->
                [container |-> ports[i].container,
                 host |-> IF ports[i].host = 0 THEN ports[i].container ELSE ports[i].host]]}
    /\ \A field \in task.volume.fields :
        task.volume.fields = {field} /\ (field = "packagePath" => task.volume.name \in DOMAIN task.packages)
          => \E v \in converted.volume :
                /\ v.kind = (IF field = "packagePath" THEN "hostPath" ELSE field)
                /\ v.kind = "hostPath" => v.path # {}
                /\ v.kind = "projected" =>
                    \A i \in DOMAIN task.volume.sources :
                        Cardinality(task.volume.sources[i]) = 1 => v.sources[i] = task.volume.sources[i]
    /\ converted.state = "running" <=> task.state = "running"

\* A session runs as the user of the unit's command, with the ids that unit, pod
\* and image ask for, in this order, unless the image asks for what its files do
\* not name or name twice, or for a group by a number that some user has: a session
\* then gets the group of that user (pwduser.go:125). The command sees what the unit's environment says last
\* and else what the image says, except for the host name; it runs the image's
\* arguments (if they are none of the unit's words) only if the unit has neither
\* command nor arguments. A capability that
\* was dropped, by name or with all the others, needs to be asked for again. In
\* Podman's types ports in range keep their numbers and sources their kind.
UnitsRunAsConfigured ==
    /\ \A users \in Results("user") :
        (\A spec \in task.image : Unambiguous(task.files, spec)) => UsersAsConfigured(users)
    /\ \A command \in Results("command") :
        (\A i, j \in DOMAIN task.image.env :
            task.image.env[i].key = task.image.env[j].key => i = j) => CommandAsConfigured(command)
    /\ \A granted \in Results("caps") : CapabilitiesAsConfigured(granted)
    /\ \A converted \in Results("convert") : ContainerAsConfigured(converted)

===============================================================================
