----------------------------- MODULE MCAlgorithms -----------------------------
(***************************************************************************)
(* Algorithms on small inputs, the odd ones included: listings with        *)
(* cycles, archives that name a file twice, users with two lines, keys     *)
(* with two entries, ports out of range.                                   *)
(***************************************************************************)
EXTENDS Algorithms

CONSTANTS
    MaxPid, MaxFile, MaxLines, MaxBytes, Names, MaxEntries, MaxEnv

Optional(S) == {{}} \cup {{x} : x \in S}

Listings ==
    {[i \in 1 .. MaxPid |-> [pid |-> i, ppid |-> parents[i]]] :
        parents \in {f \in [1 .. MaxPid -> 0 .. MaxPid] : \A i \in 1 .. MaxPid : f[i] # i}}

Entries ==
    [name : Names, kind : {"dir"}, made : {"whole", "not"}, target : {"none"}]
      \cup [name : Names, kind : {"file"}, made : {"whole", "part", "not"}, target : {"none"}]
      \cup [name : Names, kind : {"symlink"}, made : {"whole"}, target : {"none"}]
      \cup {e \in [name : Names, kind : {"hardlink"}, made : {"whole"}, target : Names] :
                e.name # e.target}

Directories ==
    {[n \in Names |-> "absent"]}
      \cup {[n \in Names |-> IF n = left THEN kind ELSE "absent"] :
                left \in Names, kind \in {"earlier", "dir", "symlink"}}
      \cup {[n \in Names |-> kind] : kind \in {"earlier", "shared"}}

\* ----- Users
AppUser == [name |-> "app", uid |-> 1, gid |-> 1, home |-> "/app"]
DbUser == [name |-> "db", uid |-> 2, gid |-> 3, home |-> "/db"]
AppAgain == [name |-> "app", uid |-> 4, gid |-> 4, home |-> "/new"]
Staff == [name |-> "staff", gid |-> 2]
UserFiles == {[users |-> u, groups |-> g] :
                u \in {<<AppUser, DbUser>>, <<AppUser, AppAgain>>, <<>>}, g \in {<<Staff>>, <<>>}}
UserParts == [kind : {"id"}, id : {0, 2, 9}] \cup [kind : {"name"}, name : {"app", "db", "no one"}]
GroupParts == [kind : {"id"}, id : {2, 9}] \cup [kind : {"name"}, name : {"staff", "no group"}]
UserSpecs == [user : UserParts, group : Optional(GroupParts)]
Contexts(user, group) == [user : Optional({user}), group : Optional({group})]

\* ----- Environments
ImageEnvs == BoundedSeq([key : {"A", "HOME"}, value : {"1", "2"}], MaxEnv)
UnitEnvs ==
    BoundedSeq([key : {"A", "HOSTNAME"}, value : {"3"}, secret : {{}}]
                 \cup [key : {"A"}, value : {"4"}, secret : {{}}]
                 \cup [key : {"B"}, value : {""}, secret : {{"known"}, {"unknown"}}], MaxEnv)
Words(w) == {<<>>, <<w>>}

\* ----- Ports and volumes for Podman
Ports == [container : {0, 1, PortSpan - 1, PortSpan + 1}, host : {0, 2, PortSpan}]
Volumes ==
    {[name |-> n, fields |-> f, path |-> "/p", type |-> "unset", sources |-> <<s>>] :
        n \in {"deployed", "missing"},
        f \in {{}} \cup {{k} : k \in ToSet(VolumeOrder)} \cup {{"secret", "emptyDir"}},
        s \in SUBSET ToSet(SourceOrder)}

MCTasks ==
    [op : {"killTree"}, pid : {1}, processes : Listings]
      \cup [op : {"killChildren"}, pid : {1}, processes : Listings, adopter : {0, 1},
            orphans : SUBSET (1 .. MaxPid)]
      \cup [op : {"tail"}, file : BoundedSeq({"x", "newline"}, MaxFile),
            lines : -1 .. MaxLines, bytes : {-3, -1} \cup 0 .. MaxBytes]
      \cup [op : {"deploy"}, entries : BoundedSeq(Entries, MaxEntries), files : Directories]
      \cup [op : {"resize"}, partitioned : BOOLEAN,
            growpart : [1 .. GrowTries + 1 -> {"grown", "nochange", "failed"}],
            resize2fs : [1 .. ResizeTries + 1 -> {"resized", "nothing", "failed"}]]
      \cup [op : {"user"}, files : UserFiles, image : Optional(UserSpecs),
            pod : Contexts(5, 6), unit : Contexts(7, 8)]
      \cup [op : {"command"}, secrets : {[known |-> "5"]},
            image : [env : ImageEnvs, entrypoint : {<<"entry">>}, cmd : Words("cmd")],
            env : UnitEnvs, command : Words("run"), args : Words("arg")]
      \cup [op : {"caps"}, basics : {{"chown", "kill"}},
            adds : SUBSET (AllCapabilities \cup {"ALL", "bad"}),
            drops : SUBSET (AllCapabilities \cup {"ALL", "bad"})]
      \cup [op : {"convert"},
            ports : BoundedSeq(Ports, 1),
            volume : Volumes, packages : {[deployed |-> "file"]},
            state : {"running", "dead", "exited"}]

===============================================================================
