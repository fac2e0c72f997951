----------------------------- MODULE UnitSettings -----------------------------
(***************************************************************************)
(* With what user, environment, command and capabilities a unit's command  *)
(* and an exec session in it run: LookupUser and its two lookups           *)
(* (pkg/util/user.go, pwduser.go), GetUser, CreateCommand and              *)
(* getCapabilities (pkg/unit/unit.go), AddToEnvList (pkg/util/envlist.go), *)
(* EnsureDefaultEnviron (pkg/helper/helper.go), MergeSecretsIntoSpec and   *)
(* TweakCapabilities (pkg/caps/caps.go).                                   *)
(*                                                                         *)
(* A user is found by "os", as the helper does after it changed its root   *)
(* file system, or by "passwd", as an exec session does from outside. What *)
(* may be missing is a set with at most one element; a name is told from a *)
(* number by its kind. Numbers are meant to fit into 31 bits.              *)
(***************************************************************************)
EXTENDS Selections, SequencesExt

CONSTANT AllCapabilities

Override(value, others) == IF others = {} THEN value ELSE CHOOSE o \in others : TRUE

-------------------------------------------------------------------------------
(* LookupUser. Files hold users [name, uid, gid, home] and groups          *)
(* [name, gid], in the order of their lines.                               *)

\* The operating system takes the first line that fits, the maps of
\* PasswdUserLookup keep the last one.
Find(way, entries, Fits(_)) ==
    LET i == IF way = "os" THEN SelectInSeq(entries, Fits)
             ELSE SelectLastInSeq(entries, Fits) IN
    IF i = 0 THEN {} ELSE {entries[i]}

User(entry) == [uid |-> entry.uid, gid |-> {entry.gid}, home |-> entry.home]

\* A number that no line has is a user all the same.
UnknownId(way, id) ==
    IF way = "os"
    THEN [uid |-> id, gid |-> {id}, home |-> IF id = 0 THEN "/root" ELSE "/"]
    ELSE [uid |-> id, gid |-> {}, home |-> ""]

LookupId(way, files, id) ==
    LET found == Find(way, files.users, LAMBDA u : u.uid = id) IN
    IF found = {} THEN {UnknownId(way, id)} ELSE {User(u) : u \in found}

Lookup(way, files, name) ==
    {User(u) : u \in Find(way, files.users, LAMBDA u : u.name = name)}

LookupGroup(way, files, name) ==
    {g.gid : g \in Find(way, files.groups, LAMBDA g : g.name = name)}

\* PasswdUserLookup looks the number of a group up among the users.
LookupGroupId(way, files, id) ==
    LET found == IF way = "os" THEN {} ELSE Find(way, files.users, LAMBDA u : u.uid = id) IN
    IF found = {} THEN {id} ELSE {u.gid : u \in found}

\* The group of a "user:group"; an unknown one counts as none.
GroupOf(way, files, spec) ==
    UNION {IF g.kind = "id" THEN LookupGroupId(way, files, g.id)
           ELSE LookupGroup(way, files, g.name) : g \in spec.group}

LookupUser(way, files, spec) ==
    LET found == IF spec.user.kind = "id" THEN LookupId(way, files, spec.user.id)
                 ELSE Lookup(way, files, spec.user.name) IN
    {[uid |-> u.uid, home |-> u.home,
      gid |-> Override(Override(0, u.gid), GroupOf(way, files, spec))] : u \in found}

\* The image's user, then what the pod and the unit ask for.
GetUser(way, files, image, pod, unit) ==
    LET base == UNION {LookupUser(way, files, spec) : spec \in image}
        start == IF image = {} THEN {[uid |-> 0, gid |-> 0, home |-> "/"]} ELSE base IN
    {[uid |-> Override(Override(u.uid, pod.user), unit.user),
      gid |-> Override(Override(u.gid, pod.group), unit.group),
      home |-> u.home] : u \in start}

-------------------------------------------------------------------------------
(* The environment: sequences of [key, value].                             *)

KeysOf(env) == {env[i].key : i \in DOMAIN env}

\* (Mutant: what is there is kept, whatever overwrite says.)
AddToEnvList_KeepsOld(env, key, value, overwrite) ==
    IF key \in KeysOf(env) THEN env ELSE Append(env, [key |-> key, value |-> value])

\* Goes through the list from its end, so that the result is the other way
\* round; of the entries with the key only the last one stays.
AddToEnvList(env, key, value, overwrite) ==
    LET new == [key |-> key, value |-> value]
        last == SelectLastInSeq(env, LAMBDA e : e.key = key)
        kept == InOrder({i \in DOMAIN env : i = last \/ env[i].key # key}) IN
    IF last = 0 THEN Append(Reverse(env), new)
    ELSE Reverse([k \in DOMAIN kept |->
                    IF kept[k] = last /\ overwrite THEN new ELSE env[kept[k]]])

EnsureDefaultEnviron(env, podname, home) ==
    LET hostname == AddToEnvList(env, "HOSTNAME", podname, TRUE)
        term == AddToEnvList(hostname, "TERM", "xterm", FALSE)
        homedir == AddToEnvList(term, "HOME", home, FALSE) IN
    AddToEnvList(homedir, "PATH", "defaultPath", FALSE)

\* An entry names its value or a secret; one whose secret is missing is left out.
MergeSecrets(secrets, env) ==
    LET usable == Pick(env, {i \in DOMAIN env : env[i].secret \subseteq DOMAIN secrets}) IN
    [i \in DOMAIN usable |->
        [key |-> usable[i].key,
         value |-> Override(usable[i].value, {secrets[s] : s \in usable[i].secret})]]

\* What the helper is started with: the image's environment, changed by the
\* unit's. Starting a process drops all but the last entry of a key.
HelperEnv(image, spec) ==
    LET env[n \in 0 .. Len(spec)] ==
            IF n = 0 THEN image
            ELSE AddToEnvList(env[n - 1], spec[n].key, spec[n].value, TRUE)
        all == env[Len(spec)] IN
    Pick(all, {i \in DOMAIN all : \A j \in DOMAIN all : all[j].key = all[i].key => j <= i})

\* What a process sees.
Environ(env) ==
    [k \in KeysOf(env) |-> env[SelectLastInSeq(env, LAMBDA e : e.key = k)].value]

-------------------------------------------------------------------------------
(* Command and capabilities.                                               *)

CreateCommand(image, command, args) ==
    IF command # <<>> THEN command \o args
    ELSE image.entrypoint \o (IF args = <<>> THEN image.cmd ELSE args)

\* Every accepted spelling of a capability stands for its name.
Normalizable(names) == names \subseteq AllCapabilities \cup {"ALL"}

TweakCapabilities(basics, adds, drops) ==
    IF adds = {} /\ drops = {} THEN {basics}
    ELSE IF ~Normalizable(adds) \/ ~Normalizable(drops) THEN {}
    ELSE IF "ALL" \in adds THEN {AllCapabilities \ drops}
    ELSE IF "ALL" \in drops THEN {adds}
    ELSE {(basics \ drops) \cup adds}

\* What reaches the kernel: names that are none are skipped.
MapCapabilities(names) == names \cap AllCapabilities

===============================================================================
