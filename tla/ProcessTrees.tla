----------------------------- MODULE ProcessTrees -----------------------------
(***************************************************************************)
(* The two ways the program ends processes with their children: the tree   *)
(* of a unit's command (pkg/util/kill/kill.go) and the children of the     *)
(* daemon (KillChildren of pkg/server/util.go). A listing of /proc is a    *)
(* sequence of [pid, ppid] in the order of the pids. The first reads all   *)
(* of it before it kills, the second one reads and kills in turn.          *)
(***************************************************************************)
EXTENDS Selections, SequencesExt

Pids(processes) == {processes[i].pid : i \in DOMAIN processes}

\* The processes below one: what every closed set that holds it also holds.
Tree(pid, processes) ==
    LET Closed(S) == \A i \in DOMAIN processes :
                        processes[i].ppid \in S => processes[i].pid \in S
    IN  {p \in Pids(processes) \cup {pid} :
            \A S \in SUBSET (Pids(processes) \cup {pid}) : pid \in S /\ Closed(S) => p \in S}

\* Nobody is its own ancestor: always so unless a pid was used again while the
\* listing was read.
IsForest(processes) ==
    \A i, j \in DOMAIN processes :
        processes[j].pid \in Tree(processes[i].pid, processes)
          => processes[j].pid # processes[i].ppid

\* A listing without some of its entries is the set of the positions left.
ChildPositions(ppid, left, processes) == InOrder({i \in left : processes[i].ppid = ppid})

CopyExcept(left, except) == left \ {except}

\* (Mutant: only the children, not theirs.)
KillProcessTree_Children(ppid, processes) ==
    LET children == ChildPositions(ppid, DOMAIN processes, processes) IN
    [k \in DOMAIN children |-> processes[children[k]].pid] \o <<ppid>>

\* The pids in the order in which they are killed: the trees below the children
\* first, then the process. Errors do not stop it.
KillProcessTree(ppid, processes) ==
    LET kill[left \in SUBSET DOMAIN processes] ==
            [pid \in Pids(processes) \cup {ppid} |->
                LET children == ChildPositions(pid, left, processes) IN
                FlattenSeq([k \in DOMAIN children |->
                              kill[CopyExcept(left, children[k])][processes[children[k]].pid]])
                  \o <<pid>>]
    IN kill[DOMAIN processes][ppid]

\* The parent that the stat file of a process names when its turn comes. Only then
\* is the file read, so an orphan is one whose parent, killed before, has gone by
\* then: the adopter is its parent.
ParentRead(process, orphaned, adopter, self, pids) ==
    IF orphaned /\ process.ppid \in pids \ {self} THEN adopter ELSE process.ppid

\* One pass over /proc that kills as it goes: a child is only found after its
\* parent was. The processes are those that are there from its start to its end.
KillChildren(self, adopter, orphans, processes) ==
    LET pids[n \in 0 .. Len(processes)] ==
            IF n = 0 THEN {self}
            ELSE pids[n - 1] \cup
                    {p \in {processes[n].pid} :
                       ParentRead(processes[n], n \in orphans, adopter, self, pids[n - 1])
                         \in pids[n - 1]}
    IN pids[Len(processes)] \ {self}

===============================================================================
