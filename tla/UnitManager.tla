----------------------------- MODULE UnitManager -----------------------------
(***************************************************************************)
(* Starting, stopping and removing one unit: pkg/unit/unit_manager.go and  *)
(* the log pipes of pkg/unit/pipe.go.                                      *)
(*                                                                         *)
(* Everything here meets in two places: the entry of the unit's name in    *)
(* RunningUnits and the named pipe in the unit's directory. The update     *)
(* loop removes and deploys the unit, a start goroutine starts it, and     *)
(* every start leaves three more threads behind: the helper process, the   *)
(* goroutine that waits for it and the goroutine that reads its pipe.      *)
(*                                                                         *)
(* stdout and stderr have a pipe each, handled alike: one is modelled. A   *)
(* pipe is its inode, because the threads find it by its path and keep it  *)
(* open after the path leads to another one.                               *)
(***************************************************************************)
EXTENDS Naturals, Sequences, FiniteSets

CONSTANTS
    MaxStarts,      \* bound: calls of StartUnit
    MaxRemovals     \* bound: calls of RemoveContainer

ASSUME BoundsAssumption == MaxStarts \in Nat /\ MaxRemovals \in Nat

VARIABLES
    fifo,           \* the inode at the pipe's path, 0 if there is none
    running,        \* RunningUnits[name]: the instance started, 0 if none
    inst,           \* sequence, one entry for each call of StartUnit
    loop,           \* the update loop: [pc, victim]
    starter,        \* the start goroutine: its program counter
    removals        \* calls of RemoveContainer so far

vars == <<fifo, running, inst, loop, starter, removals>>

\* What a call of StartUnit leaves behind. out and in are the inodes that
\* the helper writes to and the reader reads from.
NewInstance == [helper |-> "none", out |-> 0, reader |-> "none", in |-> 0,
                waiter |-> "none"]

Alive(k) == inst[k].helper \notin {"none", "dead"}

-------------------------------------------------------------------------------
(* The named pipe.                                                         *)

Inodes == 1 .. 2 * MaxStarts + 2

InUse(inode) ==
    \/ inode = fifo
    \/ \E k \in DOMAIN inst : inst[k].out = inode \/ inst[k].in = inode

FreshInode == CHOOSE inode \in Inodes : ~InUse(inode)

\* OpenUnit makes the directory and the pipe unless they exist. (Mutant: it
\* replaces a pipe that exists.)
OpenUnit_NewPipe == fifo' = FreshInode
OpenUnit == fifo' = IF fifo = 0 THEN FreshInode ELSE fifo

\* A process that blocks while it opens a pipe already counts as a reader or
\* as a writer of it.
HasReader(inode) ==
    \E k \in DOMAIN inst :
        inst[k].reader \in {"open", "read", "eof"} /\ inst[k].in = inode

HasWriter(inode) ==
    \E k \in DOMAIN inst :
        inst[k].helper \in {"connect", "run"} /\ inst[k].out = inode

\* instances with the opens of inode that waited for a writer over.
WithWriter(instances, inode) ==
    [k \in DOMAIN instances |->
        IF instances[k].reader = "open" /\ instances[k].in = inode
        THEN [instances[k] EXCEPT !.reader = "read"] ELSE instances[k]]

\* instances with the opens of inode that waited for a reader over.
WithReader(instances, inode) ==
    [k \in DOMAIN instances |->
        IF instances[k].helper = "connect" /\ instances[k].out = inode
        THEN [instances[k] EXCEPT !.helper = "run"] ELSE instances[k]]

\* LogPipe.Remove opens the pipe for writing, so that a reader that waits for
\* a writer goes on and finds the end of the file, and closes it. O_NONBLOCK
\* makes the open fail instead of waiting when there is no reader. (Mutants:
\* without O_NONBLOCK; the pipe is only unlinked.)
OpenReturns_Blocking == fifo # 0 => HasReader(fifo)
OpenReturns == TRUE

Woken_UnlinkOnly(instances) == instances
Woken(instances) == WithWriter(instances, fifo)

\* Then Remove unlinks whatever is at the path, unless the open found nothing
\* there: next is what its caller does after Remove.
AfterOpen(next) == IF fifo = 0 THEN next ELSE "unlink"

-------------------------------------------------------------------------------
(* RemoveContainer of the update loop: StopUnit, then RemoveUnit.          *)

\* StopUnit looks the process up. Without an entry it fails, and
\* RemoveContainer carries on. (Mutant: the missing entry is not noticed.)
StopUnit_Unchecked ==
    /\ loop.pc = "idle"
    /\ removals < MaxRemovals
    /\ removals' = removals + 1
    /\ loop' = [pc |-> "stop", victim |-> running]
    /\ UNCHANGED <<fifo, running, inst, starter>>

StopUnit ==
    /\ loop.pc = "idle"
    /\ removals < MaxRemovals
    /\ removals' = removals + 1
    /\ loop' = IF running = 0 THEN [loop EXCEPT !.pc = "open"]
               ELSE [pc |-> "stop", victim |-> running]
    /\ UNCHANGED <<fifo, running, inst, starter>>

StopOpensUnit ==
    /\ loop.pc = "stop"
    /\ OpenUnit
    /\ loop' = [loop EXCEPT !.pc = "kill"]
    /\ UNCHANGED <<running, inst, starter, removals>>

\* proc.Kill(): fails, and is logged, if the process has exited.
Kill ==
    /\ loop.pc = "kill"
    /\ inst' = IF Alive(loop.victim)
               THEN [inst EXCEPT ![loop.victim].helper = "dead"] ELSE inst
    /\ loop' = [loop EXCEPT !.pc = "delete"]
    /\ UNCHANGED <<fifo, running, starter, removals>>

\* RunningUnits.Delete(name), whatever instance the entry is of by now.
StopDeletes ==
    /\ loop.pc = "delete"
    /\ running' = 0
    /\ loop' = [pc |-> "open", victim |-> 0]
    /\ UNCHANGED <<fifo, inst, starter, removals>>

RemoveOpensUnit ==
    /\ loop.pc = "open"
    /\ OpenUnit
    /\ loop' = [loop EXCEPT !.pc = "wake"]
    /\ UNCHANGED <<running, inst, starter, removals>>

\* Destroy: LogPipe.Remove in two steps, then RemoveAll of the directory.
DestroyWakes ==
    /\ loop.pc = "wake"
    /\ OpenReturns
    /\ inst' = Woken(inst)
    /\ loop' = [loop EXCEPT !.pc = AfterOpen("rmdir")]
    /\ UNCHANGED <<fifo, running, starter, removals>>

DestroyUnlinks ==
    /\ loop.pc = "unlink"
    /\ fifo' = 0
    /\ loop' = [loop EXCEPT !.pc = "rmdir"]
    /\ UNCHANGED <<running, inst, starter, removals>>

DestroyRemovesDir ==
    /\ loop.pc = "rmdir"
    /\ fifo' = 0
    /\ loop' = [loop EXCEPT !.pc = "idle"]
    /\ UNCHANGED <<running, inst, starter, removals>>

RemoveContainer ==
    \/ StopOpensUnit
    \/ Kill
    \/ StopDeletes
    \/ RemoveOpensUnit
    \/ DestroyWakes
    \/ DestroyUnlinks
    \/ DestroyRemovesDir

\* CreateContainer opens the unit to pull its image and to save its
\* configuration.
CreateContainer ==
    /\ loop.pc = "idle"
    /\ OpenUnit
    /\ UNCHANGED <<running, inst, loop, starter, removals>>

-------------------------------------------------------------------------------
(* StartUnit of a start goroutine. The newest instance is the one that is  *)
(* being started.                                                          *)

Newest == Len(inst)

StartUnit ==
    /\ starter = "idle"
    /\ Len(inst) < MaxStarts
    /\ OpenUnit
    /\ inst' = Append(inst, NewInstance)
    /\ starter' = "capture"
    /\ UNCHANGED <<running, loop, removals>>

\* CaptureLogs starts the goroutine that reads the pipe.
CaptureLogs ==
    /\ starter = "capture"
    /\ inst' = [inst EXCEPT ![Newest].reader = "new"]
    /\ starter' = "fork"
    /\ UNCHANGED <<fifo, running, loop, removals>>

\* cmd.Start() starts the helper, or fails.
Fork ==
    /\ starter = "fork"
    /\ \/ /\ inst' = [inst EXCEPT ![Newest].helper = "boot"]
          /\ starter' = "set"
       \/ /\ starter' = "wake"
          /\ UNCHANGED inst
    /\ UNCHANGED <<fifo, running, loop, removals>>

FailedStartWakes ==
    /\ starter = "wake"
    /\ OpenReturns
    /\ inst' = Woken(inst)
    /\ starter' = AfterOpen("idle")
    /\ UNCHANGED <<fifo, running, loop, removals>>

FailedStartUnlinks ==
    /\ starter = "unlink"
    /\ fifo' = 0
    /\ starter' = "idle"
    /\ UNCHANGED <<running, inst, loop, removals>>

\* RunningUnits.Set, then the goroutine that waits for the helper. (Mutant:
\* the goroutine is started first.)
Register_GoFirst ==
    \/ /\ starter = "set"
       /\ inst' = [inst EXCEPT ![Newest].waiter = "wait"]
       /\ starter' = "go"
       /\ UNCHANGED <<fifo, running, loop, removals>>
    \/ /\ starter = "go"
       /\ running' = Newest
       /\ starter' = "idle"
       /\ UNCHANGED <<fifo, inst, loop, removals>>

Register ==
    \/ /\ starter = "set"
       /\ running' = Newest
       /\ starter' = "go"
       /\ UNCHANGED <<fifo, inst, loop, removals>>
    \/ /\ starter = "go"
       /\ inst' = [inst EXCEPT ![Newest].waiter = "wait"]
       /\ starter' = "idle"
       /\ UNCHANGED <<fifo, running, loop, removals>>

Start ==
    \/ CaptureLogs
    \/ Fork
    \/ FailedStartWakes
    \/ FailedStartUnlinks
    \/ Register

-------------------------------------------------------------------------------
(* The goroutine that waits for the helper of instance k.                  *)

HelperReaped(k) ==
    /\ inst[k].waiter = "wait"
    /\ inst[k].helper = "dead"
    /\ inst' = [inst EXCEPT ![k].waiter = "delete"]
    /\ UNCHANGED <<fifo, running, loop, starter, removals>>

\* RunningUnits.Delete(unitname), also when a later instance has the entry.
WaiterDeletes(k) ==
    /\ inst[k].waiter = "delete"
    /\ running' = 0
    /\ inst' = [inst EXCEPT ![k].waiter = "sleep"]
    /\ UNCHANGED <<fifo, loop, starter, removals>>

\* After the sleep: LogPipe.Remove on whatever pipe is at the path. The sleep
\* takes three seconds, so the reader goroutine of the instance has run by then.
WaiterWakes(k) ==
    /\ inst[k].waiter = "sleep"
    /\ inst[k].reader # "new"
    /\ OpenReturns
    /\ inst' = [Woken(inst) EXCEPT ![k].waiter = AfterOpen("done")]
    /\ UNCHANGED <<fifo, running, loop, starter, removals>>

WaiterUnlinks(k) ==
    /\ inst[k].waiter = "unlink"
    /\ fifo' = 0
    /\ inst' = [inst EXCEPT ![k].waiter = "done"]
    /\ UNCHANGED <<running, loop, starter, removals>>

Waiter(k) ==
    \/ HelperReaped(k)
    \/ WaiterDeletes(k)
    \/ WaiterWakes(k)
    \/ WaiterUnlinks(k)

-------------------------------------------------------------------------------
(* The goroutine that reads the pipe of instance k.                        *)

\* The open fails without a pipe, blocks without a writer, and lets a writer
\* that waits for a reader go on.
ReaderOpens(k) ==
    /\ inst[k].reader = "new"
    /\ inst' = IF fifo = 0 THEN [inst EXCEPT ![k].reader = "done"]
               ELSE WithReader(
                      [inst EXCEPT ![k].in = fifo,
                                   ![k].reader = IF HasWriter(fifo) THEN "read"
                                                 ELSE "open"], fifo)
    /\ UNCHANGED <<fifo, running, loop, starter, removals>>

\* The read finds no writer, then the deferred Close.
ReaderSeesEof(k) ==
    /\ inst[k].reader = "read"
    /\ ~HasWriter(inst[k].in)
    /\ inst' = [inst EXCEPT ![k].reader = "eof"]
    /\ UNCHANGED <<fifo, running, loop, starter, removals>>

ReaderCloses(k) ==
    /\ inst[k].reader = "eof"
    /\ inst' = [inst EXCEPT ![k].reader = "done"]
    /\ UNCHANGED <<fifo, running, loop, starter, removals>>

Reader(k) ==
    \/ ReaderOpens(k)
    \/ ReaderSeesEof(k)
    \/ ReaderCloses(k)

-------------------------------------------------------------------------------
(* The helper process of instance k: itzo started again with --exec.       *)

HelperOpensUnit(k) ==
    /\ inst[k].helper = "boot"
    /\ OpenUnit
    /\ inst' = [inst EXCEPT ![k].helper = "opened"]
    /\ UNCHANGED <<running, loop, starter, removals>>

\* OpenWriter: fails without a pipe, blocks without a reader, and lets a reader
\* that waits for a writer go on.
HelperConnects(k) ==
    /\ inst[k].helper = "opened"
    /\ inst' = IF fifo = 0 THEN [inst EXCEPT ![k].helper = "wake"]
               ELSE WithWriter(
                      [inst EXCEPT ![k].out = fifo,
                                   ![k].helper = IF HasReader(fifo) THEN "run"
                                                 ELSE "connect"], fifo)
    /\ UNCHANGED <<fifo, running, loop, starter, removals>>

\* OpenWriter failed: LogPipe.Remove, also of a pipe made in the meantime.
HelperRemoves(k) ==
    \/ /\ inst[k].helper = "wake"
       /\ OpenReturns
       /\ inst' = [Woken(inst) EXCEPT ![k].helper = AfterOpen("dead")]
       /\ UNCHANGED <<fifo, running, loop, starter, removals>>
    \/ /\ inst[k].helper = "unlink"
       /\ fifo' = 0
       /\ inst' = [inst EXCEPT ![k].helper = "dead"]
       /\ UNCHANGED <<running, loop, starter, removals>>

\* Run failed before it opened the pipe, or the command is over.
HelperExits(k) ==
    /\ inst[k].helper \in {"boot", "opened", "run"}
    /\ inst' = [inst EXCEPT ![k].helper = "dead"]
    /\ UNCHANGED <<fifo, running, loop, starter, removals>>

Helper(k) == HelperOpensUnit(k) \/ HelperConnects(k) \/ HelperRemoves(k)

-------------------------------------------------------------------------------

Init ==
    /\ fifo = 0
    /\ running = 0
    /\ inst = <<>>
    /\ loop = [pc |-> "idle", victim |-> 0]
    /\ starter = "idle"
    /\ removals = 0

Next ==
    \/ StopUnit
    \/ RemoveContainer
    \/ CreateContainer
    \/ StartUnit
    \/ Start
    \/ \E k \in DOMAIN inst :
          Waiter(k) \/ Reader(k) \/ Helper(k) \/ HelperExits(k)

Spec == Init /\ [][Next]_vars

\* Every goroutine and every process that can run does. Nobody has to start,
\* stop or remove a unit, and a command need not end.
Fairness ==
    /\ WF_vars(RemoveContainer)
    /\ WF_vars(Start)
    /\ \A k \in 1 .. MaxStarts :
          /\ WF_vars(k \in DOMAIN inst /\ Waiter(k))
          /\ WF_vars(k \in DOMAIN inst /\ Reader(k))
          /\ WF_vars(k \in DOMAIN inst /\ Helper(k))

FairSpec == Spec /\ Fairness

-------------------------------------------------------------------------------
(* Properties.                                                             *)

Instance == [helper : {"none", "boot", "opened", "connect", "run", "wake",
                        "unlink", "dead"},
             out : Nat,
             reader : {"none", "new", "open", "read", "eof", "done"},
             in : Nat,
             waiter : {"none", "wait", "delete", "sleep", "unlink", "done"}]

TypeOK ==
    /\ fifo \in Nat
    /\ running \in DOMAIN inst \cup {0}
    /\ inst \in Seq(Instance)
    /\ loop \in [pc : {"idle", "stop", "kill", "delete", "open", "wake",
                       "unlink", "rmdir"},
                 victim : Nat]
    /\ loop.victim \in DOMAIN inst \cup {0}
    /\ loop.pc \in {"stop", "kill"} => loop.victim # 0
    /\ starter \in {"idle", "capture", "fork", "wake", "unlink", "set", "go"}
    /\ starter # "idle" => inst # <<>>
    /\ removals \in 0 .. MaxRemovals

\* As long as RunningUnits holds an instance, its waiter has not removed its
\* entry yet: UnitRunning never tells for good that a unit runs which has
\* exited (unit_manager.go:233-242; ContainerStatus relies on it).
TrackedUntilReaped ==
    running # 0 =>
        \/ inst[running].waiter \in {"wait", "delete"}
        \/ running = Newest /\ starter = "go" /\ inst[running].waiter = "none"

\* RemoveContainer and StartUnit return although they open and unlink pipes
\* that other processes use: the update loop cannot hang on a pipe
\* (O_NONBLOCK, pipe.go:110).
CallersReturn ==
    /\ loop.pc # "idle" ~> loop.pc = "idle"
    /\ starter # "idle" ~> starter = "idle"

HelperIs(k, pc) == k \in DOMAIN inst /\ inst[k].helper = pc
ReaderIs(k, pc) == k \in DOMAIN inst /\ inst[k].reader = pc

\* A unit that nobody removes and that is not started again.
Undisturbed == removals = 0 /\ Len(inst) <= 1 /\ starter \notin {"wake", "unlink"}

\* If it stays that way, its reader goroutine ends after its helper is gone,
\* also when the helper died before it opened the pipe: "Closing them will
\* make sure that any running goroutines reading from them will get an EOF."
\* (pipe.go:98)
UndisturbedReaderEnds ==
    []Undisturbed =>
        (HelperIs(1, "dead") ~> ReaderIs(1, "done"))

\* A command gets its output connected to the log of its unit: the helper does
\* not wait in OpenWriter for ever ("The reader side was created and connected
\* in New().", pipe.go:62), in an undisturbed unit.
UndisturbedHelperConnects ==
    []Undisturbed =>
        (HelperIs(1, "connect") ~> ~HelperIs(1, "connect"))

\* The same in any unit.
HelperConnectsToReader ==
    \A k \in 1 .. MaxStarts :
        HelperIs(k, "connect") ~> ~HelperIs(k, "connect")

===============================================================================
