# itzo in TLA+

itzo is the agent that runs inside the virtual machine of a pod. A controller
(Kip) sends it the specification of the pod; itzo pulls the images, starts the
units, restarts them as their policy says, probes them, keeps their logs and
reports their status. The code is Go (`pkg/`, `cmd/itzo`); line numbers in the
modules refer to it.

This directory holds TLA+ models of that code, the TLC configurations that
check them, and proofs that the TLA+ proof system (tlapm) checks.

- [The system](#the-system): components, state, operations, what is hard
- [The modules](#the-modules): which module models which code, and how
- [The runs](#the-runs): what each run shows, its bounds, its fairness
- [Where the code disagrees with itself](#where-the-code-disagrees-with-itself)
- [What is proved](#what-is-proved)
- [What is not modelled](#what-is-not-modelled)
- [Plan](#plan)

## The system

| component | state it keeps | operations | talks to |
|---|---|---|---|
| HTTP server (`server/server.go`, `http_utils.go`, `util.go`) | addresses of the pod, the network agent's process | update, status, logs, file, deploy, resizevolume, exec, attach, port-forward | pod controller (calls), pod network, log buffers, sessions |
| Pod controller (`server/pod_controller.go`) | `updateChan`, `podStatus`, `syncErrors`, `currentlyRestartingUnits`, `cancelFunc`, `waitGroup` | `UpdatePod`, update loop, `SyncPodUnits`, `RestartUnits`, `CreatePod`, `RestartPod`, `waitForInitUnit`, `GetStatus` | runtime (calls), one start goroutine per update |
| Itzo runtime (`runtime/itzo_linux.go`) | none of its own | sandbox, create, start, remove, status | unit manager, mounts, images |
| Mounts (`mount/mount.go`) | mount points and links below the base directory | create, delete, attach, detach | Itzo runtime |
| Podman runtime (`runtime/podman`) | the pod and its containers, in podman | the runtime interface | pod controller, conversion |
| Mac runtime (`runtime/mac`) | the machine of each unit | the runtime interface | pod controller, anka and its registry |
| Unit manager (`unit/unit_manager.go`) | `RunningUnits`, log buffers by name | `StartUnit`, `StopUnit`, `RemoveUnit`, `CaptureLogs`, the goroutine that waits for a helper | helper processes, pipes |
| Log pipes (`unit/pipe.go`) | two named pipes in the directory of each unit | `New`, `OpenReader`, `OpenWriter`, `Remove` | helper (writes), daemon (reads) |
| Unit loop (`unit/unit.go`) | the status file, the command, back-off | `RunUnitLoop`, `watchRunningCmd`, `handleCmdCleanup` | runs in the helper process; probe workers (channels), daemon (file) |
| Prober (`prober/`) | counters of equal results, a channel of two results | `doProbe` every period | the unit loop |
| Log buffer (`logbuf/logbuf.go`) | a ring of entries, an offset | `Write`, `Read`, `ReadSince` | pipe readers (write), tailers (read) |
| Log tailer (`server/server.go`) | the last offset | one poll per tick | log buffer, unit manager |
| Exec sessions (`server/exec.go`) | a process, a web socket | start, copy, exit code, end | HTTP server |
| Pod network (`net/`) | rules, name space, a veth pair | set-up, step by step | HTTP server, iptables, netlink |
| Network agent (`host/networkagent.go`) | a process | start, wait | HTTP server |
| Process tree killer (`util/kill`, `KillChildren`) | a listing of `/proc` | kill a tree | unit loop, daemon |
| Users, environment lists, capabilities, packages, tail of a file, conversion | none | computed in one go | unit loop, handlers, Podman runtime |
| Environment store, images, container logs, metrics, cloud metadata | local or none | | |

What is hard in this code:

- **Interleavings.** HTTP handlers, the update loop and the start goroutines
  share the controller without a lock. A unit has a helper process, a goroutine
  that waits for it and two that read its pipes, and those of an earlier
  instance of the same name may still be there. Two goroutines write one log
  buffer while others read it.
- **Names that outlive what they name.** `RunningUnits`, the pipes, the log
  buffers and the status files are all found by the unit's name, and everybody
  who deletes one deletes whatever the name stands for by then.
- **Partial failure.** Every runtime call may fail after it did half of its
  work, and the controller records the specification as applied all the same.
- **Blocking.** A full channel, the wait group, a named pipe without a
  peer: each can stop a thread, and the update loop is only one thread.
- **Looking first, acting later.** A handler of an update looks at the addresses
  and at the agent, and sets them much later; another handler does the same in
  between.
- **Ends.** A session has a client, a command and three copying goroutines, and each
  may end first.
- **Numbers.** Thresholds of probes, the ring's wrap around, the tailer that is
  lapped, the lines and bytes of a file's end.

What makes each component correct is what its module states as properties;
`hazards` in `PROJECT.json` lists where each one bites, and what is still
uncovered.

## The modules

| module | code | kind |
|---|---|---|
| `PodSpecs` | `unitsEqual`, `diffUnits`, `detectChangeType`; the fields of `api.PodSpec` | pure operators |
| `PodUpdates` | what `UpdatePod` and the update loop promise a client | abstract specification |
| `PodController` | `pod_controller.go` over `itzo_linux.go` | component, implements `PodUpdates` |
| `PodControllerProofs` | | proofs about `PodController`: updates, the channel, the goroutines |
| `PodUnitsProofs` | | proofs about `PodController`: the units |
| `UnitManager` | `unit_manager.go`, `pipe.go`, the start of `unit.go`, the helper's branch of `cmd/itzo` | component |
| `UnitManagerProofs` | | proofs about `UnitManager` |
| `ProbeWorker` | `prober/worker.go` | steps of one worker, used by `UnitLoop` |
| `UnitLoop` | `RunUnitLoop` and below in `unit.go` | component, composed with `ProbeWorker` |
| `UnitLoopProofs` | | proofs about `UnitLoop` |
| `LogBuffer` | `logbuf.go`, `RunLogTailer` of `server.go` | component |
| `LogBufferProofs` | | proofs about `LogBuffer` |
| `RuntimeCalls` | the calls `pod_controller.go` makes on the runtime interface | steps of the caller, used by the three runtimes |
| `ItzoRuntime` | `itzo_linux.go`, `mount.go` | answers of one runtime |
| `PodmanRuntime` | `podman.go` | answers of one runtime |
| `MacRuntime` | `runtime/mac` | answers of one runtime |
| `Runtimes` | | composes the four |
| `RuntimesProofs` | | proofs about `Runtimes` |
| `PodNetwork` | `updateHandler` of `server.go`, `net/`, `networkagent.go` | component |
| `Sessions` | `exec.go`, `runAttach` and port-forward of `server.go` | component |
| `Server` | | composes the two |
| `ServerProofs` | | proofs about `Server`: the set-up of the network, types, the network agent, the exit code |
| `Selections` | loops over a list that skip some elements | operators, used by `RuntimeCalls` and the four below |
| `ProcessTrees` | `kill.go`, `KillChildren` | pure operators |
| `FilesAndVolumes` | `file.go`, `doDeployPackage`, `resizeVolume` | pure operators |
| `UnitSettings` | `user.go`, `pwduser.go`, `envlist.go`, `caps.go`, `CreateCommand`, `GetUser` | pure operators |
| `Conversion` | `convert.go` | pure operators |
| `Algorithms` | | what the four compute against what it is for |
| `AlgorithmsProofs` | | proofs about `Algorithms` |
| `MC...` | | instances for TLC |

A definition named `X_Something` right before a definition `X` is a plausible
mistake in the code that `X` models. No specification uses it; putting it in
the place of `X` must make the property it belongs to fail.

### PodController

A unit is its name and its image, the two fields `unitsEqual` compares. An
update is numbered when it enters `updateChan`, and `updates[u]` holds its
specification and the goroutine that it spawned. Each runtime call is one step
of the thread that makes it.

| action | code |
|---|---|
| `CheckRoom`, `Send` | `UpdatePod`: the length check and the send are two steps |
| `DropOutdated`, `StopDropping`, `Receive` | `runUpdateLoop`, the head of `doUpdate` and `SyncPodUnits` |
| `RemoveContainer` | one removal of `RestartUnits`, `RestartPod`, `RemovePodSandbox`, in the order of the code |
| `MarkRestarting` | the entry in `currentlyRestartingUnits`, set after each removal and deleted after each creation of `RestartUnits`: a step of its own, which `GetStatus` may come before |
| `PrepareSandbox` | `RunPodSandbox` and its volumes |
| `CreateContainer` | one creation of `RestartUnits`, `CreatePod`, `RestartPod` |
| `CancelPrevious`, `SpawnStarter` | `cancelFunc`, `waitGroup.Wait()`, `waitGroup.Add(1)`, the goroutine |
| `StartInitUnit`, `InitUnitSucceeded`, `GiveUpOnInit` | the loop over init units with `waitForInitUnit` |
| `StartMainUnit`, `FinishStart` | the loop over the regular units, `waitGroup.Done()` |
| `CommandExits`, `HelperFails`, `OrphanExits` | the helper of a unit, seen from the daemon |

`FinishUpdate` is the assignment of `podStatus` that `doUpdate` makes after
`SyncPodUnits`, also after an error. A failing call may have done a part of its
work (`PartlyRemoved`; an image that was already pulled). The entry of a unit in
`RunningUnits` is treated as exact here, except that a second start loses the
first helper (`orphan`); the races on the entry are the subject of
`UnitManager`. `MergeSecretsIntoSpec` only changes environment values, which
nothing here depends on.

### UnitManager

One unit, started up to `MaxStarts` times. A pipe is its inode: threads find it
by its path (`fifo`) and keep it open when the path leads elsewhere. stdout and
stderr have one pipe each and are handled alike, so one is modelled. Opening
for reading blocks until there is a writer and the other way round; `O_NONBLOCK`
in `LogPipe.Remove` makes it return; the open and the `os.Remove` after it are two
steps, and there is no second one when the open found nothing (`AfterOpen`). The update loop (`loop`), the start
goroutine (`starter`) and, per instance, helper, waiter and reader are program
counters. A helper and its command die together, because the helper is the
first process of its PID name space; the exception, a unit without a root file
system, is not modelled.

`CreateContainer` appears because it makes the directory and the pipes again
(`OpenUnit`). After `StopUnit` it is the update loop's other way to touch the
path while threads of an earlier instance are still there.

### ProbeWorker and UnitLoop

`UnitLoop` is the helper process: the main goroutine (`pc`), the command
(`cmd`), the status file (`status`) and a worker per probe type. The command
exits and changes its answer to probes whenever it likes. `end` is why
`watchRunningCmd` returned: the command's exit, the exit status taken by the
reaper (`lost`: `cmd.Wait()` then fails without an exit status, which counts as
a failure with code 0), or a failed probe (code 0, no failure). `select` takes
any ready channel. `given`, the last answers, and `exited`, how the command really ended, are
histories, which no action reads.

The reaper is an external package that `cmd/itzo/itzo.go` starts; the map marks
what is modelled from its use.

### LogBuffer

`buf`, `offset` and one record per writer and tailer. Each load and store of
`lb.offset` and each access to a slot is a step. An entry is several words, so
storing and copying one take two steps and a reader in between sees `Torn`.
`TailAsks`, `TailProbes`, `TailReads` and `TailCopies` are the iteration of
`RunLogTailer`, with its second `ReadSince` once the unit has stopped.

### RuntimeCalls and the three runtimes

`RuntimeCalls` is the pod controller as a runtime sees it: `SyncPodUnits` turns an
update into the sequence `work` of the calls that `CreatePod`, `RestartPod` or
`RestartUnits` makes, in the order of the code, and `todo` holds the units that the
start goroutine still has to start beside them. The queue of updates and the wait for
init units are left to `PodController`. Each runtime answers the call at the head of
`work`: `Ok` when nothing is in the way, `Refused` when the state makes the call fail,
`Broken` when it fails for a reason from outside, `Ignored` when such a failure is only
logged (both together at most `MaxFaults` times). A call
that gives up ends the update, and `podStatus` is replaced all the same.

| module | what the calls work on |
|---|---|
| `ItzoRuntime` | volumes by their source: an entry under `mounts/` (`entry`), what is mounted on it (`layers`), how often it is mounted in each unit (`attached`), the units' directories and helpers. `RunPodSandbox` and `RemovePodSandbox` expand into one call per volume and unit. A removal is `StopUnit`, a `DetachMount` for each volume of the specification and `RemoveUnit` (`stopped`, `detaching`); each may fail, only the last one's error counts, and starts may come in between, also of the unit itself. `overlaid` are the units with an overlay root file system, which takes the mounts along when it is unmounted: a unit gets one as the annotations of the previous update say, and in the first update always |
| `PodmanRuntime` | the pod and the state of each container. `PodmanCreateContainer` also succeeds when podman did not create anything; `swallowed` remembers that |
| `MacRuntime` | the units that have a machine (`vmid`), the image that names it, and each machine's state; units of one image share it. A start without a machine returns no status, and the goroutine that looks into it ends the daemon (`crashed`) |
| `Runtimes` | the runtime that the daemon's flags choose, under the same controller |

The file types of a host path volume and the inverted checks for sockets and devices
(`mount.go`) are in `Ensured` and `HostPathOK`.

### PodNetwork, Sessions and Server

`PodNetwork` follows each handler (`hpc`) through `updateHandler`: it looks at the
addresses (`CheckAddresses`), goes through the steps of `SetupNetNamespace` one at a
time (`SetUp`; each may fail, and the error is answered with a 500), sets the three
addresses (`SetPrimary`, `SetSecondary`, `SetPodNetwork`), looks at the network agent
(`CheckAgent`), starts it (`StartAgent`) and remembers it (`RecordAgent`), and calls
`UpdatePod`, where `PodController` takes over. `AgentExits` and `AgentWaited` are the
agent and the goroutine that waits for it. The rules of the masquerading chain are kept
in order, the three rules about private networks as one. The name space is only counted, the
veth pair is in the host or in the pod.

`Sessions` is one session on a web socket. `StartExec` starts the command, the copiers
of its streams and the goroutine of `waitForFinished` (`joiner`); `HandlerJoins` and
`HandlerSeesClose` are the two ways the handler's `select` goes on. Output passes
through `piped` on its way to the messages `sent`. `child` stands for processes that outlive the
one that the server started and that keep its output open: what a command leaves behind, or, as
`exec.go:110` runs a command of a unit under `nsenter`, which forks it, the command itself.
Attach polls the log buffer (`AttachTick`), port-forward copies both ways. An interactive attach opens the
unit's stdin before it looks at the socket, and that open waits for a reader (`OpenStdinWriter`);
an input that nobody reads fills up, and its copier then is `blocked` until somebody reads or the
last reader is gone. The web socket library is outside of `src/pkg`: its `RunDispatch` and its
readers are taken to return when the socket is closed.

`Server` puts them side by side: they share nothing but the address of the pod, so one
behaviour has updates or a session. Several sessions share nothing with each other.

### ProcessTrees, FilesAndVolumes, UnitSettings, Conversion

What handlers and the helper compute in one go is written as operators, and `Algorithms` makes one
step of each: a task holds the input, `result` the answer, and the properties say
what the answer is for, by a definition of their own (the closure of the parent relation
for process trees, the last entry of a key for environments). What the code does by
recursion or in a loop is a recursive function: `KillProcessTree` over the listings
that are left, the others over the number of steps. `TasksAssumption` says what callers pass: a
listing in the order of its pids, an archive whose entries and hard links have names below the
directory, at most one user and one group to override with, lists of strings. The limits of the
file handler may be any integers.

`KillChildren` kills while it reads: `orphans` are the processes whose parent, if it was killed, is
dead by the time their own parent is read, so that they have `adopter` for a parent then. An entry of
an archive may be written as a whole, in part or not at all (`made`), as the code looks at
no error of `Mkdir` and `WriteFile`, and `files` is what the directory holds
before: nothing, an earlier package, or something of another kind.

## The runs

The suite takes a few minutes. Symmetry is not used: the specifications name
particular units and images, and liveness is checked.

| run | question | bounds | distinct states |
|---|---|---|---|
| `PodSafety` | safety of the controller for pods with and without init units | 5 specifications, 3 updates, 1 handler, channel of 2, 1 fault | 2.6 million |
| `PodLiveness` | updates are applied and handlers return, for pods without init units | 2 specifications, 4 updates, 2 handlers, channel of 1, 1 fault | 51 thousand |
| `UnitPipes` | no hang on a pipe, entries of `RunningUnits` | 2 starts, 1 removal | 394 thousand |
| `UnitLoop` | policies, probes and status file | 10 units, 2 restarts, thresholds 1 and 2, channel of 2 | 229 thousand |
| `LogBuffer` | what readers and tailers get | 1 writer, 1 tailer, ring of 3, 9 lines | 28 thousand |
| `Runtimes` | what the controller believes and what the runtime has | 5 requests, 3 updates, 1 fault, 3 names, 3 images, 4 volumes, 3 runtimes | 4.4 million |
| `Server` | one set-up of the network, one agent, ends of sessions | 2 handlers, 3 posts, 1 failing step, 2 agents; 4 kinds of session, 3 lines | 1.5 million |
| `Algorithms` | the computations against what they are for | all inputs up to the bounds below | 411 thousand |
| `PodStuck`, `PodAlwaysInit`, `UnitBlocked`, `RuntimeDetach` | one statement of the code's comments each, which TLC refutes | smallest that shows it | |

### What the passing runs show

`PodSafety`
- `OnlyNewestStarterRuns`: start goroutines are serial and the running one is
  that of the newest update.
- `LatestUpdateNotLost`, `TakesLatestUpdates`: dropping outdated updates never
  drops the latest; the detailed specification implements `PodUpdates`.
- `DeployedMatchesStatus`: without faults, after any sequence of updates,
  exactly the units of `podStatus` are deployed, each with its image, although
  the diff is positional and deletes and adds the same name in one update.
- `ReplacedUnitsAreMarked`: what `GetStatus` relies on in the middle of a
  replacement. The unit that was removed last is excepted until the loop's next step sets
  its entry: a `GetStatus` in that gap asks the runtime for a unit that is not there.
- `AbortedStartIsReported`: a start that gave up left its unit in `syncErrors`.
- `InitUnitsFinishFirstUnlessFaulty`, `UnitsStartFromTheirImage`: what a start
  goroutine may count on when it starts a regular unit. Both speak about the
  goroutine of the last update the loop took: while the loop applies the next
  update, the goroutine of the previous one still runs and may start a unit
  that was just removed.

`PodLiveness`: `EveryUpdateIsApplied` and `HandlersReturn`. With init units both
fail; that is the first finding below.

`UnitPipes`: `TrackedUntilReaped` (an entry always has a waiter that will delete
it, so `UnitRunning` never says for good that a dead unit runs); `CallersReturn`
(neither the update loop nor a start goroutine hangs on a pipe);
`UndisturbedReaderEnds` and `UndisturbedHelperConnects` (one instance that nobody
removes: its reader ends and its helper connects, whatever order they run in).

`UnitLoop`: `ReadyOnlyWhileRunning`; `RerunsFollowPolicy` in both directions: which
commands are run again, and after which the unit is given up, with a failed probe and a lost
exit status under OnFailure as the named exceptions; `ReportsMeetThreshold`; and for a command that keeps failing a probe
`UnreadyIsNoticed` and `UnlivelyIsEnded`, although results that find the channel
full are dropped.

`LogBuffer`: `ReadReturnsNewest` (over all counts and all fill levels),
`DeliversTheLineOrIsLapped` (each poll delivers the next lines, or the oldest that are
kept when the tailer was lapped), `EndsAfterTheLastLine`, `TailersEnd`.

`Runtimes`
- `UnitsAreDeployed`: after updates none of which gave up, every regular unit has what it
  needs in each of the runtimes - a directory with each of its volumes mounted once, a container, a
  machine - although the start goroutine of the previous update starts units
  while they are removed and created. Podman's swallowed creations are excepted by name.
- `VolumesSurviveUnits`: the files of a volume are only removed together with a
  unit's when an unmount of that unit failed, which `RemoveContainer` logs before it goes
  on, when an earlier update gave up, or (`RuntimeDetach`) when a client changes the
  mounts of a unit and not its image.
- `CrashNeedsRemovedUnit`: on a Mac the daemon only ends by starting a unit without a
  machine if that is an init unit or one removed under the start goroutine.

`Server`
- `NetworkIsReady`: what handlers that overlap may not rely on, and all others may: an
  update reaches the controller only with the addresses, the veth pair and the routes of
  the update that set them up, also after attempts that failed half-way.
- `MasqueradesPodOnly`: the chain then holds the rules of the comment in `masq.go`, in order.
- `OneNetworkAgent`: an agent that runs is known, unless two handlers overlapped.
- `ExitCodeIsLast`: a client gets the exit code after all output, of the command's
  children too.
- `SessionsEnd`: no session, goroutine or command outlives a client that left or a
  command that ended, except while a child keeps the output open, or when an interactive attach
  hangs in the unit's stdin: in the open, if the unit ended after the look at its pid, or in a
  write to a unit that reads nothing. A command that runs in
  a unit is such a child of `nsenter`: killing `nsenter` does not end it.

The history variables `raced` and `agentRaced` mark behaviours in which a handler
passed while another was in the middle of a set-up or a start. TLC finds the properties violated
without them; the handlers really do interfere then (hazards in `PROJECT.json`).

`Algorithms`
- `KillersReachTheTree`: `KillProcessTree` kills exactly the tree, nothing twice, children first.
  `KillChildren` kills only descendants and all of the daemon's own children, but all descendants
  only if parents have the smaller pids and nobody lost its parent before its turn, or the daemon
  adopts orphans (it does when it is the first process or a subreaper).
- `FilesArriveWhole`: the end of a file is a suffix with no more lines than asked for. Without a limit of
  lines it has exactly as many bytes as allowed; with one it may pass the limit of bytes by less than a
  chunk. What can be written of a package is there, whatever the order of its entries, and a deploy
  that succeeds made all links; it may succeed without what could not be written.
- `UnitsRunAsConfigured`: users, environment, command, capabilities and what Podman is given. The two
  look-ups of a user agree if the files name what the image asks for exactly once, and if a group
  that is asked for by number shares it with no user.

That the image's arguments show at the end of
the command line only if the unit has none of its own is stated for arguments that share no word
with the unit's: a unit that gives the image's own words is not told from one that gives none.

### Why the bounds are enough

- Three updates let one be applied, one wait and one be dropped; a channel of
  two is the smallest that ever drops. `PodLiveness` takes a channel of one and
  two handlers so that both pass the length check and one blocks, and a fourth
  update so that one is sent while the loop waits and another is in the channel. One fault
  anywhere reaches every error path; two faults in a row only repeat them.
  Five specifications cover creation, restart, addition, removal, upgrade and
  reordering of regular units and an upgraded init unit.
- Two starts and one removal are the smallest case in which threads of two
  instances and of the removal meet.
- Two restarts run the loop's body after every way it can end. Thresholds of one
  and two separate "reported at once" from "counted"; the channel has the size of
  the code.
- A ring of three and nine lines wrap around three times, and let the writer lap
  the tailer.
- `Runtimes`: three updates are a creation, a change and a change of what was changed,
  the shortest sequence in which a call of an update meets what two earlier ones left. Units
  mount what goes with their image, so a replaced unit has other mounts. The
  requests restart no pod with a disk emptyDir, because that restart never succeeds (see
  below); the volumes include one of every kind of source, a host path that may be
  anything, one without a type (its link may dangle), and an invalid type.
- `Server`: two handlers race, a third post comes when they are done. One failing step anywhere
  leaves every partial set-up; its retry may be for another address. Two
  agents are enough for one to be overwritten by the other's record or wait. Three lines
  on two streams separate "copied", "in the pipe" and "lost".
- `Algorithms`: listings of up to four processes (every parent relation), files of
  up to seven characters with chunks of two (`ChunkSize`, 8196 in the code) and a maximum of five
  (`MaxBufferSize`), so that a file has up to four chunks and the last is short; packages
  of up to three entries, environments of up to two on each side, ports modulo 8
  (`PortSpan`, 2^16), two tries for 30 and 15 (`GrowTries`, `ResizeTries`). The limit when none is
  asked for (`FileBytesLimit`, 4096) is four, so that it is neither a chunk nor the maximum; limits
  asked for go from below zero to above the length. Every set of processes may be orphaned early, and
  the adopter is the daemon or not.

A run stops only where the system may: no update need arrive, no unit need be
started, no line be logged. Each configuration that does not check for deadlock
says so.

### Fairness

- Goroutines and processes that can run do (weak fairness): the Go scheduler
  and the kernel's. A blocked channel operation proceeds once it can.
- Clients, commands and the removal of units are not fair: nobody need send an
  update, a command need not exit. The one exception is `CommandExits(n, "ok",
  FALSE)` in `PodController`, which `SuccessfulInitUnitFinishes` needs: it is
  refuted even for commands that exit with 0 whenever they are run.
- `UnitLoop` asks for strong fairness of `ProbeFails` and `StartupSucceeds`: the
  `select` chooses at random among ready channels, so a result that is there again
  and again is taken eventually. Worker rounds are fair because they come from a
  ticker.
- `Server` is weakly fair for the steps of a session's goroutines only. Every such step
  brings the session closer to its end, so one condition for all of them is enough. Clients, commands and
  their children do what they like, and updates are not fair at all.
- `WaiterWakes` waits until the reader goroutine of its instance has run. This
  stands for the three seconds of sleep (`LOG_PIPE_FINISH_READ_SLEEP` in
  `unit_manager.go`) between the helper's end and the removal of its pipe: the
  model has no clock, and a goroutine that does not get to run for three seconds is
  left out.

## Where the code disagrees with itself

Each of these is a run that checks one statement of a comment; TLC finds a
behaviour of the modelled code that violates it.

| run | statement | what happens |
|---|---|---|
| `PodStuck` | `pod_controller.go:306` "Wait for previous update to finish." | when `waitForInitUnit` returns false the goroutine returns without `Done()` (line 325); the next update that changes anything waits for ever, and the channel fills up |
| `PodAlwaysInit` | `pod_controller.go:312` "Restart policy "Always" is nonsensical for init units." | the corrected policy only reaches the wait; the helper of the init unit is started with the pod's policy and runs a finished init unit again. The wait only believes an exit of a unit that is not running |
| `UnitBlocked` | `pipe.go:62` "The reader side was created and connected in New()." | the update loop removes a unit while a start goroutine starts it, which needs one instance only: `Destroy` unlinks the pipe after `StartUnit` has made it and before its reader goroutine opens it. The reader gives up, the helper makes a new pipe (`OpenUnit`) and waits in `OpenWriter` for a reader that will not come |
| `RuntimeDetach` | `itzo_linux.go:162` "There's a few things here that need to happen in order:" (mounts are detached before files are removed) | `unitsEqual` compares name and image, and `podStatus` takes over the new mounts of a unit that was not created again; its removal detaches those, and `Destroy` removes the files of the volumes that are still mounted in it. It takes four updates of a pod whose annotations ask for no overlay: the first unit gets one all the same, as `pc.annotations` are still empty, and takes its mounts along when it is destroyed; the second one has none, the third update takes its mounts from the specification, and the fourth replaces it |

Met while modelling, without a run:

- `pod_controller.go:316` "Start init units first, one by one, and wait for each to
  finish.": after a creation that failed, the next change of the regular units counts as a change of units and
  skips the init units. `InitUnitsFinishFirstUnlessFaulty` excepts it.
- `api/types.go:498` "The docker image that will be pulled for this unit.":
  `CreateContainer`, which pulls, is called for regular units only.
- `api/types.go:527`: a failed liveness probe ends the command with code 0 and no failure, so
  under OnFailure the unit is not run again, while the comment says it is. `RerunsFollowPolicy`
  names this exception.
- `pod_controller.go:381` "if KIP asks for status in the middle of the restart": a unit gets its entry
  only after it is removed (lines 478 and 482).
- `itzo_linux.go:173`: a volume that cannot be detached is logged, and the unit's files are removed
  with what is still mounted among them.
- `server.go:515`: an interactive attach opens the unit's stdin for writing after the look at its pid, and
  nobody may be left to read it.
- `util.go:318` "This will ensure all the helper processes and their children get terminated":
  `KillChildren` kills a parent before it reads the parent of its children, which may be another one by then.
- `util.go:245,261`: errors of `Mkdir` and `WriteFile` are not looked at, so that a deploy may succeed
  without some of the files.
- `file.go:105`: a negative number of bytes makes the handler of a file panic (`TailPanics`), for which
  `net/http` ends the connection.
- `pwduser.go:125`: a group's number is looked up among the users.
- `logbuf.go:67` "increment only": two readers write without a lock, and the late store
  of one sets the offset back.
- `pod_controller.go:276-306`: the goroutine of an earlier update may start a unit that the
  next update has removed, before the next update waits for it.
- `mount.go:321`: a disk emptyDir stays mounted onto itself, so `DeleteMount` cannot
  remove it and a pod that has one cannot be restarted. Of a memory one only the tmpfs
  is taken off.
- `mount.go` rejects a socket or device where one is asked for and takes other
  files (`HostPathOK`).
- `podman.go`: a creation that fails is logged and reported as a success; the unit can then be
  neither started nor removed. `ContainerStatus` takes the image from the data of a
  container that it could not inspect (line 246).
- `ns.go:117`: nothing removes the veth pair. After a set-up that failed later than its creation
  every further set-up with an address fails when it creates the pair.

## What is proved

`PodControllerProofs` proves, for all specifications, any number of updates and
handlers, every channel size and every number of faults, from the named
assumptions `ChanSizeAssumption`, `BoundsAssumption`, `NoImageAssumption` and
`SpecsAssumption`:

| theorem | establishes |
|---|---|
| `TypeCorrect` | `TypeOK`: the channel never exceeds its size, the wait group never goes negative, the update loop only applies updates that exist |
| `StartersAreSerial` | `OnlyNewestStarterRuns` |
| `LatestIsKept` | `LatestUpdateNotLost` |
| `ImplementsPodUpdates` | `TakesLatestUpdates`: every step is a step of `PodUpdates` or leaves its state as it is |
| `NoChangesMeansEqual` | `detectChangeType` answers "no changes" exactly for equal, non-empty specifications |

The first three follow from one inductive invariant, `IInv` at the end of
`PodController`: `TypeOK` is not inductive, because a pending loop must only hold
positions that exist (`PositionsInv`) and `Done` must not take the counter below
zero, which needs that a pending goroutine is counted, that there is at most one,
and that it is the newest (`StarterInv`). That one in turn needs that the update
being applied is newer than all that have goroutines, which follows from the
channel holding the newest updates in order (`ChanInv`). `SeenInv` relates the last
look at the channel to its content, for the refinement. The proof of each part is a
lemma named `...Step`, with one step per action; `LoopFrame`, `StarterFrame`
and `HelperFrame` say once what the actions of a thread leave alone. For
`StarterInv` it matters that `WaitGroup.Wait` is taken to return only at zero; the
mutant without the wait violates two of the properties.

`PodUnitsProofs` goes on from `IInv` to the units of a pod. Its theorems that speak of
units by name have a hypothesis about the specifications, which Kubernetes, where the pods
come from, establishes and the code does not check:

| theorem | establishes | hypothesis |
|---|---|---|
| `StatusIsDeployed` | `DeployedMatchesStatus` | `DistinctNames` |
| `ReplacedAreMarked` | `ReplacedUnitsAreMarked` | `DistinctNames` |
| `StartsFromImage` | `UnitsStartFromTheirImage` | `DistinctNames` |
| `AbortsAreReported` | `AbortedStartIsReported` | |
| `InitUnitsComeFirst` | `InitUnitsFinishFirstUnlessFaulty` | `InitNamesApart` |

- `DistinctNames`: no pod has two regular units of one name. Without it TLC
  refutes the first and the third property, as the second creation under a name overwrites the image
  of the first.
- `InitNamesApart`: no init unit has the name of a regular unit, also not of one in another
  specification. Without it TLC refutes the property: the goroutine of the previous
  update starts the name as a regular unit after the removal, the next one
  starts it as an init unit beside it, and the lost helper writes its own exit to the status. The
  same init unit may be listed twice.
- `DeploymentInv` says for each stage of an update which root file systems there are:
  those of `podStatus` (between updates), those that are kept and those still to be removed
  (while removing), those of the new specification that are kept or already created
  (while creating). It holds without faults only. What makes it inductive is that the
  positions that a change of units keeps are the same in the old and the new specification
  (`KeptUnits`), and that a restart removes all (`KeptOrRemoved`).
- `ImagesInv` holds with faults too: what an update has created so far has its image, and
  so has what the goroutine of the last update taken is still to start, because that
  goroutine is only spawned when all creations went through.
- `InitsInv` is about init units without faults. The helper of an init unit is one that a
  goroutine waits for or gave up on, so nobody starts the unit a second time and there
  is no lost helper (`InitHelpersInv`). The newest goroutine is about the init
  units of `podStatus` and is finished with those behind it, except while a restart of the
  pod replaces them (`NewestInv`). A change of units may skip the init units as the
  goroutine before it, which it waits for, was done with the same ones.

The other proof modules are about one component each, for all values of its constants:

| module | theorem | establishes | assumptions |
|---|---|---|---|
| `RuntimesProofs` | `RuntimesTypeCorrect` | `TypeOK`; no counter of mounts is negative | those of its modules |
| | `CrashesNeedRemovedUnit` | `CrashNeedsRemovedUnit` | those of its modules |
| | `DeployedUnitsAreThere` | `UnitsAreDeployed` | also `DistinctNames`, `MountsFollowUnits(Requests)` |
| | `RemovalsKeepVolumes` | `VolumesSurviveUnits` | also `DistinctNames`, `MountsFollowUnits(Requests)` |
| `UnitManagerProofs` | `TypeCorrect` | `TypeOK`; a free inode is left for every pipe | `BoundsAssumption` |
| | `EntriesAreTracked` | `TrackedUntilReaped` | `BoundsAssumption` |
| `UnitLoopProofs` | `LoopTypeCorrect` | `TypeOK`; no channel and no counter overflows | `LoopAssumption` |
| | `AttributesMeanRunning` | `ReadyOnlyWhileRunning` | `LoopAssumption` |
| | `PolicyDecides` | `RerunsFollowPolicy` | `LoopAssumption` |
| | `ReportsAreDue` | `ReportsMeetThreshold` | `LoopAssumption` |
| `LogBufferProofs` | `LogTypeCorrect` | `TypeOK`; no access is out of the slice, for any writers | `CapacityAssumption`, `LinesAssumption` |
| | `NewestLinesAreRead` | `ReadReturnsNewest`, for one writer | `CapacityAssumption` |
| | `LinesAreDelivered` | `DeliversTheLineOrIsLapped`, for one writer | `CapacityAssumption` |
| | `TailersReachTheEnd` | `EndsAfterTheLastLine`, for one writer | `CapacityAssumption` |
| `ServerProofs` | `UpdatesFindTheNetwork` | `NetworkIsReady` | |
| | `ChainIsDocumented` | `MasqueradesPodOnly` | |
| | `ServerTypeCorrect` | `TypeOK` | `SessionsAssumption` |
| | `RunningAgentIsKnown` | `OneNetworkAgent` | |
| | `ExitCodeComesLast` | `ExitCodeIsLast` | `SessionsAssumption` |
| `AlgorithmsProofs` | `KillersAlwaysReachTheTree` | `KillersReachTheTree`, for any listing | `TasksAssumption` |
| | `FilesAlwaysArriveWhole` | `FilesArriveWhole`, for any file and archive | `TasksAssumption`, `SizesAssumption` |
| | `UnitsAlwaysRunAsConfigured` | `UnitsRunAsConfigured`, for any settings | `TasksAssumption`, `PortSpanAssumption` |

- `Runtimes`. The assumptions of its modules are `RequestsAssumption`,
  `SpecsAssumption` and `TemplatesAssumption` (the registry's templates are of images, and there is
  an image). `MountsFollowUnits(Requests)` says that a unit has the same mounts in
  every request that has it. The code does not ensure it, and `RuntimeDetach` shows what
  happens otherwise; `MCRuntimes` assumes it of the requests of the run and checks that
  those of `RuntimeDetach` do not have it.
  The proof has three layers. First what `SyncPodUnits` plans: its sequences of calls are concatenations
  of sequences over positions in order, so lemmas say what is in a
  concatenation and before what. That positions can be enumerated in order at all is counting:
  the ranks of n numbers are different and lie in 1 .. n, so that none is left out (`Ranks`). Then
  `CallInv`: whatever the runtime answers, the calls that are left in `work` create after they
  remove and spawn last, they create for the request being applied, and they remove for the one before it.
  Last `DeployedInv`: a unit of the new request is still to be created, where nothing is
  mounted or after its removal, or it is there and no call is about it (`Ready`); any other unit
  has no mounts or is still to be removed (`Removed`); no unit is created
  twice (`CreatedOnce`); and while units are removed, what is mounted is what the status
  says (`KnownMounts`). Between the steps of a removal
  `DetachInv` says the same of the unit that is being removed: what is mounted is what is
  still to be detached, unless one of its unmounts failed (`Unmounting`). A start of
  the unit in that gap makes its helper run while its directory goes, so `TypeOK` does not claim a directory
  for every helper. What one answer of a runtime does to the units is a lemma per
  runtime. For `CrashNeedsRemovedUnit`, `StarterInv` says that whatever the goroutine is to
  start has a machine, was removed or is an init unit, and that a goroutine which is still to be
  spawned will find it so.
- `UnitManager`. That a pipe finds an inode is a matter of counting: an instance holds
  two at most, so those in use, and the one at the path, are fewer than `Inodes`
  (`FreshInodeExists`). `WaiterInv` adds that the instance which is being started has no
  waiter yet: its entry is made one step before the goroutine that will delete it.
- `UnitLoop`. `LoopInv` goes by the place in the loop: the state is "running" where a
  command is watched, the attributes are cleared where it is not, and at the top and in the
  back-off the policy allows another run. Each property is a consequence of one place.
  `CountInv` ties the counter of a worker to the history of its answers: at least so many of the last
  answers were equal (`CountsRun`), so a report means that there were as many as the threshold.
- `Server`, the agent. `AgentInv` says that the goroutine that waits is the one of the known
  agent, so its reset of `networkAgentCmd` cannot hide another one, and that only one handler is
  between the look and the record. Both fail once handlers overlap, which `agentRaced`
  records.
- `Server`, the exit code. `OutputInv` counts: as long as the client is there, what was sent and what
  is in the pipes are all lines so far, and a copier that is done left nothing behind. The code is
  sent when all copiers and the process are done, so nothing can follow it.
- `Server`, the network. `NetInv` says for each step of a set-up what the steps before it have done
  (`Progress`), whatever an earlier set-up that failed left behind. This is where the flush of the
  chain matters. When no handler is in between, the network is untouched or complete.
- `LogBuffer`. `RingInv` says that every line less than a buffer old is in its slot, also while the
  next one is stored. It rests on `CloseSlotsDiffer`: positions less than a buffer apart have
  different slots. `TailInv` says of a tailer that it never is ahead of the
  offset, and that what it copied first is the line of its position unless the writer is a
  buffer ahead since. `LogTypeCorrect` is about any number of writers.
- `Server`, the types. `PipeInv` is what the counters of the session need: what was piped and
  what was sent is no more than what was written, whichever goroutine is in between.
- `Algorithms`. The invariant, `Computed`, only says that a result is that of its task, so the
  proof is about the operators. What a recursive function computes is an induction over its
  data, and the library's theorems for that have an operator as a parameter, which the provers
  cannot instantiate. Here a predicate is a set: `LeastNumber` and `Induction` are about sets of numbers,
  and `Recursion` shows that a recursion along a measure has a solution, given its step as a function
  (`CountingRecursion` for those that count up). For each of the operators a lemma `...Is`
  says that it is such a recursion, and an invariant of its steps does the rest:
  - `KillProcessTree`: what is reached with part of the listing is the least closed set
    (`Reach`), and it is the process with what its children reach without themselves
    (`ReachOfChildren`). In a forest the trees of siblings share nothing (`SiblingsTrees`), so nothing
    is killed twice and no child after its parent. `KillChildren` goes through the listing once, and
    only adds to what it killed: with pids in order a parent with a smaller pid comes first, and if it
    can be read as the parent still, the child is found (`KillChildrenFindsDescendants`).
  - `TailFile`: after k chunks the text is an ending of the file, at most as many lines as asked
    for, and either all k chunks or enough (`TailOk`); the chunk before the last started below the limit
    of bytes.
  - `DeployPackage`: after the first pass every file and directory of the archive is there, and
    after n links the first n of them (`ExtractedIs`, `DeployPackageArrives`); a hard link finds its
    target as no link takes the place of a file of another name.
  - environments: after n entries of the unit every key has one entry, the unit's last or else
    the image's (`Merged`), and `AddToEnvList` keeps keys unique although it turns the list round.

Model-checked only:
- liveness (`EveryUpdateIsApplied`, `HandlersReturn`, `CallersReturn`, `UndisturbedReaderEnds`,
  `UndisturbedHelperConnects`, `UnreadyIsNoticed`, `UnlivelyIsEnded`, `TailersEnd`, `SessionsEnd`), because
  fairness and `ENABLED` are out of the prover's reach.

No module that is proved about has a `RECURSIVE` operator, with which the provers lose arithmetic.
Every other property of a run that passes is a theorem. A run checks it for the constants in its
configuration, a theorem for all that satisfy the assumptions. Numbers bounded in a
run (`MaxUpdates`, `MaxFaults`, `MaxLines` ...) are any natural numbers in the theorems.

## What is not modelled

`components` in `PROJECT.json` lists every part with its reason. In short:
- the environment store, which nothing but its tests calls; a map behind one mutex;
- pulling images, container logs, metrics, cloud metadata and the set-up of graphics
  cards: calls of programs and services outside, or output; where the
  modelled code depends on one, it succeeds or fails there;
- handlers that only report (ping, version, status), formats of requests and answers, TLS.

Left out inside modelled parts:
- the plain Go maps and structs that are accessed without a lock are modelled with
  atomic steps, except in `LogBuffer` and `PodNetwork`: a concurrent map access ends the Go process,
  and a torn read of `podStatus` in `GetStatus` has no later effect;
- the fields of `podStatus` that only `GetStatus` and the metrics read;
- the clock: periods, delays and sleeps end at some time, back-off is its number of
  doublings;
- `ItzoRuntime`: the mounts that the helper makes once for its own root file system
  (`MountSpecial`, `PivotRoot`), sub-paths of mounts, the content of packages and secrets;
- `PodNetwork`: choosing the interface, forwarding and the metadata service, each
  of which only fails or does not; `Sessions`: sizes of terminals;
- `ProcessTrees`: processes that start while the listing is worked off, and for `KillProcessTree`
  those that end;
- `Conversion`: units and probes, and fields that are copied one to one;
- `Algorithms`: packages over links and over directories in the place of files, which the
  modelled deploy handles but no property is about.

## Plan

1. Refinements: `Runtimes` as an implementation of the removals and creations in
   `PodController`, one runtime at a time, so that `DeployedMatchesStatus` and
   `UnitsAreDeployed` become one statement.
2. A log buffer and a tailer over a restart of the unit, and two readers that write one
   buffer.
3. Several updates of one pod under `Runtimes` with a queue, so that its controller is the
   one of `PodController`.
