------------------------------ MODULE UnitLoop ------------------------------
(***************************************************************************)
(* The helper process of a unit: RunUnitLoop, watchRunningCmd and          *)
(* handleCmdCleanup of pkg/unit/unit.go, with the probe workers they start.*)
(*                                                                         *)
(* The main goroutine runs the command, watches it and decides whether to  *)
(* run it again. The command exits and answers probes at will, the workers *)
(* probe it, and the status file tells the daemon how the unit is.         *)
(***************************************************************************)
EXTENDS ProbeWorker

CONSTANTS
    Configs,        \* units to choose from: pairs of a restart policy and the
                    \* set of the probe types that the unit has
    MaxBackOff,     \* the longest backoff, a number of doublings of 1s
    MaxRestarts     \* bound: times the loop starts again

ASSUME LoopAssumption ==
    /\ Configs \subseteq {"Always", "OnFailure", "Never"} \X SUBSET ProbeTypes
    /\ MaxBackOff \in Nat
    /\ MaxRestarts \in Nat

VARIABLES
    policy,         \* the restart policy the helper was started with
    probes,         \* the probe types with a probe in the unit's configuration
    pc,             \* the main goroutine
    cmd,            \* the command: "none", "running", or how it exited
    end,            \* why watchRunningCmd returned: "ok", "err", "lost", "probe"
    exited,         \* history: how the last command ended: "ok" or "err" by
                    \* itself, "probe" when it was still running
    restarts,       \* the local restarts, plus 1
    backoff,        \* log2 of the seconds of the local backoff
    status,         \* the status file: [state, code, ready, started, restarts]
    worker,         \* per probe type: a worker or NoWorker
    answer,         \* per probe type: what the command answers at present
    given           \* history: the last answers that the worker got

vars == <<policy, probes, pc, cmd, end, exited, restarts, backoff, status,
          worker, answer, given>>

HasWorker(type) == worker[type].on

-------------------------------------------------------------------------------
(* The status file. Writers read it, change some fields and write it back. *)

WithAttrs(s, ready, started) == [s EXCEPT !.ready = ready, !.started = started]

\* (Mutant: only an exit status tells a failure.)
Failed_ByStatus(why) == why = "err"

\* The command failed for handleCmdCleanup and maybeBackOff.
Failed(why) == why \in {"err", "lost"}

\* setTerminatedState: the exit code is 0 when a probe ended the command, and
\* when its exit status was lost.
Terminated(s, why) ==
    [s EXCEPT !.state = "terminated", !.code = IF why = "err" THEN "err" ELSE "ok"]

-------------------------------------------------------------------------------
(* maybeBackOff.                                                           *)

\* failed: the command exited with an error; ranLong: it ran for at least
\* BACKOFF_RESET_TIME.
NextBackOff(failed, ranLong) ==
    IF ~failed \/ ranLong THEN 0
    ELSE IF backoff < MaxBackOff THEN backoff + 1 ELSE MaxBackOff

\* The sleep is over.
BackOffEnds ==
    /\ pc = "backoff"
    /\ pc' = "attempt"
    /\ UNCHANGED <<policy, probes, cmd, end, exited, restarts, backoff, status,
                   worker, answer, given>>

-------------------------------------------------------------------------------
(* The top of RunUnitLoop.                                                 *)

\* setCapabilities fails: the status keeps its attributes and its count.
CapabilitiesFail ==
    /\ pc = "attempt"
    /\ restarts < MaxRestarts
    /\ restarts' = restarts + 1
    /\ status' = [status EXCEPT !.state = "waiting"]
    /\ backoff' = NextBackOff(TRUE, FALSE)
    /\ pc' = "backoff"
    /\ UNCHANGED <<policy, probes, cmd, end, exited, worker, answer, given>>

\* cmd.Start() fails.
StartFails ==
    /\ pc = "attempt"
    /\ restarts < MaxRestarts
    /\ restarts' = restarts + 1
    /\ status' = [WithAttrs(status, FALSE, FALSE)
                    EXCEPT !.state = "waiting", !.restarts = restarts]
    /\ backoff' = NextBackOff(TRUE, FALSE)
    /\ pc' = "backoff"
    /\ UNCHANGED <<policy, probes, cmd, end, exited, worker, answer, given>>

\* The workers that a newly watched command gets.
Workers(types) ==
    [t \in ProbeTypes |-> IF t \in types \cap probes THEN NewWorker ELSE NoWorker]

NoAnswers == [t \in ProbeTypes |-> <<>>]

\* The attributes once the startup probe is over, or there is none.
Watched(s) == WithAttrs(s, "readiness" \notin probes, TRUE)

\* cmd.Start() succeeds, and watchRunningCmd begins.
StartSucceeds ==
    /\ pc = "attempt"
    /\ restarts < MaxRestarts
    /\ restarts' = restarts + 1
    /\ cmd' = "running"
    /\ LET s == [WithAttrs(status, FALSE, FALSE)
                   EXCEPT !.state = "running", !.restarts = restarts] IN
       IF "startup" \in probes
       THEN /\ status' = s
            /\ worker' = Workers({"startup"})
            /\ pc' = "startup"
       ELSE /\ status' = Watched(s)
            /\ worker' = Workers({"liveness", "readiness"})
            /\ pc' = "watch"
    /\ given' = NoAnswers
    /\ UNCHANGED <<policy, probes, end, exited, backoff, answer>>

-------------------------------------------------------------------------------
(* watchRunningCmd. The select takes any channel that has something.       *)

\* watchRunningCmd returns, and its deferred calls stop the workers.
Return(why) ==
    /\ end' = why
    /\ exited' = IF cmd = "running" THEN "probe" ELSE cmd
    /\ worker' = [t \in ProbeTypes |-> NoWorker]
    /\ pc' = "cleanup"
    /\ given' = NoAnswers
    /\ UNCHANGED <<policy, probes, cmd, restarts, backoff, status, answer>>

\* The command exited by itself. The helper is the first process of its
\* namespace and reaps every child: its reaper may take the exit status, and
\* cmd.Wait() then returns an error without one.
CommandDone ==
    /\ pc \in {"startup", "watch"}
    /\ cmd \in {"ok", "err"}
    /\ \E why \in {cmd, "lost"} : Return(why)

HasResult(type, result) ==
    HasWorker(type) /\ worker[type].results # <<>> /\ Head(worker[type].results) = result

\* The worker without its oldest result.
Taken(type) == [worker EXCEPT ![type].results = Tail(@)]

ProbeFails ==
    /\ \/ pc = "startup" /\ HasResult("startup", "Failure")
       \/ pc = "watch" /\ HasResult("liveness", "Failure")
    /\ Return("probe")

\* The startup worker is stopped and the other two are started.
StartupSucceeds ==
    /\ pc = "startup"
    /\ HasResult("startup", "Success")
    /\ status' = Watched(status)
    /\ worker' = Workers({"liveness", "readiness"})
    /\ pc' = "watch"
    /\ given' = NoAnswers
    /\ UNCHANGED <<policy, probes, cmd, end, exited, restarts, backoff, answer>>

\* Results that change nothing.
ResultIgnored ==
    /\ \/ /\ pc = "startup"
          /\ HasResult("startup", "Unknown")
          /\ worker' = Taken("startup")
       \/ /\ pc = "watch"
          /\ HasResult("liveness", "Success")
          /\ worker' = Taken("liveness")
    /\ UNCHANGED <<policy, probes, pc, cmd, end, exited, restarts, backoff,
                   status, answer, given>>

ReadinessChanges(result) ==
    /\ pc = "watch"
    /\ HasResult("readiness", result)
    /\ worker' = Taken("readiness")
    /\ status' = [status EXCEPT !.ready = (result = "Success")]
    /\ UNCHANGED <<policy, probes, pc, cmd, end, exited, restarts, backoff,
                   answer, given>>

WatchRunningCmd ==
    \/ CommandDone
    \/ ProbeFails
    \/ StartupSucceeds
    \/ ResultIgnored
    \/ \E result \in Outcomes : ReadinessChanges(result)

-------------------------------------------------------------------------------
(* handleCmdCleanup.                                                       *)

\* The process tree is killed and the attributes are cleared. (Mutant: they
\* are not cleared.)
KillProcessTree_KeepsAttrs ==
    /\ pc = "cleanup"
    /\ cmd' = "none"
    /\ pc' = "terminate"
    /\ UNCHANGED <<policy, probes, end, exited, restarts, backoff, status,
                   worker, answer, given>>

KillProcessTree ==
    /\ pc = "cleanup"
    /\ cmd' = "none"
    /\ status' = WithAttrs(status, FALSE, FALSE)
    /\ pc' = "terminate"
    /\ UNCHANGED <<policy, probes, end, exited, restarts, backoff, worker,
                   answer, given>>

\* keepGoing.
KeepGoing ==
    ~(policy = "Never" \/ (policy = "OnFailure" /\ ~Failed(end)))

\* The state is set, and the loop goes on or ends, and with it the helper.
Terminate(ranLong) ==
    /\ pc = "terminate"
    /\ status' = Terminated(status, end)
    /\ IF KeepGoing
       THEN /\ backoff' = NextBackOff(Failed(end), ranLong)
            /\ pc' = "backoff"
       ELSE /\ pc' = "end"
            /\ UNCHANGED backoff
    /\ UNCHANGED <<policy, probes, cmd, end, exited, restarts, worker, answer,
                   given>>

MainLoop ==
    \/ BackOffEnds
    \/ CapabilitiesFail
    \/ StartFails
    \/ StartSucceeds
    \/ KillProcessTree
    \/ \E ranLong \in BOOLEAN : Terminate(ranLong)

-------------------------------------------------------------------------------
(* The workers and the command.                                            *)

\* The worker's round during the initial delay.
WorkerDelayed(type) ==
    /\ HasWorker(type)
    /\ worker[type].delay
    /\ worker' = [worker EXCEPT ![type] = Delayed(@, type)]
    /\ UNCHANGED <<policy, probes, pc, cmd, end, exited, restarts, backoff,
                   status, answer, given>>

\* The initial delay ends, at once if there is none.
DelayEnds(type) ==
    /\ HasWorker(type)
    /\ worker[type].delay
    /\ worker' = [worker EXCEPT ![type].delay = FALSE]
    /\ UNCHANGED <<policy, probes, pc, cmd, end, exited, restarts, backoff,
                   status, answer, given>>

LastAnswers(type, s) == IF Len(s) > MaxRun(type) THEN Tail(s) ELSE s

\* A round after the delay. A command that has exited may fail its probes. A
\* probe that errs is thrown away and changes nothing.
WorkerProbes(type, result) ==
    /\ HasWorker(type)
    /\ \/ result = answer[type]
       \/ result = "Failure" /\ cmd # "running"
    /\ ~worker[type].delay
    /\ worker' = [worker EXCEPT ![type] = Probed(@, type, result)]
    /\ given' = [given EXCEPT ![type] = LastAnswers(type, Append(@, result))]
    /\ UNCHANGED <<policy, probes, pc, cmd, end, exited, restarts, backoff,
                   status, answer>>

CommandExits(code) ==
    /\ cmd = "running"
    /\ cmd' = code
    /\ UNCHANGED <<policy, probes, pc, end, exited, restarts, backoff, status,
                   worker, answer, given>>

AnswerChanges(type) ==
    /\ type \in probes
    /\ answer' = [answer EXCEPT ![type] = IF @ = "Success" THEN "Failure" ELSE "Success"]
    /\ UNCHANGED <<policy, probes, pc, cmd, end, exited, restarts, backoff,
                   status, worker, given>>

-------------------------------------------------------------------------------

Init ==
    /\ \E config \in Configs : policy = config[1] /\ probes = config[2]
    /\ pc = "attempt"
    /\ cmd = "none"
    /\ end = "none"
    /\ exited = "none"
    /\ restarts = 0
    /\ backoff = 0
    /\ status = [state |-> "waiting", code |-> "none", ready |-> FALSE,
                 started |-> FALSE, restarts |-> 0]
    /\ worker = [t \in ProbeTypes |-> NoWorker]
    /\ answer = [t \in ProbeTypes |-> "Success"]
    /\ given = NoAnswers

Next ==
    \/ MainLoop
    \/ WatchRunningCmd
    \/ \E t \in ProbeTypes :
          WorkerDelayed(t) \/ DelayEnds(t) \/ AnswerChanges(t)
    \/ \E t \in ProbeTypes, result \in Outcomes : WorkerProbes(t, result)
    \/ \E code \in {"ok", "err"} : CommandExits(code)

Spec == Init /\ [][Next]_vars

\* The loop runs when it can. Its select picks at random among the channels
\* that are ready, so a result that stays ready is taken. Initial delays end,
\* workers keep probing, and a probe does not err for ever.
Fairness ==
    /\ WF_vars(MainLoop)
    /\ WF_vars(CommandDone)
    /\ SF_vars(ProbeFails)
    /\ SF_vars(StartupSucceeds)
    /\ WF_vars(ResultIgnored)
    /\ WF_vars(\E result \in Outcomes : ReadinessChanges(result))
    /\ \A t \in ProbeTypes : /\ WF_vars(DelayEnds(t))
                            /\ WF_vars(\E result \in Outcomes : WorkerProbes(t, result))

FairSpec == Spec /\ Fairness

-------------------------------------------------------------------------------
(* Properties.                                                             *)

Worker(type) ==
    [on : BOOLEAN, delay : BOOLEAN, last : Outcomes, run : 0 .. MaxRun(type),
     results : Seq(Results)]

TypeOK ==
    /\ <<policy, probes>> \in Configs
    /\ pc \in {"attempt", "backoff", "startup", "watch", "cleanup", "terminate", "end"}
    /\ cmd \in {"none", "running", "ok", "err"}
    /\ end \in {"none", "ok", "err", "lost", "probe"}
    /\ exited \in {"none", "ok", "err", "probe"}
    /\ restarts \in 0 .. MaxRestarts
    /\ backoff \in 0 .. MaxBackOff
    /\ status \in [state : {"waiting", "running", "terminated"},
                   code : {"none", "ok", "err"}, ready : BOOLEAN,
                   started : BOOLEAN, restarts : Nat]
    /\ DOMAIN worker = ProbeTypes
    /\ \A t \in ProbeTypes :
          /\ worker[t] \in Worker(t)
          /\ Len(worker[t].results) <= ResultsSize
    /\ answer \in [ProbeTypes -> Outcomes]
    /\ given \in [ProbeTypes -> Seq(Outcomes)]

\* Whoever reads the status file never finds a ready or started unit that is
\* not running: not between two runs, not after a failed start, not when the
\* loop gave up (unit.go:562,628,710).
ReadyOnlyWhileRunning ==
    status.ready \/ status.started => status.state = "running"

\* Whether a command is run again follows from how it ended, which the loop may not
\* have seen: under OnFailure one that failed is run again, also when the reaper took
\* its exit status, and one that succeeded is not, unless the reaper took it. But a
\* failed probe counts as a success: under OnFailure the loop then gives up, although
\* "Container will be restarted if the probe fails" (api/types.go:526-527), and also
\* when the command had failed by itself before (unit.go:676-716).
RerunsFollowPolicy ==
    [][/\ cmd' = "running" /\ cmd # "running" /\ exited # "none" =>
            \/ policy = "Always"
            \/ policy = "OnFailure" /\ (exited = "err" \/ end = "lost")
       /\ pc' = "end" /\ pc # "end" =>
            \/ policy = "Never"
            \/ policy = "OnFailure" /\ (exited = "ok" \/ end = "probe")]_vars

\* After its initial delay a worker reports a result only when the command gave
\* the same answer as often in a row as the threshold of the result asks for: no
\* unit is killed, or taken out of service, too early (worker.go:178-189).
ReportsMeetThreshold ==
    [][\A t \in ProbeTypes :
         /\ HasWorker(t) /\ ~worker[t].delay
         /\ worker'[t].on
         /\ Len(worker'[t].results) > Len(worker[t].results)
         =>
         LET result == worker'[t].results[Len(worker'[t].results)]
             n == Threshold(t, result) IN
         /\ Len(given'[t]) >= n
         /\ \A i \in Len(given'[t]) - n + 1 .. Len(given'[t]) :
               given'[t][i] = result]_vars

\* A unit that keeps failing its readiness probe is not ready for good, although
\* results that find the channel full are dropped (worker.go:193-201).
UnreadyIsNoticed ==
    "readiness" \in probes /\ <>[](answer["readiness"] = "Failure")
        => <>[]~status.ready

\* A unit that keeps failing its liveness probe does not stay up.
UnlivelyIsEnded ==
    "liveness" \in probes /\ <>[](answer["liveness"] = "Failure")
        => []<>(pc # "watch")

===============================================================================
