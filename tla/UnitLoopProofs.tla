---------------------------- MODULE UnitLoopProofs ----------------------------
(***************************************************************************)
(* Proofs about UnitLoop: what a reader of the status file may rely on,    *)
(* when a command is run again, and when a worker reports a result.        *)
(***************************************************************************)
EXTENDS UnitLoop, SequenceTheorems, TLAPS

Policies == {"Always", "OnFailure", "Never"}

Statuses ==
    [state : {"waiting", "running", "terminated"}, code : {"none", "ok", "err"},
     ready : BOOLEAN, started : BOOLEAN, restarts : Nat]

LoopTypes ==
    /\ policy \in Policies
    /\ pc \in {"attempt", "backoff", "startup", "watch", "cleanup", "terminate", "end"}
    /\ cmd \in {"none", "running", "ok", "err"}
    /\ end \in {"none", "ok", "err", "lost", "probe"}
    /\ exited \in {"none", "ok", "err", "probe"}
    /\ restarts \in Nat
    /\ status \in Statuses

\* The policy lets the loop run the command again.
MayRerun ==
    \/ end = "none"
    \/ policy = "Always"
    \/ policy = "OnFailure" /\ Failed(end)

\* Attributes are only set while a command is watched, and they are cleared
\* before the state is; the loop only goes back to its top when it may; and what
\* it saw of the end of a command, when it saw the exit, is how the command ended.
LoopInv ==
    /\ pc \in {"startup", "watch", "cleanup"} => status.state = "running"
    /\ pc \in {"attempt", "backoff", "terminate", "end"} => ~status.ready /\ ~status.started
    /\ pc \in {"attempt", "backoff"} => MayRerun
    /\ pc \in {"startup", "watch"} => cmd # "none"
    /\ pc \in {"cleanup", "terminate"} => end # "none"
    /\ end = "none" <=> exited = "none"
    /\ end \in {"ok", "err"} => exited = end

LEMMA StatusChanges ==
    ASSUME NEW s \in Statuses, NEW ready \in BOOLEAN, NEW started \in BOOLEAN
    PROVE  /\ WithAttrs(s, ready, started) \in Statuses
           /\ WithAttrs(s, ready, started).ready = ready
           /\ WithAttrs(s, ready, started).started = started
           /\ WithAttrs(s, ready, started).state = s.state
  BY DEF Statuses, WithAttrs

LEMMA StateChanges ==
    ASSUME NEW s \in Statuses, NEW n \in Nat, NEW state \in {"waiting", "running"}
    PROVE  LET t == [s EXCEPT !.state = state, !.restarts = n]
           IN  /\ t \in Statuses /\ t.state = state
               /\ t.ready = s.ready /\ t.started = s.started
  BY DEF Statuses

LEMMA StatusEnds ==
    ASSUME NEW s \in Statuses, NEW why
    PROVE  /\ Terminated(s, why) \in Statuses
           /\ Terminated(s, why).ready = s.ready /\ Terminated(s, why).started = s.started
  BY DEF Statuses, Terminated

LEMMA LoopInvStep ==
    ASSUME LoopTypes, LoopInv, [Next]_vars
    PROVE  LoopTypes' /\ LoopInv'
<1> USE DEF LoopTypes, LoopInv, MayRerun
<1>1. CASE UNCHANGED vars
  BY <1>1 DEF vars
<1>2. CASE MainLoop
  <2>1. CASE BackOffEnds
    BY <2>1 DEF BackOffEnds
  <2>2. CASE CapabilitiesFail
    BY <2>2 DEF CapabilitiesFail, Statuses
  <2>3. CASE StartFails
    <3> DEFINE s == WithAttrs(status, FALSE, FALSE)
    <3>1. s \in Statuses /\ ~s.ready /\ ~s.started
      BY StatusChanges
    <3>2. status' = [s EXCEPT !.state = "waiting", !.restarts = restarts]
      BY <2>3 DEF StartFails
    <3> HIDE DEF s
    <3> DEFINE u == [s EXCEPT !.state = "waiting", !.restarts = restarts]
    <3>a. restarts \in Nat
      OBVIOUS
    <3>b. u \in Statuses /\ u.ready = s.ready /\ u.started = s.started
      BY ONLY <3>1, <3>a, StateChanges
    <3>c. status' = u
      BY <3>2
    <3> HIDE DEF u
    <3>3. status' \in Statuses /\ ~status'.ready /\ ~status'.started
      BY <3>1, <3>b, <3>c
    <3>4. /\ pc = "attempt" /\ pc' = "backoff" /\ restarts' \in Nat
          /\ UNCHANGED <<policy, cmd, end, exited>>
      BY <2>3 DEF StartFails
    <3>5. QED BY <3>3, <3>4 DEF Failed
  <2>4. CASE StartSucceeds
    <3> DEFINE s == [WithAttrs(status, FALSE, FALSE)
                       EXCEPT !.state = "running", !.restarts = restarts]
    <3>1. WithAttrs(status, FALSE, FALSE) \in Statuses
      BY StatusChanges
    <3>2. s \in Statuses /\ s.state = "running"
      BY <3>1, StateChanges
    <3>3. Watched(s) \in Statuses /\ Watched(s).state = "running"
      BY <3>2, StatusChanges DEF Watched
    <3>4. status' \in Statuses /\ status'.state = "running" /\ pc' \in {"startup", "watch"}
      BY <2>4, <3>2, <3>3 DEF StartSucceeds
    <3>5. QED BY <2>4, <3>4 DEF StartSucceeds
  <2>5. CASE KillProcessTree
    BY <2>5, StatusChanges DEF KillProcessTree
  <2>6. ASSUME NEW ranLong \in BOOLEAN, Terminate(ranLong)
        PROVE  LoopTypes' /\ LoopInv'
    <3>1. status' \in Statuses /\ ~status'.ready /\ ~status'.started
      BY <2>6, StatusEnds DEF Terminate
    <3>2. KeepGoing => policy = "Always" \/ (policy = "OnFailure" /\ Failed(end))
      BY DEF KeepGoing, Policies
    <3>3. QED BY <2>6, <3>1, <3>2 DEF Terminate, Failed
  <2>7. QED BY <1>2, <2>1, <2>2, <2>3, <2>4, <2>5, <2>6 DEF MainLoop
<1>3. CASE WatchRunningCmd
  <2>1. CASE CommandDone \/ ProbeFails
    BY <2>1 DEF CommandDone, ProbeFails, Return
  <2>2. CASE StartupSucceeds
    BY <2>2, StatusChanges DEF StartupSucceeds, Watched
  <2>3. CASE ResultIgnored
    BY <2>3 DEF ResultIgnored
  <2>4. ASSUME NEW result \in Outcomes, ReadinessChanges(result)
        PROVE  LoopTypes' /\ LoopInv'
    BY <2>4 DEF ReadinessChanges, Statuses
  <2>5. QED BY <1>3, <2>1, <2>2, <2>3, <2>4 DEF WatchRunningCmd
<1>4. CASE UNCHANGED <<policy, pc, cmd, end, exited, restarts, status>>
  BY <1>4
<1>5. ASSUME NEW code \in {"ok", "err"}, CommandExits(code)
      PROVE  LoopTypes' /\ LoopInv'
  BY <1>5 DEF CommandExits
<1>6. QED
  BY <1>1, <1>2, <1>3, <1>4, <1>5
     DEF Next, WorkerDelayed, DelayEnds, AnswerChanges, WorkerProbes

LEMMA LoopAlways == Spec => [](LoopTypes /\ LoopInv)
<1>1. Init => LoopTypes /\ LoopInv
  BY LoopAssumption
     DEF Init, LoopTypes, LoopInv, MayRerun, Policies, Statuses
<1>2. (LoopTypes /\ LoopInv) /\ [Next]_vars => (LoopTypes /\ LoopInv)'
  BY LoopInvStep
<1>3. QED BY <1>1, <1>2, PTL DEF Spec

\* For all units, thresholds, back-offs and any number of runs: whoever reads the
\* status file never finds a ready or started unit that is not running
\* (unit.go:562,628,710).
THEOREM AttributesMeanRunning == Spec => []ReadyOnlyWhileRunning
<1>1. LoopTypes /\ LoopInv => ReadyOnlyWhileRunning
  BY DEF LoopTypes, LoopInv, ReadyOnlyWhileRunning
<1>2. QED BY <1>1, LoopAlways, PTL

\* And under every policy, how a command ended decides whether it is run again: one
\* that failed is, under OnFailure, and one that succeeded is not, unless a probe
\* ended it or its exit status was lost (unit.go:676-716).
THEOREM PolicyDecides == Spec => RerunsFollowPolicy
<1> DEFINE Rerun == cmd' = "running" /\ cmd # "running" /\ exited # "none" =>
                      \/ policy = "Always"
                      \/ policy = "OnFailure" /\ (exited = "err" \/ end = "lost")
           GiveUp == pc' = "end" /\ pc # "end" =>
                      \/ policy = "Never"
                      \/ policy = "OnFailure" /\ (exited = "ok" \/ end = "probe")
<1>1. LoopTypes /\ LoopInv /\ [Next]_vars => [Rerun]_vars
  <2>1. SUFFICES ASSUME LoopTypes, LoopInv, Next, cmd' = "running", cmd # "running",
                        exited # "none"
                 PROVE  \/ policy = "Always"
                        \/ policy = "OnFailure" /\ (exited = "err" \/ end = "lost")
    OBVIOUS
  <2>2. StartSucceeds
    BY <2>1 DEF Next, MainLoop, WatchRunningCmd, BackOffEnds, CapabilitiesFail, StartFails,
                KillProcessTree, Terminate, CommandDone, ProbeFails, Return, StartupSucceeds,
                ResultIgnored, ReadinessChanges, WorkerDelayed, DelayEnds, AnswerChanges,
                WorkerProbes, CommandExits
  <2>3. MayRerun /\ end # "none"
    BY <2>1, <2>2 DEF StartSucceeds, LoopInv
  <2>4. QED BY <2>1, <2>3 DEF MayRerun, Failed, LoopInv
<1>2. LoopTypes /\ LoopInv /\ [Next]_vars => [GiveUp]_vars
  <2>1. SUFFICES ASSUME LoopTypes, LoopInv, Next, pc' = "end", pc # "end"
                 PROVE  \/ policy = "Never"
                        \/ policy = "OnFailure" /\ (exited = "ok" \/ end = "probe")
    OBVIOUS
  <2>2. PICK ranLong \in BOOLEAN : Terminate(ranLong)
    BY <2>1 DEF Next, MainLoop, WatchRunningCmd, BackOffEnds, CapabilitiesFail, StartFails,
                StartSucceeds, KillProcessTree, CommandDone, ProbeFails, Return,
                StartupSucceeds, ResultIgnored, ReadinessChanges, WorkerDelayed, DelayEnds,
                AnswerChanges, WorkerProbes, CommandExits
  <2>3. ~KeepGoing /\ end # "none"
    BY <2>1, <2>2 DEF Terminate, LoopInv
  <2>4. QED BY <2>1, <2>3 DEF KeepGoing, Failed, LoopTypes, LoopInv
<1>3. QED BY <1>1, <1>2, LoopAlways, PTL DEF Spec, RerunsFollowPolicy

-------------------------------------------------------------------------------
(* The steps of a worker.                                                  *)

LEMMA ThresholdTypes ==
    ASSUME NEW t \in ProbeTypes
    PROVE  /\ MaxRun(t) \in Nat \ {0}
           /\ \A result : /\ Threshold(t, result) \in Nat \ {0}
                          /\ Threshold(t, result) <= MaxRun(t)
           /\ ResultsSize \in Nat \ {0}
BY ThresholdsAssumption DEF MaxRun, Threshold

\* The types of a worker, the bound of its channel included.
Bounded(t) == {w \in Worker(t) : Len(w.results) <= ResultsSize}

LEMMA NewWorkerType ==
    ASSUME NEW t \in ProbeTypes
    PROVE  NewWorker \in Bounded(t) /\ NoWorker \in Bounded(t)
<1>1. <<>> \in Seq(Results) /\ Len(<<>>) = 0
  BY EmptySeq
<1>2. 0 \in 0 .. MaxRun(t) /\ 0 <= ResultsSize /\ "Success" \in Outcomes
  BY ThresholdTypes DEF Outcomes
<1>3. NewWorker \in Worker(t) /\ NewWorker.results = <<>>
  BY <1>1, <1>2 DEF NewWorker, Worker
<1>4. NoWorker \in Worker(t) /\ NoWorker.results = <<>>
  BY <1>3 DEF NoWorker, Worker
<1>5. QED BY <1>1, <1>2, <1>3, <1>4 DEF Bounded

\* Reporting a result changes the channel only, and respects its capacity.
LEMMA EmitType ==
    ASSUME NEW t \in ProbeTypes, NEW w \in Bounded(t), NEW r \in Results
    PROVE  /\ Emit(w, r) \in Bounded(t)
           /\ Emit(w, r).on = w.on /\ Emit(w, r).delay = w.delay
           /\ Emit(w, r).last = w.last /\ Emit(w, r).run = w.run
           /\ Len(Emit(w, r).results) > Len(w.results) =>
                 Emit(w, r).results[Len(Emit(w, r).results)] = r
<1>1. w.results \in Seq(Results) /\ w \in Worker(t)
  BY DEF Bounded, Worker
<1>2. /\ Append(w.results, r) \in Seq(Results)
      /\ Len(Append(w.results, r)) = Len(w.results) + 1
      /\ Append(w.results, r)[Len(w.results) + 1] = r
      /\ Len(w.results) \in Nat
  BY <1>1, AppendProperties, LenProperties
<1>3. CASE Len(w.results) < ResultsSize
  <2>1. Emit(w, r) = [w EXCEPT !.results = Append(w.results, r)]
    BY <1>3 DEF Emit
  <2>2. [w EXCEPT !.results = Append(w.results, r)] \in Worker(t)
    BY <1>1, <1>2 DEF Worker
  <2>3. Emit(w, r).results = Append(w.results, r)
    BY <1>1, <2>1 DEF Worker
  <2>4. QED BY <1>1, <1>2, <1>3, <2>1, <2>2, <2>3, ThresholdTypes DEF Bounded, Worker
<1>4. CASE ~(Len(w.results) < ResultsSize)
  BY <1>2, <1>4 DEF Emit
<1>5. QED BY <1>3, <1>4

LEMMA CountedType ==
    ASSUME NEW t \in ProbeTypes, NEW w \in Bounded(t), NEW r \in Outcomes
    PROVE  /\ Counted(w, t, r) \in Bounded(t)
           /\ Counted(w, t, r).on = w.on /\ Counted(w, t, r).delay = w.delay
           /\ Counted(w, t, r).last = r
           /\ Counted(w, t, r).results = w.results
           /\ Counted(w, t, r).run =
                 IF w.last # r THEN 1
                 ELSE IF w.run < MaxRun(t) THEN w.run + 1 ELSE w.run
<1> DEFINE n == IF w.last # r THEN 1
                ELSE IF w.run < MaxRun(t) THEN w.run + 1 ELSE w.run
<1>1. w \in Worker(t) /\ Len(w.results) <= ResultsSize
  BY DEF Bounded
<1>2. n \in 0 .. MaxRun(t)
  BY <1>1, ThresholdTypes DEF Worker
<1>3. Counted(w, t, r) = [w EXCEPT !.last = r, !.run = n]
  BY DEF Counted
<1> HIDE DEF n
<1>4. [w EXCEPT !.last = r, !.run = n] \in Worker(t)
  BY <1>1, <1>2 DEF Worker
<1>5. QED BY <1>1, <1>3, <1>4 DEF Worker, Bounded, n

LEMMA ProbedType ==
    ASSUME NEW t \in ProbeTypes, NEW w \in Bounded(t), NEW r \in Outcomes
    PROVE  /\ Probed(w, t, r) \in Bounded(t)
           /\ Probed(w, t, r).on = w.on /\ Probed(w, t, r).delay = w.delay
           /\ Probed(w, t, r).last = r
           /\ Probed(w, t, r).run = Counted(w, t, r).run
           /\ Len(Probed(w, t, r).results) > Len(w.results) =>
                 /\ Probed(w, t, r).results[Len(Probed(w, t, r).results)] = r
                 /\ Probed(w, t, r).run >= Threshold(t, r)
<1> DEFINE c == Counted(w, t, r)
<1>1. c \in Bounded(t) /\ c.on = w.on /\ c.delay = w.delay /\ c.last = r
      /\ c.results = w.results
  BY CountedType
<1>2. r \in Results
  BY DEF Outcomes, Results
<1>3. Len(w.results) \in Nat
  BY LenProperties DEF Bounded, Worker
<1>4. Probed(w, t, r) = IF c.run >= Threshold(t, r) THEN Emit(c, r) ELSE c
  BY DEF Probed
<1> HIDE DEF c
<1>5. CASE c.run >= Threshold(t, r)
  BY <1>1, <1>2, <1>4, <1>5, EmitType DEF c
<1>6. CASE ~(c.run >= Threshold(t, r))
  BY <1>1, <1>3, <1>4, <1>6 DEF c
<1>7. QED BY <1>5, <1>6

LEMMA DelayedType ==
    ASSUME NEW t \in ProbeTypes, NEW w \in Bounded(t)
    PROVE  /\ Delayed(w, t) \in Bounded(t)
           /\ Delayed(w, t).last = w.last /\ Delayed(w, t).run = w.run
<1>1. InitialValue(t) \in Results
  BY DEF InitialValue, Results, ProbeTypes
<1>2. QED BY <1>1, EmitType DEF Delayed

LEMMA TakenType ==
    ASSUME NEW t \in ProbeTypes, NEW w \in Bounded(t), w.results # <<>>
    PROVE  LET v == [w EXCEPT !.results = Tail(@)] IN
           /\ v \in Bounded(t) /\ v.last = w.last /\ v.run = w.run
           /\ Len(v.results) < Len(w.results)
<1>1. w.results \in Seq(Results) /\ w \in Worker(t)
      /\ Len(w.results) <= ResultsSize /\ Len(w.results) \in Nat
  BY LenProperties DEF Bounded, Worker
<1>2. Tail(w.results) \in Seq(Results) /\ Len(Tail(w.results)) = Len(w.results) - 1
  BY <1>1, HeadTailProperties
<1>3. [w EXCEPT !.results = Tail(w.results)] \in Worker(t)
  BY <1>1, <1>2 DEF Worker
<1>4. QED BY <1>1, <1>2, <1>3, ThresholdTypes DEF Worker, Bounded

\* The last answers, with one more.
LEMMA AnswersType ==
    ASSUME NEW t \in ProbeTypes, NEW s \in Seq(Outcomes), NEW r \in Outcomes,
           Len(s) <= MaxRun(t)
    PROVE  LET a == LastAnswers(t, Append(s, r))
               n == Len(a) IN
           /\ a \in Seq(Outcomes)
           /\ n = IF Len(s) < MaxRun(t) THEN Len(s) + 1 ELSE MaxRun(t)
           /\ a[n] = r
           /\ \A i \in 1 .. n - 1 : a[i] = s[i + Len(s) + 1 - n]
<1>1. MaxRun(t) \in Nat /\ MaxRun(t) > 0 /\ Len(s) \in Nat
  BY ThresholdTypes, LenProperties
<1> DEFINE b == Append(s, r)
<1>2. /\ b \in Seq(Outcomes) /\ Len(b) = Len(s) + 1 /\ b[Len(s) + 1] = r
      /\ \A i \in 1 .. Len(s) : b[i] = s[i]
  BY AppendProperties, LenProperties
<1> HIDE DEF b
<1>3. CASE Len(s) < MaxRun(t)
  <2>1. LastAnswers(t, b) = b
    BY <1>1, <1>2, <1>3 DEF LastAnswers
  <2>2. \A i \in 1 .. Len(b) - 1 : b[i] = s[i + Len(s) + 1 - Len(b)]
    BY <1>1, <1>2
  <2>3. QED BY <1>1, <1>2, <1>3, <2>1, <2>2 DEF b
<1>4. CASE ~(Len(s) < MaxRun(t))
  <2>1. LastAnswers(t, b) = Tail(b) /\ Len(s) = MaxRun(t)
    BY <1>1, <1>2, <1>4 DEF LastAnswers
  <2>2. b # <<>>
    BY <1>1, <1>2, EmptySeq
  <2>3. /\ Tail(b) \in Seq(Outcomes) /\ Len(Tail(b)) = Len(b) - 1
        /\ \A i \in 1 .. Len(Tail(b)) : Tail(b)[i] = b[i + 1]
    BY <1>2, <2>2, HeadTailProperties, LenProperties
  <2>4. Len(Tail(b)) = MaxRun(t)
    BY <1>1, <1>2, <2>1, <2>3
  <2>5. Tail(b)[MaxRun(t)] = r
    BY <1>1, <1>2, <2>1, <2>3, <2>4
  <2>6. \A i \in 1 .. MaxRun(t) - 1 : Tail(b)[i] = s[i + Len(s) + 1 - MaxRun(t)]
    <3>1. TAKE i \in 1 .. MaxRun(t) - 1
    <3>2. i + Len(s) + 1 - MaxRun(t) = i + 1 /\ i + 1 \in 1 .. Len(s)
      BY <1>1, <2>1
    <3>3. QED BY <1>1, <1>2, <2>3, <2>4, <3>2
  <2>7. QED BY <1>4, <2>1, <2>3, <2>4, <2>5, <2>6 DEF b
<1>5. QED BY <1>3, <1>4

-------------------------------------------------------------------------------
(* The types, and what the workers count.                                  *)

\* The part of TypeOK that is about the main goroutine.
MainTypes ==
    /\ <<policy, probes>> \in Configs
    /\ pc \in {"attempt", "backoff", "startup", "watch", "cleanup", "terminate", "end"}
    /\ cmd \in {"none", "running", "ok", "err"}
    /\ end \in {"none", "ok", "err", "lost", "probe"}
    /\ exited \in {"none", "ok", "err", "probe"}
    /\ restarts \in 0 .. MaxRestarts
    /\ backoff \in 0 .. MaxBackOff
    /\ status \in Statuses

\* The part that is about the workers.
WorkerTypes ==
    /\ DOMAIN worker = ProbeTypes
    /\ \A t \in ProbeTypes : worker[t] \in Bounded(t)
    /\ answer \in [ProbeTypes -> Outcomes]
    /\ given \in [ProbeTypes -> Seq(Outcomes)]

\* The counter of worker w: so many of the last answers g were its last result.
CountsRun(t, w, g) ==
    /\ w.run <= Len(g) /\ Len(g) <= MaxRun(t)
    /\ \A i \in Len(g) - w.run + 1 .. Len(g) : g[i] = w.last

Runs == \A t \in ProbeTypes : CountsRun(t, worker[t], given[t])

LEMMA TypesAreTypeOK == TypeOK <=> MainTypes /\ WorkerTypes
BY DEF TypeOK, MainTypes, WorkerTypes, Bounded, Statuses

LEMMA NewWorkersCount ==
    ASSUME NEW t \in ProbeTypes
    PROVE  CountsRun(t, NewWorker, <<>>) /\ CountsRun(t, NoWorker, <<>>)
<1>1. NewWorker.run = 0 /\ NoWorker.run = 0
  BY DEF NewWorker, NoWorker
<1>2. Len(<<>>) = 0 /\ MaxRun(t) \in Nat
  BY EmptySeq, ThresholdTypes
<1>3. QED BY <1>1, <1>2 DEF CountsRun

\* One more answer, counted.
LEMMA ProbedCounts ==
    ASSUME NEW t \in ProbeTypes, NEW w \in Bounded(t), NEW g \in Seq(Outcomes),
           NEW r \in Outcomes, CountsRun(t, w, g)
    PROVE  LET v == Probed(w, t, r)
               h == LastAnswers(t, Append(g, r)) IN
           h \in Seq(Outcomes) /\ CountsRun(t, v, h)
<1> DEFINE v == Probed(w, t, r)
           h == LastAnswers(t, Append(g, r))
<1>1. /\ v.last = r
      /\ v.run = IF w.last # r THEN 1
                 ELSE IF w.run < MaxRun(t) THEN w.run + 1 ELSE w.run
  BY ProbedType, CountedType
<1>2. w.run \in Nat /\ w.run <= Len(g) /\ Len(g) <= MaxRun(t) /\ Len(g) \in Nat
      /\ MaxRun(t) \in Nat \ {0}
  BY ThresholdTypes, LenProperties DEF CountsRun, Bounded, Worker
<1>3. /\ h \in Seq(Outcomes)
      /\ Len(h) = IF Len(g) < MaxRun(t) THEN Len(g) + 1 ELSE MaxRun(t)
      /\ h[Len(h)] = r
      /\ \A i \in 1 .. Len(h) - 1 : h[i] = g[i + Len(g) + 1 - Len(h)]
  BY <1>2, AnswersType
<1>4. \A i \in Len(g) - w.run + 1 .. Len(g) : g[i] = w.last
  BY DEF CountsRun
<1> HIDE DEF v, h
<1>5. v.run <= Len(h) /\ Len(h) <= MaxRun(t)
  BY <1>1, <1>2, <1>3
<1>6. ASSUME NEW i \in Len(h) - v.run + 1 .. Len(h)
      PROVE  h[i] = r
  <2>1. CASE i = Len(h)
    BY <2>1, <1>3
  <2>2. CASE i # Len(h)
    <3>1. i \in Nat /\ i < Len(h) /\ i >= Len(h) - v.run + 1 /\ v.run # 1
      BY <2>2, <1>1, <1>2, <1>3, <1>5
    <3>2. w.last = r /\ v.run <= w.run + 1
      BY <1>1, <1>2, <3>1
    <3>3. i + Len(g) + 1 - Len(h) \in Len(g) - w.run + 1 .. Len(g)
      <4>1. v.run \in Nat
        BY <1>1, <1>2
      <4>2. \/ Len(h) = Len(g) + 1
            \/ Len(h) = Len(g)
        BY <1>2, <1>3
      <4>3. QED BY <1>2, <3>1, <3>2, <4>1, <4>2
    <3>4. i \in 1 .. Len(h) - 1
      BY <1>1, <1>2, <1>3, <1>5, <3>1
    <3>5. QED BY <1>3, <1>4, <3>2, <3>3, <3>4
  <2>3. QED BY <2>1, <2>2
<1>7. QED BY <1>1, <1>3, <1>5, <1>6 DEF CountsRun, v, h

\* A step that only touches the channel or the delay of a worker counts nothing.
LEMMA SameCount ==
    ASSUME NEW t \in ProbeTypes, NEW w, NEW v, NEW g,
           v.last = w.last, v.run = w.run, CountsRun(t, w, g)
    PROVE  CountsRun(t, v, g)
BY DEF CountsRun

LEMMA NextBackOffType ==
    ASSUME backoff \in 0 .. MaxBackOff, NEW failed, NEW ranLong
    PROVE  NextBackOff(failed, ranLong) \in 0 .. MaxBackOff
BY LoopAssumption DEF NextBackOff

LEMMA MainTypesStep ==
    ASSUME LoopTypes, LoopInv, MainTypes, [Next]_vars
    PROVE  MainTypes'
<1>1. pc' \in {"attempt", "backoff", "startup", "watch", "cleanup", "terminate", "end"}
      /\ status' \in Statuses
      /\ cmd' \in {"none", "running", "ok", "err"}
      /\ end' \in {"none", "ok", "err", "lost", "probe"}
      /\ exited' \in {"none", "ok", "err", "probe"}
  BY LoopInvStep DEF LoopTypes
<1> DEFINE Rest == /\ <<policy', probes'>> = <<policy, probes>>
                   /\ restarts' \in 0 .. MaxRestarts
                   /\ backoff' \in 0 .. MaxBackOff
<1>2. Rest
  <2> USE LoopAssumption DEF MainTypes
  <2>1. CASE UNCHANGED <<policy, probes, restarts, backoff>>
    BY <2>1
  <2>2. CASE CapabilitiesFail \/ StartFails
    <3>1. backoff' \in 0 .. MaxBackOff
      BY <2>2 DEF CapabilitiesFail, StartFails, NextBackOff
    <3>2. /\ restarts < MaxRestarts /\ restarts' = restarts + 1
          /\ UNCHANGED <<policy, probes>>
      BY <2>2 DEF CapabilitiesFail, StartFails
    <3>3. restarts' \in 0 .. MaxRestarts
      BY <3>2
    <3>4. QED BY <3>1, <3>2, <3>3
  <2>3. CASE StartSucceeds
    BY <2>3 DEF StartSucceeds
  <2>4. ASSUME NEW ranLong \in BOOLEAN, Terminate(ranLong)
        PROVE  Rest
    <3>1. backoff' \in 0 .. MaxBackOff
      BY <2>4, NextBackOffType DEF Terminate
    <3>2. QED BY <2>4, <3>1 DEF Terminate
  <2>5. CASE KillProcessTree
    BY <2>5 DEF KillProcessTree
  <2>6. CASE CommandDone \/ ProbeFails
    BY <2>6 DEF CommandDone, ProbeFails, Return
  <2>7. ASSUME NEW code \in {"ok", "err"}, CommandExits(code)
        PROVE  Rest
    BY <2>7 DEF CommandExits
  <2>8. CASE UNCHANGED vars
    BY <2>8 DEF vars
  <2>9. QED
    BY <2>1, <2>2, <2>3, <2>4, <2>5, <2>6, <2>7, <2>8
       DEF Next, MainLoop, WatchRunningCmd, BackOffEnds, StartupSucceeds, ResultIgnored,
           ReadinessChanges, WorkerDelayed, DelayEnds, AnswerChanges, WorkerProbes
<1>3. QED BY <1>1, <1>2 DEF MainTypes

LEMMA StartedWorkers ==
    ASSUME NEW types
    PROVE  /\ DOMAIN Workers(types) = ProbeTypes
           /\ \A t \in ProbeTypes : /\ Workers(types)[t] \in Bounded(t)
                                   /\ CountsRun(t, Workers(types)[t], <<>>)
           /\ NoAnswers \in [ProbeTypes -> Seq(Outcomes)]
           /\ \A t \in ProbeTypes : NoAnswers[t] = <<>>
<1>1. <<>> \in Seq(Outcomes)
  BY EmptySeq
<1>2. ASSUME NEW t \in ProbeTypes
      PROVE  /\ Workers(types)[t] \in {NewWorker, NoWorker}
             /\ NoAnswers[t] = <<>>
  BY DEF Workers, NoAnswers
<1>3. ASSUME NEW t \in ProbeTypes
      PROVE  /\ Workers(types)[t] \in Bounded(t)
             /\ CountsRun(t, Workers(types)[t], <<>>)
  BY <1>2, NewWorkerType, NewWorkersCount
<1>4. QED BY <1>1, <1>2, <1>3 DEF Workers, NoAnswers

LEMMA WorkersStep ==
    ASSUME WorkerTypes, Runs, [Next]_vars
    PROVE  WorkerTypes' /\ Runs'
<1> USE DEF WorkerTypes, Runs
<1>1. ASSUME NEW types, worker' = Workers(types), given' = NoAnswers, UNCHANGED answer
      PROVE  WorkerTypes' /\ Runs'
  BY <1>1, StartedWorkers
<1>2. CASE CommandDone \/ ProbeFails
  <2>1. worker' = Workers({}) /\ given' = NoAnswers /\ UNCHANGED answer
    BY <1>2 DEF CommandDone, ProbeFails, Return, Workers
  <2>2. QED BY <1>1, <2>1
<1>3. CASE StartSucceeds \/ StartupSucceeds
  <2>1. /\ \/ worker' = Workers({"startup"})
           \/ worker' = Workers({"liveness", "readiness"})
        /\ given' = NoAnswers /\ UNCHANGED answer
    BY <1>3 DEF StartSucceeds, StartupSucceeds
  <2>2. QED BY <1>1, <2>1
<1>4. ASSUME NEW t \in ProbeTypes, NEW v, worker' = [worker EXCEPT ![t] = v],
             v \in Bounded(t), v.last = worker[t].last, v.run = worker[t].run,
             UNCHANGED <<answer, given>>
      PROVE  WorkerTypes' /\ Runs'
  <2>1. WorkerTypes'
    BY <1>4
  <2>2. ASSUME NEW u \in ProbeTypes
        PROVE  CountsRun(u, worker'[u], given'[u])
    <3>1. CASE u = t
      BY <1>4, <3>1, SameCount
    <3>2. CASE u # t
      BY <1>4, <3>2
    <3>3. QED BY <3>1, <3>2
  <2>3. QED BY <2>1, <2>2
<1>5. CASE ResultIgnored \/ \E result \in Outcomes : ReadinessChanges(result)
  <2>1. PICK t \in ProbeTypes : /\ worker' = Taken(t)
                                /\ worker[t].results # <<>>
                                /\ UNCHANGED <<answer, given>>
    BY <1>5 DEF ResultIgnored, ReadinessChanges, HasResult, ProbeTypes
  <2> DEFINE v == [worker[t] EXCEPT !.results = Tail(@)]
  <2>2. worker' = [worker EXCEPT ![t] = v]
    BY <2>1 DEF Taken
  <2>3. v \in Bounded(t) /\ v.last = worker[t].last /\ v.run = worker[t].run
    BY <2>1, TakenType
  <2> HIDE DEF v
  <2>4. QED BY <1>4, <2>1, <2>2, <2>3
<1>6. ASSUME NEW t \in ProbeTypes, WorkerDelayed(t) \/ DelayEnds(t)
      PROVE  WorkerTypes' /\ Runs'
  <2>1. CASE WorkerDelayed(t)
    BY <1>4, <2>1, DelayedType DEF WorkerDelayed
  <2>2. CASE DelayEnds(t)
    <3> DEFINE v == [worker[t] EXCEPT !.delay = FALSE]
    <3>1. worker' = [worker EXCEPT ![t] = v] /\ UNCHANGED <<answer, given>>
      BY <2>2 DEF DelayEnds
    <3>2. v \in Bounded(t) /\ v.last = worker[t].last /\ v.run = worker[t].run
      BY DEF Bounded, Worker
    <3> HIDE DEF v
    <3>3. QED BY <1>4, <3>1, <3>2
  <2>3. QED BY <1>6, <2>1, <2>2
<1>7. ASSUME NEW t \in ProbeTypes, NEW result \in Outcomes, WorkerProbes(t, result)
      PROVE  WorkerTypes' /\ Runs'
  <2> DEFINE v == Probed(worker[t], t, result)
             h == LastAnswers(t, Append(given[t], result))
  <2>1. /\ worker' = [worker EXCEPT ![t] = v]
        /\ given' = [given EXCEPT ![t] = h]
        /\ UNCHANGED answer
    BY <1>7 DEF WorkerProbes
  <2>2. /\ worker[t] \in Bounded(t) /\ given[t] \in Seq(Outcomes)
        /\ CountsRun(t, worker[t], given[t])
    OBVIOUS
  <2>3. v \in Bounded(t) /\ h \in Seq(Outcomes) /\ CountsRun(t, v, h)
    BY <2>2, ProbedType, ProbedCounts
  <2> HIDE DEF v, h
  <2>4. QED BY <2>1, <2>3
<1>8. ASSUME NEW t \in ProbeTypes, AnswerChanges(t)
      PROVE  WorkerTypes' /\ Runs'
  BY <1>8 DEF AnswerChanges, Outcomes
<1>9. CASE UNCHANGED <<worker, answer, given>>
  BY <1>9
<1>10. QED
  BY <1>2, <1>3, <1>5, <1>6, <1>7, <1>8, <1>9
     DEF Next, MainLoop, WatchRunningCmd, BackOffEnds, CapabilitiesFail, StartFails,
         KillProcessTree, Terminate, CommandExits, vars

CountInv == LoopTypes /\ LoopInv /\ MainTypes /\ WorkerTypes /\ Runs

LEMMA CountAlways == Spec => []CountInv
<1>1. Init => CountInv
  <2>1. ASSUME Init PROVE LoopTypes /\ LoopInv /\ MainTypes
    BY <2>1, LoopAssumption
       DEF Init, LoopTypes, LoopInv, MayRerun, Policies, MainTypes, Statuses
  <2>2. ASSUME Init PROVE WorkerTypes /\ Runs
    <3>1. worker = Workers({}) /\ given = NoAnswers
      BY <2>2 DEF Init, Workers
    <3>2. answer \in [ProbeTypes -> Outcomes]
      BY <2>2 DEF Init, Outcomes
    <3>3. QED BY <3>1, <3>2, StartedWorkers DEF WorkerTypes, Runs
  <2>3. QED BY <2>1, <2>2 DEF CountInv
<1>2. CountInv /\ [Next]_vars => CountInv'
  BY LoopInvStep, MainTypesStep, WorkersStep DEF CountInv
<1>3. QED BY <1>1, <1>2, PTL DEF Spec

\* For all units, thresholds and bounds: every variable stays within its type, the
\* channel of a worker within its capacity and its counter within the threshold
\* (worker.go:178-201).
THEOREM LoopTypeCorrect == Spec => []TypeOK
<1>1. CountInv => TypeOK
  BY TypesAreTypeOK DEF CountInv
<1>2. QED BY <1>1, CountAlways, PTL

\* Worker t reports a result in this step.
Reports(t) ==
    /\ HasWorker(t) /\ ~worker[t].delay
    /\ worker'[t].on
    /\ Len(worker'[t].results) > Len(worker[t].results)

\* Only a probe of its own makes a worker report.
LEMMA ReportsAreProbes ==
    ASSUME CountInv, Next, NEW t \in ProbeTypes, Reports(t)
    PROVE  \E result \in Outcomes : WorkerProbes(t, result)
<1> USE DEF CountInv, WorkerTypes, Reports
<1>1. worker[t] \in Bounded(t) /\ Len(worker[t].results) \in Nat
  BY LenProperties DEF Bounded, Worker
<1>2. ASSUME NEW types, worker' = Workers(types)
      PROVE  FALSE
  <2>1. worker'[t] = NewWorker \/ worker'[t] = NoWorker
    BY <1>2 DEF Workers
  <2>2. worker'[t].results = <<>>
    BY <2>1 DEF NewWorker, NoWorker
  <2>3. QED BY <1>1, <2>2, EmptySeq
<1>3. ASSUME UNCHANGED worker
      PROVE  FALSE
  BY <1>1, <1>3
<1>4. CASE CommandDone \/ ProbeFails
  <2>1. worker' = Workers({})
    BY <1>4 DEF CommandDone, ProbeFails, Return, Workers
  <2>2. QED BY <1>2, <2>1
<1>5. CASE StartSucceeds \/ StartupSucceeds
  BY <1>2, <1>5 DEF StartSucceeds, StartupSucceeds
<1>6. CASE ResultIgnored \/ \E result \in Outcomes : ReadinessChanges(result)
  <2>1. PICK u \in ProbeTypes : worker' = Taken(u) /\ worker[u].results # <<>>
    BY <1>6 DEF ResultIgnored, ReadinessChanges, HasResult, ProbeTypes
  <2>2. u = t
    BY <2>1, <1>1 DEF Taken
  <2>3. worker'[t] = [worker[t] EXCEPT !.results = Tail(@)]
    BY <2>1, <2>2 DEF Taken
  <2>4. LET v == [worker[t] EXCEPT !.results = Tail(@)]
        IN  Len(v.results) < Len(worker[t].results) /\ v \in Bounded(t)
    BY <1>1, <2>1, <2>2, TakenType
  <2>5. /\ Len(worker'[t].results) < Len(worker[t].results)
        /\ Len(worker'[t].results) \in Nat
    BY <2>3, <2>4, LenProperties DEF Bounded, Worker
  <2>6. QED BY <1>1, <2>5
<1>7. ASSUME NEW u \in ProbeTypes, WorkerDelayed(u) \/ DelayEnds(u)
      PROVE  FALSE
  <2>1. CASE WorkerDelayed(u)
    BY <1>1, <2>1 DEF WorkerDelayed
  <2>2. CASE DelayEnds(u)
    BY <1>1, <2>2 DEF DelayEnds
  <2>3. QED BY <1>7, <2>1, <2>2
<1>8. ASSUME NEW u \in ProbeTypes, NEW result \in Outcomes, WorkerProbes(u, result)
      PROVE  WorkerProbes(t, result)
  <2>1. u = t
    BY <1>1, <1>8 DEF WorkerProbes
  <2>2. QED BY <1>8, <2>1
<1>9. QED
  BY <1>3, <1>4, <1>5, <1>6, <1>7, <1>8
     DEF Next, MainLoop, WatchRunningCmd, BackOffEnds, CapabilitiesFail, StartFails,
         KillProcessTree, Terminate, CommandExits, AnswerChanges

\* And then the command gave that answer as often in a row as the threshold says.
LEMMA ProbesAreCounted ==
    ASSUME NEW t \in ProbeTypes, NEW w \in Bounded(t), NEW g \in Seq(Outcomes),
           NEW r \in Outcomes, CountsRun(t, w, g),
           Len(Probed(w, t, r).results) > Len(w.results)
    PROVE  LET v == Probed(w, t, r)
               h == LastAnswers(t, Append(g, r))
               n == Threshold(t, r) IN
           /\ v.results[Len(v.results)] = r
           /\ Len(h) >= n
           /\ \A i \in Len(h) - n + 1 .. Len(h) : h[i] = r
<1> DEFINE v == Probed(w, t, r)
           h == LastAnswers(t, Append(g, r))
           n == Threshold(t, r)
<1>1. v.last = r /\ v.results[Len(v.results)] = r /\ v.run >= n
  BY ProbedType
<1>2. h \in Seq(Outcomes) /\ CountsRun(t, v, h)
  BY ProbedCounts
<1>3. v \in Bounded(t) /\ n \in Nat
  BY ProbedType, ThresholdTypes
<1> HIDE DEF v, h, n
<1>4. v.run \in Nat /\ Len(h) \in Nat
  BY <1>2, <1>3, LenProperties DEF Bounded, Worker
<1>5. v.run <= Len(h) /\ \A i \in Len(h) - v.run + 1 .. Len(h) : h[i] = r
  BY <1>1, <1>2 DEF CountsRun
<1>6. QED BY <1>1, <1>3, <1>4, <1>5 DEF v, h, n

\* For all thresholds and any course of the answers: after its initial delay a
\* worker reports a result only when the command gave the same answer as often in a
\* row as the threshold of the result asks for (worker.go:178-189).
THEOREM ReportsAreDue == Spec => ReportsMeetThreshold
<1> DEFINE Due ==
      \A t \in ProbeTypes :
         /\ HasWorker(t) /\ ~worker[t].delay
         /\ worker'[t].on
         /\ Len(worker'[t].results) > Len(worker[t].results)
         =>
         LET result == worker'[t].results[Len(worker'[t].results)]
             n == Threshold(t, result) IN
         /\ Len(given'[t]) >= n
         /\ \A i \in Len(given'[t]) - n + 1 .. Len(given'[t]) :
               given'[t][i] = result
<1>1. CountInv /\ [Next]_vars => [Due]_vars
  <2>1. SUFFICES ASSUME CountInv, Next, NEW t \in ProbeTypes, Reports(t)
                 PROVE  LET result == worker'[t].results[Len(worker'[t].results)]
                            n == Threshold(t, result) IN
                        /\ Len(given'[t]) >= n
                        /\ \A i \in Len(given'[t]) - n + 1 .. Len(given'[t]) :
                              given'[t][i] = result
    BY DEF Reports
  <2>2. PICK r \in Outcomes : WorkerProbes(t, r)
    BY <2>1, ReportsAreProbes
  <2>3. /\ worker'[t] = Probed(worker[t], t, r)
        /\ given'[t] = LastAnswers(t, Append(given[t], r))
        /\ worker[t] \in Bounded(t) /\ given[t] \in Seq(Outcomes)
        /\ CountsRun(t, worker[t], given[t])
    BY <2>1, <2>2 DEF WorkerProbes, CountInv, WorkerTypes, Runs
  <2>4. Len(Probed(worker[t], t, r).results) > Len(worker[t].results)
    BY <2>1, <2>3 DEF Reports
  <2>5. QED BY <2>3, <2>4, ProbesAreCounted
<1>2. QED BY <1>1, CountAlways, PTL DEF Spec, ReportsMeetThreshold

===============================================================================
