----------------------------- MODULE ProbeWorker -----------------------------
(***************************************************************************)
(* One probe worker of pkg/prober/worker.go: the goroutine that probes a   *)
(* running command, counts equal results in a row and reports a result     *)
(* that reached its threshold through a small channel.                     *)
(*                                                                         *)
(* A worker is a record; the operators below are the steps its goroutine   *)
(* takes on it. UnitLoop runs up to two workers at a time.                 *)
(***************************************************************************)
EXTENDS Naturals, Sequences

CONSTANTS
    SuccessThreshold,   \* per probe type, at least 1
    FailureThreshold,   \* per probe type, at least 1
    ResultsSize         \* capacity of the results channel, 2 in the code

ProbeTypes == {"liveness", "readiness", "startup"}

ASSUME ThresholdsAssumption ==
    /\ SuccessThreshold \in [ProbeTypes -> Nat \ {0}]
    /\ FailureThreshold \in [ProbeTypes -> Nat \ {0}]
    /\ ResultsSize \in Nat \ {0}

Results == {"Unknown", "Success", "Failure"}

\* What a probe of the command may return.
Outcomes == {"Success", "Failure"}

Threshold(type, result) ==
    IF result = "Success" THEN SuccessThreshold[type] ELSE FailureThreshold[type]

\* The counter only matters up to the larger threshold.
MaxRun(type) ==
    IF SuccessThreshold[type] > FailureThreshold[type]
    THEN SuccessThreshold[type] ELSE FailureThreshold[type]

\* on: the goroutine was started and nobody stopped it. delay: its initial delay
\* is not over. last and run: lastResult, whose zero value is Success, and
\* resultRun. results: the channel.
NewWorker ==
    [on |-> TRUE, delay |-> TRUE, last |-> "Success", run |-> 0, results |-> <<>>]

\* No worker: a unit without this probe, or a worker that was stopped. A stopped
\* worker may probe once more, and nobody reads its channel any more.
NoWorker == [NewWorker EXCEPT !.on = FALSE]

InitialValue(type) ==
    CASE type = "readiness" -> "Failure"
      [] type = "liveness" -> "Success"
      [] type = "startup" -> "Unknown"

\* emit: a result that finds the channel full is dropped. (Mutant: it is not.)
Emit_Unbounded(w, result) == [w EXCEPT !.results = Append(@, result)]
Emit(w, result) ==
    IF Len(w.results) < ResultsSize
    THEN [w EXCEPT !.results = Append(@, result)] ELSE w

\* A result in a row, counted. (Mutant: a change of the result does not reset
\* the counter.)
Counted_NoReset(w, type, result) ==
    [w EXCEPT !.last = result,
              !.run = IF w.run < MaxRun(type) THEN w.run + 1 ELSE w.run]
Counted(w, type, result) ==
    [w EXCEPT !.last = result,
              !.run = IF w.last # result THEN 1
                      ELSE IF w.run < MaxRun(type) THEN w.run + 1 ELSE w.run]

\* doProbe during the initial delay.
Delayed(w, type) == Emit(w, InitialValue(type))

\* doProbe after it: a result below its threshold is not reported. (Mutant:
\* only the first of a row is reported.)
Probed_OnlyChanges(w, type, result) ==
    LET c == Counted(w, type, result) IN
    IF c.run >= Threshold(type, result) /\ w.last # result THEN Emit(c, result) ELSE c
Probed(w, type, result) ==
    LET c == Counted(w, type, result) IN
    IF c.run >= Threshold(type, result) THEN Emit(c, result) ELSE c

===============================================================================
