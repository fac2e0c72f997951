----------------------------- MODULE MCUnitLoop -----------------------------
(***************************************************************************)
(* Instances of UnitLoop for TLC. One answer makes a probe succeed, one    *)
(* makes the readiness probe fail and two make the others fail.            *)
(***************************************************************************)
EXTENDS UnitLoop

MCSuccessThreshold == [t \in ProbeTypes |-> 1]

MCFailureThreshold ==
    [t \in ProbeTypes |-> IF t = "readiness" THEN 1 ELSE 2]

\* Every policy with no probe, with a startup probe and one other, and with a
\* liveness probe alone; one unit with a liveness and a readiness probe.
MCConfigs ==
    ({"Always", "OnFailure", "Never"} \X {{}, {"startup", "readiness"}, {"liveness"}})
      \cup {<<"Always", {"liveness", "readiness"}>>}

===============================================================================
