------------------------------ MODULE PodUpdates ------------------------------
(***************************************************************************)
(* What the controller promises a client about the updates it accepts,     *)
(* whatever queue stands between them: updates are numbered in the order   *)
(* they are accepted, the controller looks at the newest number from time  *)
(* to time, and each update it takes is newer than the last one it took    *)
(* and no older than the newest one at its last look.                      *)
(* ("we only care about the latest update", pkg/server/pod_controller.go)  *)
(***************************************************************************)
EXTENDS Naturals

VARIABLES
    latest,     \* number of updates accepted
    seen,       \* the newest update when the controller last looked
    taken       \* the update the controller last took, 0 before the first

vars == <<latest, seen, taken>>

Init == latest = 0 /\ seen = 0 /\ taken = 0

Submit ==
    /\ latest' = latest + 1
    /\ UNCHANGED <<seen, taken>>

Look ==
    /\ seen' = latest
    /\ UNCHANGED <<latest, taken>>

Take ==
    /\ \E u \in taken + 1 .. latest : u >= seen /\ taken' = u
    /\ UNCHANGED <<latest, seen>>

Next == Submit \/ Look \/ Take

Spec == Init /\ [][Next]_vars

\* An update is never taken again and never taken after a newer one.
TakenOnlyAdvances == [][taken' > taken \/ UNCHANGED taken]_vars

===============================================================================
