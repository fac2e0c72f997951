---------------------------- MODULE PodmanRuntime ----------------------------
(***************************************************************************)
(* The runtime that hands pods to podman: pkg/runtime/podman/podman.go.    *)
(* podman itself is external: a pod, which must exist before its           *)
(* containers are created, and containers by their names.                  *)
(***************************************************************************)
EXTENDS RuntimeCalls

VARIABLES
    sandbox,        \* podman has the pod
    ctr,            \* per unit: "none", "created", "running" or "exited"
    swallowed       \* history: a failed creation was reported as a success

podmanVars == <<sandbox, ctr, swallowed>>

\* podman refuses a second pod of the name.
PodmanRunPodSandbox ==
    /\ Next_("RunPodSandbox")
    /\ \/ ~sandbox /\ sandbox' = TRUE /\ Ok
       \/ sandbox /\ Refused /\ UNCHANGED sandbox
       \/ Broken /\ UNCHANGED sandbox
    /\ UNCHANGED <<ctr, swallowed, todo>>

PodmanStopPodSandbox ==
    /\ Next_("StopPodSandbox")
    /\ \/ /\ sandbox
          /\ ctr' = [n \in Names |-> IF ctr[n] = "running" THEN "exited" ELSE ctr[n]]
          /\ Ok
       \/ ~sandbox /\ Refused /\ UNCHANGED ctr
       \/ Broken /\ UNCHANGED ctr
    /\ UNCHANGED <<sandbox, swallowed, todo>>

\* The pod was stopped just before, and so it is there.
PodmanRemovePodSandbox ==
    /\ Next_("RemovePodSandbox")
    /\ \/ sandbox' = FALSE /\ ctr' = [n \in Names |-> "none"] /\ Ok
       \/ Broken /\ UNCHANGED <<sandbox, ctr>>
    /\ UNCHANGED <<swallowed, todo>>

\* Only a failed pull is an error: when podman does not create the container,
\* because it exists or because of a fault, the call succeeds all the same.
PodmanCreateContainer(name) ==
    /\ \/ /\ sandbox /\ ctr[name] = "none"
          /\ ctr' = [ctr EXCEPT ![name] = "created"]
          /\ Ok
          /\ UNCHANGED swallowed
       \/ /\ \/ (~sandbox \/ ctr[name] # "none") /\ UNCHANGED faults
             \/ Fault
          /\ swallowed' = TRUE
          /\ Proceed(Tail(work))
          /\ UNCHANGED ctr
       \/ Broken /\ UNCHANGED <<ctr, swallowed>>
    /\ UNCHANGED <<sandbox, todo>>

PodmanStartContainer(name) ==
    /\ Starts(name)
    /\ \/ /\ ctr[name] # "none"
          /\ ctr' = [ctr EXCEPT ![name] = "running"]
          /\ Started
       \/ ctr[name] = "none" /\ NotStarted /\ UNCHANGED <<ctr, faults>>
       \/ NotStarted /\ Fault /\ UNCHANGED ctr
    /\ UNCHANGED <<sandbox, swallowed>>

\* A container that does not exist cannot be stopped, and so not be removed: a
\* unit whose creation was swallowed is in the way of its own replacement.
PodmanRemoveContainer(name) ==
    /\ \/ ctr[name] # "none" /\ ctr' = [ctr EXCEPT ![name] = "none"] /\ Ok
       \/ ctr[name] = "none" /\ Refused /\ UNCHANGED ctr
       \/ /\ ctr' \in {ctr, [ctr EXCEPT ![name] = IF @ = "running" THEN "exited" ELSE @]}
          /\ Broken
    /\ UNCHANGED <<sandbox, swallowed, todo>>

\* The container's command ends by itself.
ContainerExits(name) ==
    /\ ctr[name] = "running"
    /\ ctr' = [ctr EXCEPT ![name] = "exited"]
    /\ UNCHANGED <<sandbox, swallowed>>
    /\ UNCHANGED callVars

PodmanAnswer ==
    \/ PodmanRunPodSandbox
    \/ PodmanStopPodSandbox
    \/ PodmanRemovePodSandbox
    \/ Next_("CreateContainer") /\ PodmanCreateContainer(Head(work).unit.name)
    \/ Next_("RemoveContainer") /\ PodmanRemoveContainer(Head(work).unit.name)
    \/ \E name \in Names : PodmanStartContainer(name) \/ ContainerExits(name)

PodmanInit ==
    /\ sandbox = FALSE
    /\ ctr = [n \in Names |-> "none"]
    /\ swallowed = FALSE

===============================================================================
