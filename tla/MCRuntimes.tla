------------------------------ MODULE MCRuntimes ------------------------------
(***************************************************************************)
(* Instances of Runtimes for TLC.                                          *)
(***************************************************************************)
EXTENDS Runtimes

CONSTANTS a, b, i, v1, v2, v3, disk, mem, sec, path

MCNames == {a, b, i}
MCImages == {v1, v2, v3}
MCTemplates == {v1, v2}
MCVolumes == {disk, mem, sec, path}

Of(name, img) == [name |-> name, image |-> img]
Pod(inits, units) == [inits |-> inits, units |-> units, policy |-> "Always"]

NoMounts == [n \in Names |-> <<>>]

\* A unit mounts what goes with its image, so that a unit whose mounts change
\* is created again.
MountsOf(img) ==
    CASE img = v1 -> <<sec>>
      [] img = v2 -> <<mem, sec>>
      [] img = v3 -> <<disk, path>>

Mounting(pod) ==
    [n \in Names |->
        LET at == {k \in DOMAIN pod.units : pod.units[k].name = n} IN
        IF at = {} THEN <<>> ELSE MountsOf(pod.units[CHOOSE k \in at : TRUE].image)]

With(pod, volumes, overlay) ==
    [pod |-> pod, volumes |-> volumes, mounts |-> Mounting(pod), overlay |-> overlay]

\* One emptyDir of each medium, a secret and a host path; and without the disk
\* emptyDir, so that the pod can be restarted.
All == <<mem, disk, sec, path>>
Light == <<mem, sec, path>>

MCRequests ==
    {With(Pod(<<>>, <<Of(a, v1), Of(b, v3)>>), All, FALSE),
     With(Pod(<<Of(i, v1)>>, <<Of(a, v3)>>), All, TRUE),
     With(Pod(<<>>, <<>>), Light, FALSE),
     With(Pod(<<>>, <<Of(a, v2), Of(b, v2)>>), Light, TRUE),
     With(Pod(<<Of(i, v1)>>, <<Of(a, v1), Of(b, v2)>>), Light, FALSE)}

\* A client that wants no overlays, takes the mounts away from a unit, and
\* upgrades it. Nothing can fail on the way.
MovedRequests ==
    LET before == With(Pod(<<>>, <<Of(a, v1)>>), <<mem, sec>>, FALSE)
        after == With(Pod(<<>>, <<Of(a, v2)>>), <<mem, sec>>, FALSE) IN
    {before, after, [after EXCEPT !.mounts = NoMounts]}

\* Only the requests of the second set change the mounts of a unit that stays.
ASSUME MCRequestsAssumption ==
    /\ DistinctNames
    /\ MountsFollowUnits(MCRequests)
    /\ ~MountsFollowUnits(MovedRequests)

MCSpecs == {r.pod : r \in MCRequests \cup MovedRequests}

MCSources ==
    {[v \in Volumes |-> CASE v = disk -> "disk"
                          [] v = mem -> "memory"
                          [] v = sec -> "content"
                          [] v = path -> type] :
        type \in {"FileOrCreate", "Socket", "Unset", "unknown"}}

===============================================================================
