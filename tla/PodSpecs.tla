------------------------------- MODULE PodSpecs -------------------------------
(***************************************************************************)
(* The pod specifications the controller compares and the pure functions   *)
(* it compares them with: unitsEqual, unitsSlicesEqual, diffUnits and      *)
(* detectChangeType of pkg/server/pod_controller.go.                       *)
(*                                                                         *)
(* A unit is its name and its image, the two fields unitsEqual reads: two  *)
(* units that differ only in command, environment, probes or mounts are    *)
(* the same unit to the controller.                                        *)
(***************************************************************************)
EXTENDS Naturals, Sequences

CONSTANTS
    Names,      \* unit names, shared by init and regular units
    Images,     \* image references
    Specs       \* the pod specifications a client may send

Unit == [name : Names, image : Images]

Policies == {"Always", "OnFailure", "Never"}

\* api.PodSpec, reduced to what the controller decides on.
PodSpec == [inits : Seq(Unit), units : Seq(Unit), policy : Policies]

ASSUME SpecsAssumption == \A s \in Specs : s \in PodSpec

\* The status NewPodController starts from: no units, policy Always.
EmptyStatus == [inits |-> <<>>, units |-> <<>>, policy |-> "Always"]

UnitNames(units) == {units[i].name : i \in DOMAIN units}

\* No pod that a client sends has two regular units of one name: Kubernetes, which
\* writes the pods, refuses such a pod, and everything the agent keeps for a unit
\* is found by its name. The code does not check it.
DistinctNames ==
    \A s \in Specs : \A j, k \in DOMAIN s.units :
        s.units[j].name = s.units[k].name => j = k

\* Nor does it send specifications of which one has an init unit with the name of a
\* regular unit of another or of itself. The code does not check this either.
InitNamesApart ==
    \A s, t \in Specs : \A j \in DOMAIN s.inits, k \in DOMAIN t.units :
        s.inits[j].name # t.units[k].name

-------------------------------------------------------------------------------

UnitsEqual(specUnit, statusUnit) ==
    /\ specUnit.image = statusUnit.image
    /\ specUnit.name = statusUnit.name

UnitsSlicesEqual(specUnits, statusUnits) ==
    /\ Len(specUnits) = Len(statusUnits)
    /\ \A i \in DOMAIN specUnits : UnitsEqual(specUnits[i], statusUnits[i])

\* A comparison that ignores the image: an upgraded unit looks unchanged.
UnitsEqual_ByName(specUnit, statusUnit) == specUnit.name = statusUnit.name

\* Stops at the end of the shorter slice.
Differing_CommonPrefix(units, others) ==
    {i \in DOMAIN units \cap DOMAIN others : ~UnitsEqual(units[i], others[i])}

\* One side of diffUnits: the positions of units that others does not hold at
\* the same position. diffUnits is positional: a unit that moved is deleted
\* and added again.
Differing(units, others) ==
    {i \in DOMAIN units :
        i \in DOMAIN others => ~UnitsEqual(units[i], others[i])}

ToAdd(spec, status) == Differing(spec.units, status.units)

ToDelete(spec, status) == Differing(status.units, spec.units)

DetectChangeType(spec, status) ==
    IF ~UnitsSlicesEqual(spec.inits, status.inits) THEN "pod_restart"
    ELSE IF status.units = <<>> /\ status.inits = <<>> THEN "pod_created"
    ELSE IF ToAdd(spec, status) \cup ToDelete(spec, status) # {}
         THEN "units_changed"
    ELSE "no_changes"

===============================================================================
