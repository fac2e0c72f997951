--------------------------- MODULE MCPodController ---------------------------
(***************************************************************************)
(* Instances of PodController for TLC: two regular units, one init unit,   *)
(* two images, and the specifications below.                               *)
(***************************************************************************)
EXTENDS PodController

CONSTANTS h1, h2, a, b, i, v1, v2, none

MCNames == {a, b, i}
MCImages == {v1, v2}

Of(name, image) == [name |-> name, image |-> image]

Pod(inits, units, policy) == [inits |-> inits, units |-> units, policy |-> policy]

\* Regular units only, for liveness: one unit, upgraded and back.
UpgradeSpecs ==
    {Pod(<<>>, <<Of(a, v1)>>, "Always"),
     Pod(<<>>, <<Of(a, v2)>>, "Never")}

\* One init unit and one regular unit, each upgraded or not.
InitSpecs ==
    {Pod(<<Of(i, v1)>>, <<Of(a, v1)>>, "OnFailure"),
     Pod(<<Of(i, v1)>>, <<Of(a, v2)>>, "OnFailure"),
     Pod(<<Of(i, v2)>>, <<Of(a, v2)>>, "Never")}

\* Pods without init units: two units, swapped. Pods with one: one regular
\* unit, added, upgraded, and the init unit upgraded.
AllSpecs ==
    {Pod(<<>>, <<Of(a, v1), Of(b, v1)>>, "Always"),
     Pod(<<>>, <<Of(b, v1), Of(a, v1)>>, "Always"),
     Pod(<<Of(i, v1)>>, <<Of(a, v1)>>, "OnFailure"),
     Pod(<<Of(i, v1)>>, <<Of(a, v2), Of(b, v1)>>, "OnFailure"),
     Pod(<<Of(i, v2)>>, <<Of(a, v1)>>, "Never")}

AlwaysSpecs == {Pod(<<Of(i, v1)>>, <<Of(a, v1)>>, "Always")}

\* What the proofs about the units assume of the specifications.
ASSUME MCSpecsAssumption == DistinctNames /\ InitNamesApart

OneHandler == {h1}
TwoHandlers == {h1, h2}

===============================================================================
