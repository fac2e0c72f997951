------------------------------ MODULE Selections ------------------------------
(***************************************************************************)
(* What a loop over a list that skips some elements goes through: the      *)
(* units of diffUnits (pkg/server/pod_controller.go), the children of a    *)
(* process, the links of an archive, the entries of an environment.        *)
(***************************************************************************)
EXTENDS Naturals, Sequences, FiniteSets

\* Positions in order: the k-th is the one with k positions up to it.
InOrder(positions) ==
    [k \in 1 .. Cardinality(positions) |->
        CHOOSE p \in positions : Cardinality({q \in positions : q <= p}) = k]

\* The elements of list at the given positions, in order.
Pick(list, positions) ==
    LET at == InOrder(positions) IN [k \in DOMAIN at |-> list[at[k]]]

===============================================================================
