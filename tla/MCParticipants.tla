---------------------------- MODULE MCParticipants ----------------------------
(* Participants with small bounds, for TLC. *)
EXTENDS Participants, TLC

CONSTANTS p, q, g, h
Symmetry == Permutations({p, q}) \union Permutations({g, h})

SmallBudget ==
    [change |-> 3, input |-> 1, lose |-> 1]
===============================================================================
