--------------------------- MODULE MCGrantsReader ---------------------------
(***************************************************************************)
(* Instances of GrantsReader for TLC: one person in two organisations.     *)
(***************************************************************************)
EXTENDS GrantsReader, TLC

MCOrganisationOf == [m \in Members |-> <<m>>]
MCUserOf == [m \in Members |-> "ann"]
MCSymmetry == Permutations(Calls)
=============================================================================
