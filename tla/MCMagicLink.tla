----------------------------- MODULE MCMagicLink -----------------------------
(***************************************************************************)
(* An instance of MagicLink for TLC.                                       *)
(***************************************************************************)
EXTENDS MagicLink, TLC

MCSymmetry == Permutations(Requests) \cup Permutations(Posts) \cup Permutations(Users)
=============================================================================
