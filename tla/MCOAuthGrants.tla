---------------------------- MODULE MCOAuthGrants ----------------------------
(***************************************************************************)
(* An instance of OAuthGrants for TLC.                                     *)
(***************************************************************************)
EXTENDS OAuthGrants, TLC

CONSTANT u1

MCUserOf == [s \in Sessions |-> u1]

MCSymmetry == Permutations(Grants) \cup Permutations(Codes) \cup Permutations(Tokens)
                \cup Permutations(Requests)
=============================================================================
