--------------------------- MODULE MCAdminAuthority ---------------------------
(***************************************************************************)
(* An instance of AdminAuthority for TLC.  Its properties are about steps  *)
(* and treat users, and transactions, alike.                               *)
(***************************************************************************)
EXTENDS AdminAuthority, TLC

Alike == Permutations(Staff) \cup Permutations(Commands)
===============================================================================
