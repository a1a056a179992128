------------------------------- MODULE MCPolicy -------------------------------
(***************************************************************************)
(* An instance of TenantPolicy and MemberPermission for TLC: the commands  *)
(* on a tenant's policy, whose properties treat users, and transactions,   *)
(* alike, and the decisions made from one.  The two share no state, so one *)
(* run asks of both: either moves only while the other is where it began,  *)
(* and reaches every state that it reaches alone.                          *)
(***************************************************************************)
EXTENDS TenantPolicy, MemberPermission, TLC

Alike == Permutations(Users) \cup Permutations(Commands)

\* Where the one waits while the other moves.
NoCommand == begun = 0 /\ live = Rows
NoDecision ==
  /\ changes = 0 /\ ~settled /\ target = "client"
  /\ {requested, code, refresh, access} = {{}}
  /\ \A q \in Assignees : policy.assignment["client"][q] = Scopes

PolicyInit == Init /\ PermissionInit /\ (NoCommand \/ NoDecision)
PolicyNext ==
  \/ NoDecision /\ Next /\ UNCHANGED policyVars
  \/ NoCommand /\ PermissionNext /\ UNCHANGED vars
PolicySpec == PolicyInit /\ [][PolicyNext]_<<vars, policyVars>>
===============================================================================
