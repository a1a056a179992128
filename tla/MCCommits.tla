------------------------------ MODULE MCCommits ------------------------------
(***************************************************************************)
(* An instance of Intents and AdminCommands for TLC: the commits of two    *)
(* intents, and the writes two clients ask of ID.  The two share no state, *)
(* so one run asks of both: either moves only while the other is where it  *)
(* began, and reaches every state that it reaches alone.                   *)
(***************************************************************************)
EXTENDS MCIntents, AdminCommands

CommitSymmetry == CallSymmetry \cup Permutations(Writes) \cup Permutations(Keys)
                  \cup Permutations(Inputs)

CommitsInit == Init /\ CommandInit
CommitsNext ==
  \/ CommandInit /\ Next /\ UNCHANGED commandVars
  \/ Init /\ CommandNext /\ UNCHANGED vars
CommitsSpec == CommitsInit /\ [][CommitsNext]_<<vars, commandVars>>
=============================================================================
