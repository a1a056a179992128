-------------------------- MODULE MCDirectorySignIn --------------------------
(***************************************************************************)
(* An instance of DirectorySignIn for TLC: two firms, an identity of the   *)
(* first's directory and two of the second's, which are of one person.     *)
(***************************************************************************)
EXTENDS DirectorySignIn, TLC

MCHome == [i \in Identities |-> IF i = "one" THEN "f" ELSE "g"]
MCPerson == [i \in Identities |-> IF i = "one" THEN "p" ELSE "q"]
Alike == Permutations(Users) \cup Permutations(Callbacks)
===============================================================================
