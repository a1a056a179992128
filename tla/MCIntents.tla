----------------------------- MODULE MCIntents -----------------------------
(***************************************************************************)
(* Small instances of Intents for TLC: every intent targets the same       *)
(* resource, so that commits also meet each other's effects.               *)
(***************************************************************************)
EXTENDS Intents, TLC

CONSTANTS record

OneTarget == [i \in Intents |-> record]

Call(i, own, token, tool, summary) ==
  [intent |-> i, own |-> own, token |-> token, tool |-> tool, summary |-> summary]

\* The right arguments for either class.
RightInputs ==
  {Call(i, TRUE, TRUE, tool, TRUE) : i \in Intents, tool \in CommitTools}

\* The agent's tool alone.
AgentInputs == {Call(i, TRUE, TRUE, "commit", FALSE) : i \in Intents}

AnyCall == Calls
CallSymmetry == Permutations(Calls)
=============================================================================
