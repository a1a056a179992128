------------------------------ MODULE Delegation ------------------------------
(***************************************************************************)
(* What a grant promises to the user who gave it: it is made once, used by *)
(* one exchange, and over for good at a revocation.  While it is used the  *)
(* application holds something it can renew; it never loses that and goes  *)
(* on, and nothing is held of a grant that is over.                        *)
(***************************************************************************)
CONSTANT Grants

VARIABLE stage  \* each grant: "none", "made", "used" or "over"

Init == stage = [g \in Grants |-> "none"]

Make(g) == stage[g] = "none" /\ stage' = [stage EXCEPT ![g] = "made"]

Use(g) == stage[g] = "made" /\ stage' = [stage EXCEPT ![g] = "used"]

\* One command may end many.
End(gs) ==
  /\ \A g \in gs : stage[g] \in {"made", "used"}
  /\ stage' = [g \in Grants |-> IF g \in gs THEN "over" ELSE stage[g]]

Next ==
  \/ \E g \in Grants : Make(g) \/ Use(g)
  \/ \E gs \in SUBSET Grants : End(gs)

Spec == Init /\ [][Next]_stage
=============================================================================
