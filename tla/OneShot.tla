------------------------------ MODULE OneShot ------------------------------
(***************************************************************************)
(* What the intents of the MCP SDK promise: a prepared mutation is used    *)
(* once.  It opens, one caller takes it, at most one effect follows, and   *)
(* a receipt is issued only for that effect, by the one who made it.       *)
(***************************************************************************)
CONSTANTS Intents, Calls, NoCall

VARIABLES
  life,     \* "none", "open", "taken" or "closed"
  effects,  \* the calls whose effect took hold
  issued    \* whose receipt was issued

vars == <<life, effects, issued>>

Init ==
  /\ life = [i \in Intents |-> "none"]
  /\ effects = [i \in Intents |-> {}]
  /\ issued = [i \in Intents |-> NoCall]

Become(i, stage) == life' = [life EXCEPT ![i] = stage]

Open(i) == life[i] = "none" /\ Become(i, "open") /\ UNCHANGED <<effects, issued>>

Take(i) == life[i] = "open" /\ Become(i, "taken") /\ UNCHANGED <<effects, issued>>

Effect(i, c) ==
  /\ life[i] = "taken" /\ effects[i] = {}
  /\ effects' = [effects EXCEPT ![i] = {c}]
  /\ UNCHANGED <<life, issued>>

Issue(i, c) ==
  /\ life[i] = "taken" /\ effects[i] = {c}
  /\ Become(i, "closed")
  /\ issued' = [issued EXCEPT ![i] = c]
  /\ UNCHANGED effects

\* Expired, stale or failed: a failed one may have had its effect.
Close(i) ==
  /\ life[i] \in {"open", "taken"} /\ Become(i, "closed")
  /\ UNCHANGED <<effects, issued>>

\* A sweep closes any number of open ones at once.
CloseOpen ==
  /\ life' \in {[i \in Intents |-> IF i \in S THEN "closed" ELSE life[i]] :
                  S \in SUBSET {i \in Intents : life[i] = "open"}}
  /\ UNCHANGED <<effects, issued>>

Next ==
  \/ \E i \in Intents : Open(i) \/ Take(i) \/ Close(i)
  \/ \E i \in Intents, c \in Calls : Effect(i, c) \/ Issue(i, c)
  \/ CloseOpen

Spec == Init /\ [][Next]_vars
=============================================================================
