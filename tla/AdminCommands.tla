---------------------------- MODULE AdminCommands ----------------------------
(***************************************************************************)
(* ID's administrative commands (apps/id/src/services/operations.ts and    *)
(* http/admin/command.ts) and the client that sends them again             *)
(* (mcps/admin/src/calls.ts).                                              *)
(*                                                                         *)
(* A command is one transaction: it tries the lock of its idempotency key, *)
(* takes its caller's authority under share locks, looks its key up in the *)
(* journal, locks its target and checks the If-Match revision, and commits *)
(* its effect with its receipt.  A write whose answer is lost or says that *)
(* ID failed is sent once more with the same key; the first request may    *)
(* still run then, or not have begun.                                      *)
(*                                                                         *)
(* Abstracted: one caller identity and one target, whose revision every    *)
(* effect advances; an input is a model value.  Left out: the renewal of a *)
(* token that ID refuses, which touches nothing, and the one route that    *)
(* journals under a key of the server's own.                               *)
(***************************************************************************)
EXTENDS Naturals

CONSTANTS
  Writes,    \* the writes that clients ask of ID
  Keys,      \* idempotency keys
  Inputs,    \* what a command's fingerprint covers besides its precondition
  NoMatch,   \* a write without If-Match
  NoRow,     \* a key the journal does not hold
  NoHolder   \* no transaction holds a lock

\* A write is sent at most twice.
Requests == Writes \X {1, 2}
Input == [body : Inputs, expected : Nat \cup {NoMatch}]
Receipt == [input : Input, request : Requests]

ASSUME CommandAssumption ==
  /\ NoMatch \notin Nat /\ NoRow \notin Receipt /\ NoHolder \notin Requests
  /\ Keys # {} /\ Inputs # {}

VARIABLES
  authority, \* whether the caller's current authority is "held" or "revoked"
  revision,  \* of the target
  journal,   \* the receipt of each key
  effects,   \* the requests that changed the target
  keyLock,   \* who holds the advisory lock of each key
  sharing,   \* who holds share locks on the caller's authority
  rowLock,   \* who holds the target's row
  stage,     \* where each request is
  reply,     \* what ID answered it
  client,    \* where each client is
  sends,     \* how often it has sent its write,
  key,       \* under which key
  input,     \* and with which input
  outcome    \* what its caller is told

lockVars == <<keyLock, sharing, rowLock>>
dataVars == <<revision, journal, effects>>
clientVars == <<client, sends, key, input, outcome>>
commandVars == <<authority, dataVars, lockVars, stage, reply, clientVars>>

Handling == {"locking", "authorised", "looked", "holding"}

CommandInit ==
  /\ authority = "held" /\ revision = 0
  /\ journal = [k \in Keys |-> NoRow] /\ effects = {}
  /\ keyLock = [k \in Keys |-> NoHolder] /\ sharing = {} /\ rowLock = NoHolder
  /\ stage = [r \in Requests |-> "unsent"] /\ reply = [r \in Requests |-> "none"]
  /\ client = [w \in Writes |-> "idle"] /\ sends = [w \in Writes |-> 0]
  /\ \E k \in Keys : key = [w \in Writes |-> k]
  /\ \E body \in Inputs :
       input = [w \in Writes |-> [body |-> body, expected |-> NoMatch]]
  /\ outcome = [w \in Writes |-> "none"]

KeyOf(r) == key[r[1]]
InputOf(r) == input[r[1]]

-----------------------------------------------------------------------------
(***************************************************************************)
(* ID: one transaction.                                                    *)
(***************************************************************************)
Proceed(r, step) == stage' = [stage EXCEPT ![r] = step]

\* The transaction commits or rolls back, and releases its locks.
End(r, answer) ==
  /\ Proceed(r, "ended")
  /\ reply' = [reply EXCEPT ![r] = answer]
  /\ keyLock' = [k \in Keys |-> IF keyLock[k] = r THEN NoHolder ELSE keyLock[k]]
  /\ sharing' = sharing \ {r}
  /\ rowLock' = IF rowLock = r THEN NoHolder ELSE rowLock

\* pg_try_advisory_xact_lock: whether it was acquired counts later.
TryKeyLock(r) ==
  /\ stage[r] = "sent"
  /\ Proceed(r, "locking")
  /\ keyLock' = IF keyLock[KeyOf(r)] = NoHolder
                THEN [keyLock EXCEPT ![KeyOf(r)] = r] ELSE keyLock
  /\ UNCHANGED <<authority, dataVars, sharing, rowLock, reply, clientVars>>

\* Mutant: authority is read without a lock.
AuthoriseUnlocked(r) ==
  /\ stage[r] = "locking"
  /\ \/ authority = "revoked" /\ End(r, "denied")
     \/ authority = "held" /\ keyLock[KeyOf(r)] # r /\ End(r, "in_progress")
     \/ /\ authority = "held" /\ keyLock[KeyOf(r)] = r
        /\ Proceed(r, "authorised") /\ UNCHANGED <<lockVars, reply>>
  /\ UNCHANGED <<authority, dataVars, clientVars>>

\* authorizeCommand, whose locks keep the authority it finds, and then the
\* refusal of a key that another transaction was holding.
Authorise(r) ==
  /\ stage[r] = "locking"
  /\ \/ authority = "revoked" /\ End(r, "denied")
     \/ authority = "held" /\ keyLock[KeyOf(r)] # r /\ End(r, "in_progress")
     \/ /\ authority = "held" /\ keyLock[KeyOf(r)] = r
        /\ Proceed(r, "authorised") /\ sharing' = sharing \cup {r}
        /\ UNCHANGED <<keyLock, rowLock, reply>>
  /\ UNCHANGED <<authority, dataVars, clientVars>>

\* Mutant: the revision is checked before the journal.
LookUpCurrent(r) ==
  /\ stage[r] = "authorised"
  /\ \/ InputOf(r).expected \notin {NoMatch, revision} /\ End(r, "stale")
     \/ /\ InputOf(r).expected \in {NoMatch, revision} /\ journal[KeyOf(r)] # NoRow
        /\ End(r, IF journal[KeyOf(r)].input = InputOf(r) THEN "replayed" ELSE "reused")
     \/ /\ InputOf(r).expected \in {NoMatch, revision} /\ journal[KeyOf(r)] = NoRow
        /\ Proceed(r, "looked") /\ UNCHANGED <<lockVars, reply>>
  /\ UNCHANGED <<authority, dataVars, clientVars>>

\* A key's receipt answers its own input and refuses any other.
LookUp(r) ==
  /\ stage[r] = "authorised"
  /\ \/ /\ journal[KeyOf(r)] # NoRow
        /\ End(r, IF journal[KeyOf(r)].input = InputOf(r) THEN "replayed" ELSE "reused")
     \/ /\ journal[KeyOf(r)] = NoRow
        /\ Proceed(r, "looked") /\ UNCHANGED <<lockVars, reply>>
  /\ UNCHANGED <<authority, dataVars, clientVars>>

\* The mutation locks its target, waits for whoever holds it, and checks what
\* If-Match expects of the row as it then is.
LockTarget(r) ==
  /\ stage[r] = "looked" /\ rowLock = NoHolder
  /\ \/ InputOf(r).expected \notin {NoMatch, revision} /\ End(r, "stale")
     \/ /\ InputOf(r).expected \in {NoMatch, revision}
        /\ Proceed(r, "holding") /\ rowLock' = r
        /\ UNCHANGED <<keyLock, sharing, reply>>
  /\ UNCHANGED <<authority, dataVars, clientVars>>

\* Mutant: the receipt is written on its own after the effect, and may be lost.
CommitThenJournal(r) ==
  /\ stage[r] = "holding" /\ journal[KeyOf(r)] = NoRow
  /\ effects' = effects \cup {r} /\ revision' = revision + 1
  /\ \/ /\ journal' = [journal EXCEPT ![KeyOf(r)] = [input |-> InputOf(r), request |-> r]]
        /\ End(r, "applied")
     \/ UNCHANGED journal /\ End(r, "failed")
  /\ UNCHANGED <<authority, clientVars>>

\* The effect and its receipt commit together; an unchanged target's command
\* has a receipt and no effect.
Commit(r) ==
  /\ stage[r] = "holding" /\ journal[KeyOf(r)] = NoRow
  /\ \/ effects' = effects \cup {r} /\ revision' = revision + 1
     \/ UNCHANGED <<effects, revision>>
  /\ journal' = [journal EXCEPT ![KeyOf(r)] = [input |-> InputOf(r), request |-> r]]
  /\ End(r, "applied")
  /\ UNCHANGED <<authority, clientVars>>

\* The mutation refuses the command, such as one that would end the platform's
\* last administrator; so does a person's sign-in that is no longer fresh.
RefuseCommand(r) ==
  /\ stage[r] \in {"looked", "holding"}
  /\ End(r, "refused")
  /\ UNCHANGED <<authority, dataVars, clientVars>>

\* A statement or a lock wait times out, the key is in the journal after all,
\* or the process dies: all rolls back.
Fail(r) ==
  /\ stage[r] \in Handling
  /\ End(r, "failed")
  /\ UNCHANGED <<authority, dataVars, clientVars>>

\* A revocation waits for the share locks on what it revokes.
Revoke ==
  /\ authority = "held" /\ sharing = {}
  /\ authority' = "revoked"
  /\ UNCHANGED <<dataVars, lockVars, stage, reply, clientVars>>

Restore ==
  /\ authority = "revoked"
  /\ authority' = "held"
  /\ UNCHANGED <<dataVars, lockVars, stage, reply, clientVars>>

-----------------------------------------------------------------------------
(***************************************************************************)
(* The client: calls.write.                                                *)
(***************************************************************************)
\* Send a write with its key and, where ID takes one, the revision that the
\* caller has read.
Send(w) ==
  /\ client[w] = "idle"
  /\ client' = [client EXCEPT ![w] = "waiting"] /\ sends' = [sends EXCEPT ![w] = 1]
  /\ Proceed(<<w, 1>>, "sent")
  /\ \E k \in Keys, body \in Inputs, expected \in {NoMatch, revision} :
       /\ key' = [key EXCEPT ![w] = k]
       /\ input' = [input EXCEPT ![w] = [body |-> body, expected |-> expected]]
  /\ UNCHANGED <<authority, dataVars, lockVars, reply, outcome>>

Tell(w, what) ==
  /\ client' = [client EXCEPT ![w] = "done"]
  /\ outcome' = [outcome EXCEPT ![w] = what]
  /\ UNCHANGED <<authority, dataVars, lockVars, stage, reply, sends, key, input>>

\* What ID's answer to a request means to the caller.
Meaning(answer) ==
  CASE answer \in {"applied", "replayed"} -> "receipt"
    [] answer = "stale" -> "INTENT_STALE"
    [] answer \in {"denied", "refused", "reused"} -> "UPSTREAM_REJECTED"
    [] answer \in {"in_progress", "failed"} -> "UPSTREAM_UNAVAILABLE"

\* An answer arrives that is not sent again.
Hear(w) ==
  LET answer == reply[<<w, sends[w]>>] IN
  /\ client[w] = "waiting" /\ answer # "none"
  /\ answer = "failed" => sends[w] = 2
  /\ Tell(w, Meaning(answer))

\* A 5xx arrives, or no answer in time: send once more with the same key.
SendAgain(w) ==
  /\ client[w] = "waiting" /\ sends[w] = 1
  /\ sends' = [sends EXCEPT ![w] = 2]
  /\ Proceed(<<w, 2>>, "sent")
  /\ UNCHANGED <<authority, dataVars, lockVars, reply, client, key, input, outcome>>

\* The second request is not answered in time either.
GiveUp(w) ==
  /\ client[w] = "waiting" /\ sends[w] = 2
  /\ Tell(w, "UPSTREAM_UNAVAILABLE")

-----------------------------------------------------------------------------
TransactionStep(r) ==
  \/ TryKeyLock(r) \/ Authorise(r) \/ LookUp(r) \/ LockTarget(r)
  \/ Commit(r) \/ RefuseCommand(r) \/ Fail(r)

ClientStep(w) == Send(w) \/ Hear(w) \/ SendAgain(w) \/ GiveUp(w)

CommandNext ==
  \/ \E r \in Requests : TransactionStep(r)
  \/ \E w \in Writes : ClientStep(w)
  \/ Revoke \/ Restore

CommandSpec == CommandInit /\ [][CommandNext]_commandVars

-----------------------------------------------------------------------------
(***************************************************************************)
(* Properties.                                                             *)
(***************************************************************************)
Outcome == {"none", "receipt", "INTENT_STALE", "UPSTREAM_REJECTED", "UPSTREAM_UNAVAILABLE"}
Reply == {"none", "applied", "replayed", "stale", "denied", "refused", "reused",
          "in_progress", "failed"}

\* Every variable keeps to its type.
CommandTypeOK ==
  /\ authority \in {"held", "revoked"} /\ revision \in Nat
  /\ journal \in [Keys -> Receipt \cup {NoRow}] /\ effects \subseteq Requests
  /\ keyLock \in [Keys -> Requests \cup {NoHolder}]
  /\ sharing \subseteq Requests /\ rowLock \in Requests \cup {NoHolder}
  /\ stage \in [Requests -> Handling \cup {"unsent", "sent", "ended"}]
  /\ reply \in [Requests -> Reply]
  /\ client \in [Writes -> {"idle", "waiting", "done"}] /\ sends \in [Writes -> 0..2]
  /\ \A w \in Writes : client[w] = "idle" <=> sends[w] = 0
  /\ key \in [Writes -> Keys] /\ input \in [Writes -> Input]
  /\ outcome \in [Writes -> Outcome]

\* A key changes its target once, however many requests carry it, overlap, are
\* sent again or arrive late (docs/05 section 4: "A matching key never repeats
\* later effects").
OncePerKey == \A r, s \in effects : KeyOf(r) = KeyOf(s) => r = s

\* A caller with a receipt has its own command's: the key's one journalled
\* transaction had exactly its input, and no other request of the key changed
\* anything (executeOperation's replay).
ReceiptIsOwn ==
  \A w \in Writes : outcome[w] = "receipt" =>
    /\ journal[key[w]] # NoRow /\ journal[key[w]].input = input[w]
    /\ \A r \in effects : KeyOf(r) = key[w] => r = journal[key[w]].request

\* A write told INTENT_STALE, which its caller prepares again, was not applied
\* and is not applied later: neither by a first request whose answer was lost
\* nor by one that is still on its way (calls.write, assertRevision).
StaleIsUnapplied ==
  \A w \in Writes : outcome[w] = "INTENT_STALE" => \A n \in {1, 2} : <<w, n>> \notin effects

\* A write that ID refuses at its first request was not applied and is not
\* applied later (calls.write: any other refusal is UPSTREAM_REJECTED).
FirstRefusalIsFinal ==
  \A w \in Writes :
    outcome[w] = "UPSTREAM_REJECTED" /\ sends[w] = 1 => \A n \in {1, 2} : <<w, n>> \notin effects

\* What write tells its caller is true of the effects: a receipt is of the write's
\* own and only effect, and neither a stale revision nor a first refusal hides one.
RepliesAreTrue == ReceiptIsOwn /\ StaleIsUnapplied /\ FirstRefusalIsFinal

\* The same of every write told UPSTREAM_REJECTED, with no word that its outcome
\* is unknown (calls.write: "when it still fails ... UPSTREAM_UNAVAILABLE says the
\* outcome is unknown").
RejectedIsUnapplied ==
  \A w \in Writes : outcome[w] = "UPSTREAM_REJECTED" => \A n \in {1, 2} : <<w, n>> \notin effects

\* Nothing is changed once the caller's authority is revoked, by commands that
\* were authorised before and waited since (authorizeCommand: "its share locks
\* block a revocation until the command commits").
EffectsAreAuthorised == [][effects' # effects => authority = "held"]_commandVars

\* A change with If-Match replaces the very revision its caller read.
EffectsFollowTheirRevision ==
  [][\A r \in effects' \ effects : InputOf(r).expected \in {NoMatch, revision}]_commandVars

\* A command takes effect only while its caller still holds its authority, and
\* only on the revision it expects.
EffectsAreDue == EffectsAreAuthorised /\ EffectsFollowTheirRevision

(***************************************************************************)
(* Why these hold: who is past the journal holds its key, its caller's     *)
(* authority and, when it may commit, its target; what is in the journal   *)
(* stays; and revisions only advance.                                      *)
(***************************************************************************)
LocksHold ==
  /\ \A r \in Requests :
       /\ stage[r] \in {"authorised", "looked", "holding"} =>
            keyLock[KeyOf(r)] = r /\ r \in sharing
       /\ stage[r] = "holding" => rowLock = r /\ InputOf(r).expected \in {NoMatch, revision}
       /\ stage[r] \in {"looked", "holding"} => journal[KeyOf(r)] = NoRow
  /\ sharing # {} => authority = "held"

JournalHolds ==
  /\ \A r \in effects :
       /\ reply[r] = "applied"
       /\ journal[KeyOf(r)] # NoRow /\ journal[KeyOf(r)].request = r
  /\ \A k \in Keys : journal[k] # NoRow =>
       /\ KeyOf(journal[k].request) = k /\ reply[journal[k].request] = "applied"
       /\ journal[k].input = InputOf(journal[k].request)

\* The write w was too late for its revision, and stays so.
Late(w) ==
  /\ input[w].expected # NoMatch /\ input[w].expected < revision
  /\ \A n \in {1, 2} : <<w, n>> \notin effects

Received(w) == journal[key[w]] # NoRow /\ journal[key[w]].input = input[w]

RepliesHold ==
  \A w \in Writes, n \in {1, 2} :
    /\ reply[<<w, n>>] = "none" <=> stage[<<w, n>>] # "ended"
    /\ reply[<<w, n>>] \in {"applied", "replayed"} => Received(w)
    /\ reply[<<w, n>>] = "stale" => Late(w)

ClientsHold ==
  \A w \in Writes :
    /\ input[w].expected # NoMatch => input[w].expected <= revision
    /\ \A n \in {1, 2} : sends[w] < n => stage[<<w, n>>] = "unsent"
    /\ outcome[w] # "none" => client[w] = "done"
    /\ outcome[w] = "receipt" => Received(w)
    /\ outcome[w] = "INTENT_STALE" => Late(w)
    /\ outcome[w] = "UPSTREAM_REJECTED" /\ sends[w] = 1 =>
         reply[<<w, 1>>] \in {"denied", "refused", "reused"}

CommandInv == CommandTypeOK /\ LocksHold /\ JournalHolds /\ RepliesHold /\ ClientsHold
=============================================================================
