------------------------ MODULE AdministrationProofs ------------------------
(***************************************************************************)
(* Proofs about administration. Of AdminCommands: types, that a key        *)
(* changes its target once, that receipts, stale refusals and first        *)
(* refusals are what they say, and that effects keep to their authority    *)
(* and their revision. Of Enablement, whose operations make several such   *)
(* commands: types, that a provider is turned on where all else is in      *)
(* place, and that what others chose stays.                                *)
(***************************************************************************)
EXTENDS AdminCommands, Enablement, TLAPS

-----------------------------------------------------------------------------
(* AdminCommands *)

\* A request is its write and which of its sends it is.
LEMMA RequestParts ==
  /\ \A r \in Requests : r[1] \in Writes /\ r[2] \in {1, 2} /\ r = <<r[1], r[2]>>
  /\ \A w \in Writes, n \in {1, 2} :
       <<w, n>> \in Requests /\ <<w, n>>[1] = w /\ <<w, n>>[2] = n
  BY DEF Requests

\* A request's key and input are its write's.
LEMMA OfWrite ==
  ASSUME CommandTypeOK
  PROVE  /\ \A r \in Requests : KeyOf(r) \in Keys /\ InputOf(r) \in Input
         /\ \A w \in Writes, n \in {1, 2} : KeyOf(<<w, n>>) = key[w] /\ InputOf(<<w, n>>) = input[w]
  BY RequestParts DEF CommandTypeOK, KeyOf, InputOf

\* What ending a transaction leaves alone, and what it releases.
LEMMA Ended ==
  ASSUME CommandTypeOK, NEW r \in Requests, NEW reason \in Reply, End(r, reason)
  PROVE  /\ stage' \in [Requests -> Handling \cup {"unsent", "sent", "ended"}]
         /\ reply' \in [Requests -> Reply]
         /\ keyLock' \in [Keys -> Requests \cup {NoHolder}]
         /\ sharing' \subseteq Requests /\ rowLock' \in Requests \cup {NoHolder}
         /\ stage'[r] = "ended" /\ reply'[r] = reason
         /\ \A s \in Requests \ {r} :
              /\ stage'[s] = stage[s] /\ reply'[s] = reply[s]
              /\ s \in sharing' <=> s \in sharing
              /\ rowLock = s => rowLock' = s
              /\ \A k \in Keys : keyLock[k] = s => keyLock'[k] = s
         /\ r \notin sharing'
  BY DEF CommandTypeOK, End, Proceed

-----------------------------------------------------------------------------
\* Every step keeps the types.
LEMMA TypeStep == CommandTypeOK /\ [CommandNext]_commandVars => CommandTypeOK'
  <1> SUFFICES ASSUME CommandTypeOK, [CommandNext]_commandVars PROVE CommandTypeOK'
    OBVIOUS
  <1> USE DEF dataVars, lockVars, clientVars
  <1>0. /\ \A r \in Requests : KeyOf(r) \in Keys /\ InputOf(r) \in Input
        /\ \A w \in Writes : <<w, 1>> \in Requests /\ <<w, 2>> \in Requests
    BY OfWrite, RequestParts
  <1>1. ASSUME NEW r \in Requests, TryKeyLock(r) PROVE CommandTypeOK'
    BY <1>0, <1>1 DEF TryKeyLock, CommandTypeOK, Proceed, Handling
  <1>2. ASSUME NEW r \in Requests, Authorise(r) PROVE CommandTypeOK'
    <2>1. CASE \E answer \in Reply : End(r, answer)
      BY <1>2, <2>1, Ended DEF Authorise, CommandTypeOK
    <2>2. CASE Proceed(r, "authorised") /\ sharing' = sharing \cup {r}
               /\ UNCHANGED <<keyLock, rowLock, reply>>
      BY <1>2, <2>2 DEF Authorise, CommandTypeOK, Proceed, Handling
    <2> QED
      BY <1>2, <2>1, <2>2 DEF Authorise, Reply
  <1>3. ASSUME NEW r \in Requests, LookUp(r) PROVE CommandTypeOK'
    <2>1. CASE \E answer \in Reply : End(r, answer)
      BY <1>3, <2>1, Ended DEF LookUp, CommandTypeOK
    <2>2. CASE Proceed(r, "looked") /\ UNCHANGED <<lockVars, reply>>
      BY <1>3, <2>2 DEF LookUp, CommandTypeOK, Proceed, Handling
    <2> QED
      BY <1>3, <2>1, <2>2 DEF LookUp, Reply
  <1>4. ASSUME NEW r \in Requests, LockTarget(r) PROVE CommandTypeOK'
    <2>1. CASE \E answer \in Reply : End(r, answer)
      BY <1>4, <2>1, Ended DEF LockTarget, CommandTypeOK
    <2>2. CASE Proceed(r, "holding") /\ rowLock' = r /\ UNCHANGED <<keyLock, sharing, reply>>
      BY <1>4, <2>2 DEF LockTarget, CommandTypeOK, Proceed, Handling
    <2> QED
      BY <1>4, <2>1, <2>2 DEF LockTarget, Reply
  <1>5. ASSUME NEW r \in Requests, Commit(r) PROVE CommandTypeOK'
    <2>1. End(r, "applied") /\ "applied" \in Reply
      BY <1>5 DEF Commit, Reply
    <2>2. [input |-> InputOf(r), request |-> r] \in Receipt
      BY <1>0 DEF Receipt
    <2>3. journal' \in [Keys -> Receipt \cup {NoRow}]
      BY <1>5, <2>2 DEF Commit, CommandTypeOK
    <2>4. effects' \subseteq Requests /\ revision' \in Nat
      BY <1>5 DEF Commit, CommandTypeOK
    <2> QED
      BY <1>5, <2>1, <2>3, <2>4, Ended DEF Commit, CommandTypeOK
  <1>6. ASSUME NEW r \in Requests, RefuseCommand(r) PROVE CommandTypeOK'
    BY <1>6, Ended DEF RefuseCommand, CommandTypeOK, Reply
  <1>7. ASSUME NEW r \in Requests, Fail(r) PROVE CommandTypeOK'
    BY <1>7, Ended DEF Fail, CommandTypeOK, Reply
  <1>8. ASSUME NEW w \in Writes, Send(w) PROVE CommandTypeOK'
    <2>1. PICK k \in Keys, body \in Inputs, expected \in {NoMatch, revision} :
            /\ key' = [key EXCEPT ![w] = k]
            /\ input' = [input EXCEPT ![w] = [body |-> body, expected |-> expected]]
      BY <1>8 DEF Send
    <2>2. [body |-> body, expected |-> expected] \in Input
      BY DEF Input, CommandTypeOK
    <2>3. key' \in [Writes -> Keys] /\ input' \in [Writes -> Input]
      BY <2>1, <2>2 DEF CommandTypeOK
    <2>4. stage' \in [Requests -> Handling \cup {"unsent", "sent", "ended"}]
      BY <1>0, <1>8 DEF Send, Proceed, CommandTypeOK
    <2>5. /\ client' \in [Writes -> {"idle", "waiting", "done"}]
          /\ sends' \in [Writes -> 0..2]
          /\ \A v \in Writes : client'[v] = "idle" <=> sends'[v] = 0
      BY <1>8 DEF Send, CommandTypeOK
    <2> QED
      BY <1>8, <2>3, <2>4, <2>5 DEF Send, CommandTypeOK
  <1>9. ASSUME NEW w \in Writes, Hear(w) PROVE CommandTypeOK'
    <2> DEFINE answer == reply[<<w, sends[w]>>]
    <2>0. sends[w] \in {1, 2}
      BY <1>9 DEF Hear, CommandTypeOK
    <2>1. answer \in Reply /\ answer # "none"
      BY <1>9, <2>0, RequestParts DEF Hear, CommandTypeOK
    <2>2. Meaning(answer) \in Outcome
      BY <2>1 DEF Meaning, Outcome, Reply
    <2>3. CommandTypeOK /\ Tell(w, Meaning(answer)) /\ client[w] = "waiting"
      BY <1>9 DEF Hear
    <2>4. Tell(w, Meaning(answer)) => CommandTypeOK'
      BY <2>2, <2>3 DEF Tell, CommandTypeOK
    <2> QED
      BY <2>3, <2>4
  <1>10. ASSUME NEW w \in Writes, SendAgain(w) PROVE CommandTypeOK'
    <2>1. stage' \in [Requests -> Handling \cup {"unsent", "sent", "ended"}]
      BY <1>0, <1>10 DEF SendAgain, Proceed, CommandTypeOK
    <2>2. sends' \in [Writes -> 0..2] /\ \A v \in Writes : client'[v] = "idle" <=> sends'[v] = 0
      BY <1>10 DEF SendAgain, CommandTypeOK
    <2> QED
      BY <1>10, <2>1, <2>2 DEF SendAgain, CommandTypeOK
  <1>11. ASSUME NEW w \in Writes, GiveUp(w) PROVE CommandTypeOK'
    BY <1>11 DEF GiveUp, Tell, CommandTypeOK, Outcome
  <1>12. CASE Revoke \/ Restore \/ UNCHANGED commandVars
    BY <1>12 DEF Revoke, Restore, commandVars, CommandTypeOK
  <1> QED
    BY <1>1, <1>2, <1>3, <1>4, <1>5, <1>6, <1>7, <1>8, <1>9, <1>10, <1>11, <1>12
       DEF CommandNext, TransactionStep, ClientStep

\* Everything starts in its type.
LEMMA InitTypes == CommandInit => CommandTypeOK
  BY CommandAssumption DEF CommandInit, CommandTypeOK, Input, Handling, Reply, Outcome

\* Every variable of a command, its transaction and its client keeps to its type.
THEOREM CommandTypeCorrect == CommandSpec => []CommandTypeOK
  BY InitTypes, TypeStep, PTL DEF CommandSpec

-----------------------------------------------------------------------------
(***************************************************************************)
(* The inductive invariant, one lemma for each part.                       *)
(***************************************************************************)
\* What a step of a client other than Send, and a change of authority, keep.
LEMMA LocksStep == CommandInv /\ [CommandNext]_commandVars => LocksHold'
  <1> SUFFICES ASSUME CommandInv, [CommandNext]_commandVars PROVE LocksHold'
    OBVIOUS
  <1>0. CommandTypeOK /\ LocksHold /\ ClientsHold
    BY DEF CommandInv
  <1>a. /\ \A r \in Requests : KeyOf(r) \in Keys /\ InputOf(r) \in Input
        /\ \A r \in Requests : r[1] \in Writes /\ r[2] \in {1, 2} /\ r = <<r[1], r[2]>>
        /\ \A w \in Writes : <<w, 1>> \in Requests /\ <<w, 2>> \in Requests
    BY <1>0, OfWrite, RequestParts
  <1> USE DEF dataVars, lockVars, clientVars
  \* Ending a transaction leaves the others' locks alone.
  <1>b. ASSUME NEW r \in Requests, NEW answer \in Reply, End(r, answer),
               UNCHANGED <<authority, key, input>>,
               \A s \in Requests \ {r} : stage[s] \in {"looked", "holding"} =>
                 journal'[KeyOf(s)] = journal[KeyOf(s)],
               \A s \in Requests \ {r} : stage[s] = "holding" => revision' = revision
        PROVE  LocksHold'
    BY <1>0, <1>a, <1>b, Ended DEF LocksHold, KeyOf, InputOf
  <1>1. ASSUME NEW r \in Requests, TryKeyLock(r) PROVE LocksHold'
    <2>1. \A s \in Requests \ {r} : stage'[s] = stage[s]
      BY <1>0, <1>1 DEF TryKeyLock, CommandTypeOK, Proceed
    <2>2. stage'[r] = "locking" /\ stage[r] = "sent"
      BY <1>0, <1>1 DEF TryKeyLock, CommandTypeOK, Proceed
    <2>3. \A k \in Keys, s \in Requests : keyLock[k] = s => keyLock'[k] = s
      BY <1>0, <1>1, <1>a, CommandAssumption DEF TryKeyLock, CommandTypeOK
    <2>4. UNCHANGED <<authority, revision, journal, sharing, rowLock, key, input>>
      BY <1>1 DEF TryKeyLock
    <2> QED
      BY <1>0, <1>a, <2>1, <2>2, <2>3, <2>4 DEF LocksHold, KeyOf, InputOf
  <1>2. ASSUME NEW r \in Requests, Authorise(r) PROVE LocksHold'
    <2>1. CASE \E answer \in Reply : End(r, answer)
      BY <1>2, <1>b, <2>1 DEF Authorise
    <2>2. CASE /\ authority = "held" /\ keyLock[KeyOf(r)] = r
               /\ Proceed(r, "authorised") /\ sharing' = sharing \cup {r}
               /\ UNCHANGED <<keyLock, rowLock, reply>>
      BY <1>0, <1>2, <1>a, <2>2 DEF Authorise, CommandTypeOK, Proceed, LocksHold, KeyOf, InputOf
    <2> QED
      BY <1>2, <2>1, <2>2 DEF Authorise, Reply
  <1>3. ASSUME NEW r \in Requests, LookUp(r) PROVE LocksHold'
    <2>1. CASE \E answer \in Reply : End(r, answer)
      BY <1>3, <1>b, <2>1 DEF LookUp
    <2>2. CASE journal[KeyOf(r)] = NoRow /\ Proceed(r, "looked") /\ UNCHANGED <<lockVars, reply>>
      BY <1>0, <1>3, <1>a, <2>2 DEF LookUp, CommandTypeOK, Proceed, LocksHold, KeyOf, InputOf
    <2> QED
      BY <1>3, <2>1, <2>2 DEF LookUp, Reply
  <1>4. ASSUME NEW r \in Requests, LockTarget(r) PROVE LocksHold'
    <2>1. CASE \E answer \in Reply : End(r, answer)
      BY <1>4, <1>b, <2>1 DEF LockTarget
    <2>2. CASE /\ InputOf(r).expected \in {NoMatch, revision}
               /\ Proceed(r, "holding") /\ rowLock' = r /\ UNCHANGED <<keyLock, sharing, reply>>
      BY <1>0, <1>4, <1>a, <2>2, CommandAssumption
         DEF LockTarget, CommandTypeOK, Proceed, LocksHold, KeyOf, InputOf
    <2> QED
      BY <1>4, <2>1, <2>2 DEF LockTarget, Reply
  <1>5. ASSUME NEW r \in Requests, Commit(r) PROVE LocksHold'
    <2>1. End(r, "applied") /\ "applied" \in Reply /\ UNCHANGED <<authority, key, input>>
      BY <1>5 DEF Commit, Reply
    <2>2. \A s \in Requests \ {r} : stage[s] # "holding"
      BY <1>0, <1>5 DEF Commit, LocksHold
    <2>3. \A s \in Requests \ {r} : stage[s] = "looked" => KeyOf(s) # KeyOf(r)
      BY <1>0, <1>5 DEF Commit, LocksHold
    <2>4. \A s \in Requests \ {r} : stage[s] \in {"looked", "holding"} =>
            journal'[KeyOf(s)] = journal[KeyOf(s)]
      BY <1>0, <1>5, <1>a, <2>2, <2>3 DEF Commit, CommandTypeOK
    <2> QED
      BY <1>b, <2>1, <2>2, <2>4
  <1>6. ASSUME NEW r \in Requests, RefuseCommand(r) \/ Fail(r) PROVE LocksHold'
    BY <1>6, <1>b DEF RefuseCommand, Fail, Reply
  <1>7. ASSUME NEW w \in Writes, Send(w) PROVE LocksHold'
    <2>1. /\ stage' = [stage EXCEPT ![<<w, 1>>] = "sent"]
          /\ UNCHANGED <<authority, dataVars, lockVars>>
          /\ \A v \in Writes \ {w} : key'[v] = key[v] /\ input'[v] = input[v]
      BY <1>0, <1>7 DEF Send, Proceed, CommandTypeOK
    <2>2. \A n \in {1, 2} : stage[<<w, n>>] = "unsent"
      <3>1. sends[w] = 0
        BY <1>0, <1>7 DEF Send, CommandTypeOK
      <3>2. \A n \in {1, 2} : sends[w] < n
        BY <3>1
      <3> QED
        BY <1>0, <3>2 DEF ClientsHold
    <2>3. \A r \in Requests : stage'[r] \in {"authorised", "looked", "holding"} =>
            stage'[r] = stage[r] /\ r[1] # w
      <3>1. \A r \in Requests : r[1] = w => r = <<w, 1>> \/ r = <<w, 2>>
        BY <1>a
      <3>2. stage'[<<w, 1>>] = "sent" /\ stage'[<<w, 2>>] = "unsent"
        BY <1>0, <1>a, <2>1, <2>2 DEF CommandTypeOK
      <3>3. \A r \in Requests \ {<<w, 1>>} : stage'[r] = stage[r]
        BY <1>0, <1>a, <2>1 DEF CommandTypeOK
      <3> QED
        BY <3>1, <3>2, <3>3
    <2> QED
      BY <1>0, <1>a, <2>1, <2>3 DEF LocksHold, KeyOf, InputOf
  <1>8. ASSUME NEW w \in Writes, SendAgain(w) PROVE LocksHold'
    BY <1>0, <1>8, <1>a DEF SendAgain, Proceed, CommandTypeOK, LocksHold, KeyOf, InputOf
  <1>9. ASSUME NEW w \in Writes, Hear(w) \/ GiveUp(w) PROVE LocksHold'
    BY <1>0, <1>9 DEF Hear, GiveUp, Tell, LocksHold, KeyOf, InputOf
  <1>10. CASE Revoke \/ Restore \/ UNCHANGED commandVars
    BY <1>0, <1>10 DEF Revoke, Restore, commandVars, LocksHold, KeyOf, InputOf
  <1> QED
    BY <1>1, <1>2, <1>3, <1>4, <1>5, <1>6, <1>7, <1>8, <1>9, <1>10
       DEF CommandNext, TransactionStep, ClientStep

\* RepliesHold and ClientsHold of a request.
LEMMA OfRequest ==
  ASSUME CommandInv, NEW r \in Requests
  PROVE  /\ reply[r] # "none" => stage[r] = "ended"
         /\ sends[r[1]] < r[2] => stage[r] = "unsent"
  <1>1. r[1] \in Writes /\ r[2] \in {1, 2} /\ r = <<r[1], r[2]>>
    BY RequestParts
  <1>2. reply[<<r[1], r[2]>>] = "none" <=> stage[<<r[1], r[2]>>] # "ended"
    BY <1>1 DEF CommandInv, RepliesHold
  <1>3. sends[r[1]] < r[2] => stage[<<r[1], r[2]>>] = "unsent"
    BY <1>1 DEF CommandInv, ClientsHold
  <1> QED
    BY <1>1, <1>2, <1>3

\* What is sent has a client that sent it, under a key and input that stay.
LEMMA SentIsKept ==
  ASSUME CommandInv, [CommandNext]_commandVars
  PROVE  /\ \A r \in Requests : stage[r] # "unsent" => client[r[1]] # "idle"
         /\ \A w \in Writes : client[w] # "idle" => key'[w] = key[w] /\ input'[w] = input[w]
  <1>0. CommandTypeOK /\ ClientsHold
    BY DEF CommandInv
  <1>1. \A r \in Requests : stage[r] # "unsent" => client[r[1]] # "idle"
    <2> SUFFICES ASSUME NEW r \in Requests, client[r[1]] = "idle" PROVE stage[r] = "unsent"
      OBVIOUS
    <2>1. sends[r[1]] = 0 /\ r[1] \in Writes /\ r[2] \in {1, 2} /\ r = <<r[1], r[2]>>
      BY <1>0, RequestParts DEF CommandTypeOK
    <2>2. sends[r[1]] < r[2]
      BY <2>1
    <2> QED
      BY <2>2, OfRequest
  <1>2. \A w \in Writes : client[w] # "idle" => key'[w] = key[w] /\ input'[w] = input[w]
    <2>1. CASE \E w \in Writes : Send(w)
      BY <1>0, <2>1 DEF Send, CommandTypeOK
    <2>2. CASE UNCHANGED <<key, input>>
      BY <2>2
    <2> QED
      BY <2>1, <2>2
         DEF CommandNext, commandVars, TransactionStep, ClientStep, clientVars, TryKeyLock, Authorise, LookUp,
             LockTarget, Commit, RefuseCommand, Fail, Hear, SendAgain, GiveUp, Tell, Revoke, Restore
  <1> QED
    BY <1>1, <1>2

\* An answer is given once: only a running transaction ends.
LEMMA RepliesKept ==
  ASSUME CommandInv, [CommandNext]_commandVars
  PROVE  \A r \in Requests : reply[r] # "none" => reply'[r] = reply[r]
  <1>0. CommandTypeOK /\ RepliesHold
    BY DEF CommandInv
  <1>1. \A r \in Requests : reply[r] # "none" => stage[r] = "ended"
    BY OfRequest
  <1>2. ASSUME NEW r \in Requests, NEW answer \in Reply, End(r, answer), stage[r] # "ended"
        PROVE  \A s \in Requests : reply[s] # "none" => reply'[s] = reply[s]
    BY <1>0, <1>1, <1>2, Ended
  <1>3. \/ UNCHANGED reply
        \/ \E r \in Requests, answer \in Reply : stage[r] # "ended" /\ End(r, answer)
    BY DEF CommandNext, commandVars, TransactionStep, ClientStep, lockVars, clientVars, TryKeyLock, Authorise,
           LookUp, LockTarget, Commit, RefuseCommand, Fail, Send, Hear, SendAgain, GiveUp, Tell,
           Revoke, Restore, Reply, Handling
  <1> QED
    BY <1>2, <1>3

\* The data change by a commit alone, of a transaction that holds its locks.
LEMMA DataStep ==
  ASSUME [CommandNext]_commandVars
  PROVE  UNCHANGED dataVars \/ \E r \in Requests : Commit(r)
  BY DEF CommandNext, commandVars, dataVars, TransactionStep, ClientStep, TryKeyLock, Authorise, LookUp,
         LockTarget, RefuseCommand, Fail, Send, Hear, SendAgain, GiveUp, Tell, Revoke, Restore

\* Receipts stay, revisions advance, and what changes the target is what commits.
LEMMA DataAdvance ==
  ASSUME CommandInv, [CommandNext]_commandVars
  PROVE  /\ \A k \in Keys : journal[k] # NoRow => journal'[k] = journal[k]
         /\ revision' \in Nat /\ revision <= revision'
         /\ effects \subseteq effects'
         /\ \A r \in effects' \ effects :
              /\ stage[r] = "holding" /\ reply'[r] = "applied"
              /\ journal'[KeyOf(r)] = [input |-> InputOf(r), request |-> r]
  <1>0. CommandTypeOK
    BY DEF CommandInv
  <1>1. CASE UNCHANGED dataVars
    BY <1>0, <1>1 DEF dataVars, CommandTypeOK
  <1>2. ASSUME NEW r \in Requests, Commit(r)
        PROVE  /\ \A k \in Keys : journal[k] # NoRow => journal'[k] = journal[k]
               /\ revision' \in Nat /\ revision <= revision'
               /\ effects \subseteq effects' /\ effects' \ effects \subseteq {r}
               /\ stage[r] = "holding" /\ reply'[r] = "applied"
               /\ journal'[KeyOf(r)] = [input |-> InputOf(r), request |-> r]
    <2>1. End(r, "applied") /\ "applied" \in Reply
      BY <1>2 DEF Commit, Reply
    <2>2. reply'[r] = "applied"
      BY <1>0, <2>1, Ended
    <2>3. KeyOf(r) \in Keys
      BY <1>0, OfWrite
    <2>4. revision' \in Nat /\ revision <= revision'
      BY <1>0, <1>2 DEF Commit, CommandTypeOK
    <2> QED
      BY <1>0, <1>2, <2>2, <2>3, <2>4 DEF Commit, CommandTypeOK
  <1> QED
    BY <1>1, <1>2, DataStep DEF dataVars

\* The journal holds what was applied, and all that was.
LEMMA JournalStep == CommandInv /\ [CommandNext]_commandVars => JournalHolds'
  <1> SUFFICES ASSUME CommandInv, [CommandNext]_commandVars PROVE JournalHolds'
    OBVIOUS
  <1>0. CommandTypeOK /\ CommandTypeOK' /\ LocksHold /\ JournalHolds /\ RepliesHold
    BY TypeStep DEF CommandInv
  <1>1. \A r \in Requests : stage[r] # "unsent" =>
          /\ key'[r[1]] = key[r[1]] /\ input'[r[1]] = input[r[1]]
    BY SentIsKept, RequestParts
  <1>2. \A r \in Requests : reply[r] = "applied" => stage[r] # "unsent" /\ reply'[r] = "applied"
    BY OfRequest, RepliesKept
  <1>3. ASSUME NEW r \in effects'
        PROVE  reply'[r] = "applied" /\ journal'[KeyOf(r)'] # NoRow /\ journal'[KeyOf(r)'].request = r
    <2>1. r \in Requests /\ KeyOf(r) \in Keys
      BY <1>0, <1>3, OfWrite DEF CommandTypeOK
    <2>2. CASE r \in effects
      <3>1. reply[r] = "applied" /\ journal[KeyOf(r)] # NoRow /\ journal[KeyOf(r)].request = r
        BY <1>0, <2>2 DEF JournalHolds
      <3>2. reply'[r] = "applied" /\ KeyOf(r)' = KeyOf(r)
        BY <1>1, <1>2, <2>1, <3>1 DEF KeyOf
      <3>3. journal'[KeyOf(r)] = journal[KeyOf(r)]
        BY <2>1, <3>1, DataAdvance
      <3> QED
        BY <3>1, <3>2, <3>3
    <2>3. CASE r \notin effects
      <3>1. /\ stage[r] = "holding" /\ reply'[r] = "applied"
            /\ journal'[KeyOf(r)] = [input |-> InputOf(r), request |-> r]
        BY <1>3, <2>3, DataAdvance
      <3>2. KeyOf(r)' = KeyOf(r)
        BY <1>1, <2>1, <3>1 DEF KeyOf
      <3>3. [input |-> InputOf(r), request |-> r] \in Receipt
        BY <1>0, <2>1, OfWrite DEF Receipt
      <3> QED
        BY <3>1, <3>2, <3>3, CommandAssumption
    <2> QED
      BY <2>2, <2>3
  <1>4. ASSUME NEW k \in Keys, journal'[k] # NoRow
        PROVE  /\ key'[journal'[k].request[1]] = k
               /\ reply'[journal'[k].request] = "applied"
               /\ journal'[k].input = input'[journal'[k].request[1]]
    <2>1. CASE journal[k] # NoRow
      <3> DEFINE q == journal[k].request
      <3>1. q \in Requests /\ journal'[k] = journal[k]
        BY <1>0, <2>1, DataAdvance DEF CommandTypeOK, Receipt
      <3>2. key[q[1]] = k /\ reply[q] = "applied" /\ journal[k].input = input[q[1]]
        BY <1>0, <2>1 DEF JournalHolds, KeyOf, InputOf
      <3>3. key'[q[1]] = key[q[1]] /\ input'[q[1]] = input[q[1]] /\ reply'[q] = "applied"
        BY <1>1, <1>2, <3>1, <3>2
      <3> QED
        BY <3>1, <3>2, <3>3
    <2>2. CASE journal[k] = NoRow
      <3>1. PICK r \in Requests : Commit(r)
        BY <1>4, <2>2, DataStep DEF dataVars
      <3>2. k = KeyOf(r) /\ journal'[k] = [input |-> InputOf(r), request |-> r]
        BY <1>0, <1>4, <2>2, <3>1 DEF Commit, CommandTypeOK
      <3>3. reply'[r] = "applied" /\ stage[r] = "holding"
        BY <1>0, <3>1, Ended DEF Commit, Reply
      <3>4. key'[r[1]] = key[r[1]] /\ input'[r[1]] = input[r[1]]
        BY <1>1, <3>3
      <3> QED
        BY <3>2, <3>3, <3>4 DEF KeyOf, InputOf
    <2> QED
      BY <2>1, <2>2
  <1> QED
    <2>1. \A r \in effects' :
            reply'[r] = "applied" /\ journal'[KeyOf(r)'] # NoRow /\ journal'[KeyOf(r)'].request = r
      BY <1>3
    <2>2. \A k \in Keys : journal'[k] # NoRow =>
            /\ key'[journal'[k].request[1]] = k
            /\ reply'[journal'[k].request] = "applied"
            /\ journal'[k].input = input'[journal'[k].request[1]]
      BY <1>4
    <2> QED
      BY <2>1, <2>2 DEF JournalHolds, KeyOf, InputOf

-----------------------------------------------------------------------------
\* What a client has heard stays true: its receipt is journalled for good, and
\* a write that was too late is never applied.
LEMMA HeardIsKept ==
  ASSUME CommandInv, [CommandNext]_commandVars, NEW w \in Writes, client[w] # "idle"
  PROVE  /\ Received(w) => Received(w)'
         /\ Late(w) => Late(w)'
  <1>0. CommandTypeOK /\ LocksHold
    BY DEF CommandInv
  <1>1. key'[w] = key[w] /\ input'[w] = input[w] /\ key[w] \in Keys /\ input[w] \in Input
    BY <1>0, SentIsKept DEF CommandTypeOK
  <1>2. Received(w) => Received(w)'
    BY <1>1, DataAdvance DEF Received
  <1>3. ASSUME Late(w) PROVE Late(w)'
    <2>1. input[w].expected \in Nat /\ input[w].expected < revision
      BY <1>1, <1>3 DEF Late, Input
    <2>2. input'[w].expected < revision'
      BY <1>0, <1>1, <2>1, DataAdvance DEF CommandTypeOK
    <2>3. ASSUME NEW n \in {1, 2} PROVE <<w, n>> \notin effects'
      <3> DEFINE r == <<w, n>>
      <3>1. r \in Requests /\ InputOf(r) = input[w] /\ r \notin effects
        BY <1>0, <1>3, <2>3, OfWrite, RequestParts DEF Late
      <3>2. stage[r] = "holding" => InputOf(r).expected \in {NoMatch, revision}
        BY <1>0, <3>1 DEF LocksHold
      <3>3. InputOf(r).expected # NoMatch /\ InputOf(r).expected # revision
        BY <1>0, <1>3, <2>1, <3>1 DEF Late, CommandTypeOK
      <3>4. stage[r] # "holding"
        BY <3>2, <3>3
      <3> QED
        BY <3>1, <3>4, DataAdvance
    <2> QED
      BY <1>1, <1>3, <2>2, <2>3 DEF Late
  <1> QED
    BY <1>2, <1>3

\* What an answer says holds when it is given.
LEMMA AnswersAreTrue ==
  ASSUME CommandInv, [CommandNext]_commandVars, NEW r \in Requests, reply'[r] # reply[r]
  PROVE  /\ reply'[r] \in {"applied", "replayed"} => Received(r[1])'
         /\ reply'[r] = "stale" => Late(r[1])'
  <1>0. /\ CommandTypeOK /\ LocksHold /\ JournalHolds /\ ClientsHold
        /\ r[1] \in Writes /\ r[2] \in {1, 2} /\ r = <<r[1], r[2]>>
        /\ KeyOf(r) \in Keys /\ InputOf(r) \in Input
    BY RequestParts, OfWrite DEF CommandInv
  <1>1. ASSUME NEW s \in Requests, NEW answer \in Reply, End(s, answer)
        PROVE  s = r /\ reply'[r] = answer
    BY <1>0, <1>1, Ended
  <1>2. ASSUME NEW s \in Requests, LookUp(s)
        PROVE  /\ reply'[r] \in {"applied", "replayed"} => Received(r[1])'
               /\ reply'[r] # "stale"
    <2>1. /\ journal[KeyOf(s)] # NoRow
          /\ End(s, IF journal[KeyOf(s)].input = InputOf(s) THEN "replayed" ELSE "reused")
          /\ UNCHANGED <<journal, key, input>>
      BY <1>2 DEF LookUp, lockVars, dataVars, clientVars
    <2>2. s = r /\ reply'[r] = IF journal[KeyOf(s)].input = InputOf(s) THEN "replayed" ELSE "reused"
      BY <1>1, <2>1 DEF Reply
    <2> QED
      BY <2>1, <2>2 DEF Received, KeyOf, InputOf
  <1>3. ASSUME NEW s \in Requests, LockTarget(s)
        PROVE  reply'[r] = "stale" /\ Late(r[1])'
    <2>1. /\ stage[s] = "looked" /\ InputOf(s).expected \notin {NoMatch, revision}
          /\ End(s, "stale") /\ UNCHANGED <<revision, effects, input>>
      BY <1>3 DEF LockTarget, lockVars, dataVars, clientVars
    <2>2. s = r /\ reply'[r] = "stale"
      BY <1>1, <2>1 DEF Reply
    <2>3. input[r[1]].expected # NoMatch /\ input[r[1]].expected < revision
      <3>1. input[r[1]].expected \in Nat /\ input[r[1]].expected # revision
        BY <1>0, <2>1, <2>2 DEF InputOf, Input
      <3>2. input[r[1]].expected <= revision
        BY <1>0, <2>1, <2>2 DEF ClientsHold, InputOf
      <3> QED
        BY <1>0, <2>1, <2>2, <3>1, <3>2 DEF CommandTypeOK, InputOf
    <2>4. ASSUME NEW n \in {1, 2} PROVE <<r[1], n>> \notin effects
      <3>1. journal[key[r[1]]] = NoRow
        BY <1>0, <2>1, <2>2 DEF LocksHold, KeyOf
      <3>2. KeyOf(<<r[1], n>>) = key[r[1]]
        BY <1>0, <2>4, OfWrite
      <3> QED
        BY <1>0, <3>1, <3>2 DEF JournalHolds
    <2> QED
      BY <2>1, <2>2, <2>3, <2>4 DEF Late
  <1>4. ASSUME NEW s \in Requests, Commit(s)
        PROVE  reply'[r] = "applied" /\ Received(r[1])'
    <2>1. s = r /\ reply'[r] = "applied"
      BY <1>1, <1>4 DEF Commit, Reply
    <2>2. journal'[key[r[1]]] = [input |-> input[r[1]], request |-> r] /\ UNCHANGED <<key, input>>
      BY <1>0, <1>4, <2>1 DEF Commit, CommandTypeOK, KeyOf, InputOf, clientVars
    <2>3. [input |-> input[r[1]], request |-> r] \in Receipt
      BY <1>0 DEF Receipt, InputOf
    <2> QED
      BY <2>1, <2>2, <2>3, CommandAssumption DEF Received
  <1>5. ASSUME NEW s \in Requests, Authorise(s) \/ RefuseCommand(s) \/ Fail(s)
        PROVE  reply'[r] \notin {"applied", "replayed", "stale"}
    <2>1. End(s, "denied") \/ End(s, "in_progress") \/ End(s, "refused") \/ End(s, "failed")
      BY <1>5 DEF Authorise, RefuseCommand, Fail
    <2> QED
      BY <1>1, <2>1 DEF Reply
  <1>6. ~ UNCHANGED reply
    OBVIOUS
  <1> QED
    BY <1>2, <1>3, <1>4, <1>5, <1>6
       DEF CommandNext, commandVars, TransactionStep, ClientStep, TryKeyLock, Send, Hear, SendAgain, GiveUp,
           Tell, Revoke, Restore

\* How a request moves: it is sent, goes on without an answer, or ends with one.
LEMMA PcStep ==
  ASSUME CommandInv, [CommandNext]_commandVars
  PROVE  \/ UNCHANGED <<stage, reply>>
         \/ \E r \in Requests, step \in Handling :
              stage[r] \notin {"unsent", "ended"} /\ Proceed(r, step) /\ UNCHANGED <<reply, sends>>
         \/ \E r \in Requests, answer \in Reply \ {"none"} :
              stage[r] \notin {"unsent", "ended"} /\ End(r, answer) /\ UNCHANGED sends
         \/ \E w \in Writes : (Send(w) \/ SendAgain(w)) /\ UNCHANGED reply
  <1>1. ASSUME NEW r \in Requests, TransactionStep(r)
        PROVE  /\ stage[r] \notin {"unsent", "ended"} /\ UNCHANGED sends
               /\ \/ \E step \in Handling : Proceed(r, step) /\ UNCHANGED reply
                  \/ \E answer \in Reply \ {"none"} : End(r, answer)
    BY <1>1 DEF TransactionStep, lockVars, clientVars, TryKeyLock, Authorise, LookUp, LockTarget,
                Commit, RefuseCommand, Fail, Reply, Handling
  <1>2. ASSUME NEW w \in Writes, ClientStep(w)
        PROVE  UNCHANGED <<stage, reply>> \/ ((Send(w) \/ SendAgain(w)) /\ UNCHANGED reply)
    BY <1>2 DEF ClientStep, Send, Hear, SendAgain, GiveUp, Tell
  <1>3. ASSUME Revoke \/ Restore \/ UNCHANGED commandVars PROVE UNCHANGED <<stage, reply>>
    BY <1>3 DEF Revoke, Restore, commandVars
  <1> QED
    BY <1>1, <1>2, <1>3 DEF CommandNext

\* What a request is answered stays true.
LEMMA RepliesStep == CommandInv /\ [CommandNext]_commandVars => RepliesHold'
  <1> SUFFICES ASSUME CommandInv, [CommandNext]_commandVars, NEW w \in Writes, NEW n \in {1, 2}
               PROVE  /\ reply'[<<w, n>>] = "none" <=> stage'[<<w, n>>] # "ended"
                      /\ reply'[<<w, n>>] \in {"applied", "replayed"} => Received(w)'
                      /\ reply'[<<w, n>>] = "stale" => Late(w)'
    BY DEF RepliesHold
  <1> DEFINE r == <<w, n>>
  <1>0. CommandTypeOK /\ RepliesHold /\ r \in Requests /\ r[1] = w /\ r[2] = n
    BY RequestParts DEF CommandInv
  <1>1. reply[r] = "none" <=> stage[r] # "ended"
    BY <1>0 DEF RepliesHold
  <1>2. reply'[r] = "none" <=> stage'[r] # "ended"
    <2>1. CASE UNCHANGED <<stage, reply>>
      BY <1>1, <2>1
    <2>2. ASSUME NEW s \in Requests, NEW step \in Handling, stage[s] # "ended",
                 Proceed(s, step), UNCHANGED reply
          PROVE  reply'[r] = "none" <=> stage'[r] # "ended"
      BY <1>0, <1>1, <2>2 DEF Proceed, CommandTypeOK, Handling
    <2>3. ASSUME NEW s \in Requests, NEW answer \in Reply \ {"none"}, End(s, answer)
          PROVE  reply'[r] = "none" <=> stage'[r] # "ended"
      BY <1>0, <1>1, <2>3, Ended
    <2>4. ASSUME NEW v \in Writes, Send(v) \/ SendAgain(v), UNCHANGED reply
          PROVE  reply'[r] = "none" <=> stage'[r] # "ended"
      <3>1. PICK s \in Requests : stage[s] = "unsent" /\ stage' = [stage EXCEPT ![s] = "sent"]
        <4>1. sends[v] \in 0..2 /\ (client[v] = "idle" <=> sends[v] = 0)
          BY <1>0 DEF CommandTypeOK
        <4>2. \A m \in {1, 2} : <<v, m>> \in Requests /\ (sends[v] < m => stage[<<v, m>>] = "unsent")
          BY ZenonT(30), RequestParts DEF CommandInv, ClientsHold
        <4>3. CASE Send(v)
          <5>1. sends[v] < 1 /\ stage' = [stage EXCEPT ![<<v, 1>>] = "sent"]
            BY <4>1, <4>3 DEF Send, Proceed
          <5> QED
            BY <4>2, <5>1
        <4>4. CASE SendAgain(v)
          <5>1. sends[v] < 2 /\ stage' = [stage EXCEPT ![<<v, 2>>] = "sent"]
            BY <4>1, <4>4 DEF SendAgain, Proceed
          <5> QED
            BY <4>2, <5>1
        <4> QED
          BY <2>4, <4>3, <4>4
      <3> QED
        BY <1>0, <1>1, <2>4, <3>1 DEF CommandTypeOK
    <2> QED
      BY <2>1, <2>2, <2>3, <2>4, PcStep
  <1>3. CASE reply'[r] # reply[r]
    BY <1>0, <1>2, <1>3, AnswersAreTrue
  <1>4. CASE reply'[r] = reply[r] /\ reply[r] # "none"
    <2>1. client[w] # "idle"
      BY <1>0, <1>4, OfRequest, SentIsKept
    <2>2. /\ reply[r] \in {"applied", "replayed"} => Received(w)
          /\ reply[r] = "stale" => Late(w)
      BY <1>0 DEF RepliesHold
    <2> QED
      BY <1>2, <1>4, <2>1, <2>2, HeardIsKept
  <1>5. CASE reply'[r] = reply[r] /\ reply[r] = "none"
    BY <1>2, <1>5
  <1> QED
    BY <1>3, <1>4, <1>5

\* Which of a client's steps change what it keeps.
LEMMA ClientKept ==
  ASSUME CommandTypeOK, [CommandNext]_commandVars, NEW w \in Writes
  PROVE  /\ ~ Send(w) => input'[w] = input[w]
         /\ ~ Send(w) /\ ~ SendAgain(w) => sends'[w] = sends[w]
         /\ ~ Hear(w) /\ ~ GiveUp(w) => outcome'[w] = outcome[w]
  <1>1. UNCHANGED clientVars \/ \E v \in Writes : ClientStep(v)
    BY DEF CommandNext, commandVars, TransactionStep, clientVars, TryKeyLock, Authorise, LookUp, LockTarget,
           Commit, RefuseCommand, Fail, Revoke, Restore
  <1>2. CASE UNCHANGED clientVars
    BY <1>2 DEF clientVars
  <1>3. ASSUME NEW v \in Writes, Send(v)
        PROVE  outcome' = outcome /\ (v # w => input'[w] = input[w] /\ sends'[w] = sends[w])
    BY <1>3 DEF Send, CommandTypeOK
  <1>4. ASSUME NEW v \in Writes, SendAgain(v)
        PROVE  outcome' = outcome /\ input' = input /\ (v # w => sends'[w] = sends[w])
    BY <1>4 DEF SendAgain, CommandTypeOK
  <1>5. ASSUME NEW v \in Writes, Hear(v) \/ GiveUp(v)
        PROVE  input' = input /\ sends' = sends /\ (v # w => outcome'[w] = outcome[w])
    BY <1>5 DEF Hear, GiveUp, Tell, CommandTypeOK
  <1>6. ASSUME NEW v \in Writes, ClientStep(v), v # w
        PROVE  input'[w] = input[w] /\ sends'[w] = sends[w] /\ outcome'[w] = outcome[w]
    BY <1>3, <1>4, <1>5, <1>6 DEF ClientStep
  <1>7. CASE ClientStep(w)
    BY <1>3, <1>4, <1>5, <1>7 DEF ClientStep
  <1> QED
    BY <1>1, <1>2, <1>6, <1>7

\* A write that has its outcome sends nothing more.
LEMMA DoneIsDone ==
  ASSUME CommandTypeOK, [CommandNext]_commandVars, NEW w \in Writes, client[w] = "done"
  PROVE  client'[w] = "done" /\ sends'[w] = sends[w]
  <1>1. UNCHANGED clientVars \/ \E v \in Writes : ClientStep(v)
    BY DEF CommandNext, commandVars, TransactionStep, clientVars, TryKeyLock, Authorise, LookUp, LockTarget,
           Commit, RefuseCommand, Fail, Revoke, Restore
  <1>2. CASE UNCHANGED clientVars
    BY <1>2 DEF clientVars
  <1>3. ASSUME NEW v \in Writes, Send(v) PROVE client'[w] = "done" /\ sends'[w] = sends[w]
    BY <1>3 DEF Send, CommandTypeOK
  <1>4. ASSUME NEW v \in Writes, SendAgain(v) PROVE client'[w] = "done" /\ sends'[w] = sends[w]
    BY <1>4 DEF SendAgain, CommandTypeOK
  <1>5. ASSUME NEW v \in Writes, Hear(v) \/ GiveUp(v)
        PROVE  client'[w] = "done" /\ sends'[w] = sends[w]
    BY <1>5 DEF Hear, GiveUp, Tell, CommandTypeOK
  <1> QED
    BY <1>1, <1>2, <1>3, <1>4, <1>5 DEF ClientStep

\* What a write's caller is told stays true.
LEMMA ClientsStep == CommandInv /\ [CommandNext]_commandVars => ClientsHold'
  <1> SUFFICES ASSUME CommandInv, [CommandNext]_commandVars, NEW w \in Writes
               PROVE  /\ input'[w].expected # NoMatch => input'[w].expected <= revision'
                      /\ \A n \in {1, 2} : sends'[w] < n => stage'[<<w, n>>] = "unsent"
                      /\ outcome'[w] # "none" => client'[w] = "done"
                      /\ outcome'[w] = "receipt" => Received(w)'
                      /\ outcome'[w] = "INTENT_STALE" => Late(w)'
                      /\ outcome'[w] = "UPSTREAM_REJECTED" /\ sends'[w] = 1 =>
                           reply'[<<w, 1>>] \in {"denied", "refused", "reused"}
    BY DEF ClientsHold
  <1>0. /\ CommandTypeOK /\ CommandTypeOK' /\ ClientsHold /\ RepliesHold
        /\ \A n \in {1, 2} : <<w, n>> \in Requests /\ <<w, n>>[1] = w /\ <<w, n>>[2] = n
    BY TypeStep, RequestParts DEF CommandInv
  <1>1. input'[w].expected # NoMatch => input'[w].expected <= revision'
    <2>1. CASE \E v \in Writes : Send(v) /\ v = w
      <3>1. input'[w].expected \in {NoMatch, revision} /\ revision' = revision /\ revision \in Nat
        BY <1>0, <2>1 DEF Send, CommandTypeOK, dataVars
      <3> QED
        BY <3>1
    <2>2. CASE ~ \E v \in Writes : Send(v) /\ v = w
      <3>1. input'[w] = input[w]
        BY <1>0, <2>2, ClientKept
      <3>2. input[w].expected # NoMatch =>
              input[w].expected \in Nat /\ input[w].expected <= revision
        BY <1>0 DEF CommandTypeOK, ClientsHold, Input
      <3>3. revision \in Nat /\ revision' \in Nat /\ revision <= revision'
        BY <1>0, DataAdvance DEF CommandTypeOK
      <3> QED
        BY <3>1, <3>2, <3>3
    <2> QED
      BY <2>1, <2>2
  <1>2. ASSUME NEW n \in {1, 2}, sends'[w] < n PROVE stage'[<<w, n>>] = "unsent"
    <2> DEFINE r == <<w, n>>
    <2>1. sends[w] \in 0..2 /\ sends'[w] \in 0..2 /\ (client[w] = "idle" <=> sends[w] = 0)
      BY <1>0 DEF CommandTypeOK
    <2>2. sends[w] < n => stage[r] = "unsent"
      BY <1>0 DEF ClientsHold
    <2>3. CASE sends'[w] = sends[w]
      <3>1. stage[r] = "unsent"
        BY <1>2, <2>2, <2>3
      <3>2. ASSUME NEW v \in Writes, Send(v) \/ SendAgain(v) PROVE v # w
        BY <1>0, <2>1, <2>3, <3>2 DEF Send, SendAgain, CommandTypeOK
      <3>3. ASSUME NEW v \in Writes, Send(v) \/ SendAgain(v) PROVE stage'[r] = stage[r]
        <4>1. \E m \in {1, 2} : stage' = [stage EXCEPT ![<<v, m>>] = "sent"]
          BY <3>3 DEF Send, SendAgain, Proceed
        <4>2. \A m \in {1, 2} : <<v, m>> # r
          BY <3>2, <3>3
        <4> QED
          BY <1>0, <4>1, <4>2 DEF CommandTypeOK
      <3>4. ASSUME NEW s \in Requests, stage[s] # "unsent",
                   (\E step \in Handling : Proceed(s, step)) \/ (\E answer \in Reply : End(s, answer))
            PROVE  stage'[r] = stage[r]
        BY <1>0, <3>1, <3>4 DEF Proceed, End, CommandTypeOK
      <3> QED
        BY <3>1, <3>3, <3>4, PcStep
    <2>4. CASE sends'[w] # sends[w]
      <3>1. Send(w) \/ SendAgain(w)
        BY <1>0, <2>4, ClientKept
      <3>2. /\ sends'[w] = 1 /\ stage' = [stage EXCEPT ![<<w, 1>>] = "sent"] /\ sends[w] = 0
            \/ sends'[w] = 2
        BY <1>0, <2>1, <3>1 DEF Send, SendAgain, Proceed, CommandTypeOK
      <3>3. sends'[w] = 1 /\ n = 2
        BY <1>2, <2>1, <3>2
      <3>4. stage[r] = "unsent" /\ r # <<w, 1>>
        BY <2>2, <3>2, <3>3
      <3> QED
        BY <1>0, <3>2, <3>3, <3>4 DEF CommandTypeOK
    <2> QED
      BY <2>3, <2>4
  <1>3. CASE Hear(w)
    <2> DEFINE r == <<w, sends[w]>>
               answer == reply[r]
    <2>1. /\ client[w] = "waiting" /\ answer # "none" /\ client'[w] = "done"
          /\ outcome'[w] = Meaning(answer) /\ sends' = sends /\ reply' = reply
      BY <1>0, <1>3 DEF Hear, Tell, CommandTypeOK
    <2>2. sends[w] \in {1, 2}
      BY <1>0, <2>1 DEF CommandTypeOK
    <2>3. /\ answer \in {"applied", "replayed"} => Received(w)
          /\ answer = "stale" => Late(w)
      BY <1>0, <2>2 DEF RepliesHold
    <2>4. answer \in Reply \ {"none"}
      BY <1>0, <2>1, <2>2 DEF CommandTypeOK
    <2>5. /\ Meaning(answer) = "receipt" => answer \in {"applied", "replayed"}
          /\ Meaning(answer) = "INTENT_STALE" => answer = "stale"
          /\ Meaning(answer) = "UPSTREAM_REJECTED" => answer \in {"denied", "refused", "reused"}
      BY <2>4 DEF Meaning, Reply
    <2>6. client[w] # "idle"
      BY <2>1
    <2> QED
      BY <1>1, <1>2, <2>1, <2>3, <2>5, <2>6, HeardIsKept
  <1>4. CASE GiveUp(w)
    <2>1. outcome'[w] = "UPSTREAM_UNAVAILABLE" /\ client'[w] = "done"
      BY <1>0, <1>4 DEF GiveUp, Tell, CommandTypeOK
    <2> QED
      BY <1>1, <1>2, <2>1
  <1>5. CASE ~ Hear(w) /\ ~ GiveUp(w)
    <2>1. outcome'[w] = outcome[w]
      BY <1>0, <1>5, ClientKept
    <2>2. CASE outcome[w] = "none"
      BY <1>1, <1>2, <2>1, <2>2
    <2>3. CASE outcome[w] # "none"
      <3>1. client[w] = "done" /\ client[w] # "idle"
        BY <1>0, <2>3 DEF ClientsHold
      <3>2. client'[w] = "done" /\ sends'[w] = sends[w]
        BY <1>0, <3>1, DoneIsDone
      <3>3. reply[<<w, 1>>] # "none" => reply'[<<w, 1>>] = reply[<<w, 1>>]
        BY <1>0, RepliesKept
      <3>4. /\ outcome[w] = "receipt" => Received(w)
            /\ outcome[w] = "INTENT_STALE" => Late(w)
            /\ outcome[w] = "UPSTREAM_REJECTED" /\ sends[w] = 1 =>
                 reply[<<w, 1>>] \in {"denied", "refused", "reused"}
        BY <1>0 DEF ClientsHold
      <3> QED
        BY <1>1, <1>2, <2>1, <3>1, <3>2, <3>3, <3>4, HeardIsKept
    <2> QED
      BY <2>2, <2>3
  <1> QED
    BY <1>3, <1>4, <1>5

\* The inductive invariant.
LEMMA Invariance == CommandSpec => []CommandInv
  <1>1. CommandInit => CommandInv
    <2> SUFFICES ASSUME CommandInit PROVE CommandInv
      OBVIOUS
    <2>1. CommandTypeOK
      BY InitTypes
    <2>2. LocksHold /\ JournalHolds
      BY CommandAssumption DEF CommandInit, LocksHold, JournalHolds
    <2>3. RepliesHold /\ ClientsHold
      BY RequestParts DEF CommandInit, RepliesHold, ClientsHold
    <2> QED
      BY <2>1, <2>2, <2>3 DEF CommandInv
  <1>2. CommandInv /\ [CommandNext]_commandVars => CommandInv'
    BY TypeStep, LocksStep, JournalStep, RepliesStep, ClientsStep DEF CommandInv
  <1> QED
    BY <1>1, <1>2, PTL DEF CommandSpec

-----------------------------------------------------------------------------
\* A key changes its target once, however many requests carry it.
THEOREM OneEffectPerKey == CommandSpec => []OncePerKey
  <1>1. CommandInv => OncePerKey
    BY DEF CommandInv, JournalHolds, OncePerKey
  <1> QED
    BY <1>1, Invariance, PTL

\* A caller with a receipt has its own command's, and no other request of the
\* key changed anything.
THEOREM ReceiptsAreOwn == CommandSpec => []ReceiptIsOwn
  <1>1. CommandInv => ReceiptIsOwn
    <2> SUFFICES ASSUME CommandInv, NEW w \in Writes, outcome[w] = "receipt"
                 PROVE  /\ journal[key[w]] # NoRow /\ journal[key[w]].input = input[w]
                        /\ \A r \in effects : KeyOf(r) = key[w] => r = journal[key[w]].request
      BY DEF ReceiptIsOwn
    <2>1. Received(w)
      BY DEF CommandInv, ClientsHold
    <2>2. \A r \in effects : journal[KeyOf(r)].request = r
      BY DEF CommandInv, JournalHolds
    <2> QED
      BY <2>1, <2>2 DEF Received
  <1> QED
    BY <1>1, Invariance, PTL

\* A write told that its revision is stale is applied neither before nor after,
\* by a first request whose answer was lost or by one still on its way.
THEOREM StaleStaysUnapplied == CommandSpec => []StaleIsUnapplied
  <1>1. CommandInv => StaleIsUnapplied
    BY DEF CommandInv, ClientsHold, StaleIsUnapplied, Late
  <1> QED
    BY <1>1, Invariance, PTL

\* A write that ID refuses at its first request is never applied.
THEOREM FirstRefusalsAreFinal == CommandSpec => []FirstRefusalIsFinal
  <1>1. CommandInv => FirstRefusalIsFinal
    <2> SUFFICES ASSUME CommandInv, NEW w \in Writes, NEW n \in {1, 2}, sends[w] = 1,
                        outcome[w] = "UPSTREAM_REJECTED", <<w, n>> \in effects
                 PROVE  FALSE
      BY DEF FirstRefusalIsFinal
    <2>1. <<w, n>> \in Requests /\ reply[<<w, n>>] = "applied"
      BY DEF CommandInv, CommandTypeOK, JournalHolds
    <2>2. CASE n = 1
      BY <2>1, <2>2 DEF CommandInv, ClientsHold
    <2>3. CASE n = 2
      <3>1. sends[w] < 2
        OBVIOUS
      <3>2. stage[<<w, 2>>] = "unsent"
        BY <3>1 DEF CommandInv, ClientsHold
      <3> QED
        BY <2>1, <2>3, <3>2, OfRequest
    <2> QED
      BY <2>2, <2>3
  <1> QED
    BY <1>1, Invariance, PTL

\* Nothing is changed once the caller's authority is revoked.
THEOREM EffectsStayAuthorised == CommandSpec => EffectsAreAuthorised
  <1>1. CommandInv /\ [CommandNext]_commandVars => [effects' # effects => authority = "held"]_commandVars
    <2> SUFFICES ASSUME CommandInv, [CommandNext]_commandVars, effects' # effects PROVE authority = "held"
      OBVIOUS
    <2>1. PICK r \in Requests : Commit(r)
      BY DataStep DEF dataVars
    <2>2. r \in sharing
      BY <2>1 DEF Commit, CommandInv, LocksHold
    <2> QED
      BY <2>2 DEF CommandInv, LocksHold
  <1> QED
    BY <1>1, Invariance, PTL DEF CommandSpec, EffectsAreAuthorised

\* A change with If-Match replaces the very revision its caller read.
THEOREM EffectsFollowRevisions == CommandSpec => EffectsFollowTheirRevision
  <1>1. CommandInv /\ [CommandNext]_commandVars =>
          [\A r \in effects' \ effects : InputOf(r).expected \in {NoMatch, revision}]_commandVars
    <2> SUFFICES ASSUME CommandInv, [CommandNext]_commandVars, NEW r \in effects' \ effects
                 PROVE  InputOf(r).expected \in {NoMatch, revision}
      OBVIOUS
    <2>1. stage[r] = "holding" /\ r \in Requests
      BY TypeStep, DataAdvance DEF CommandInv, CommandTypeOK
    <2> QED
      BY <2>1 DEF CommandInv, LocksHold
  <1> QED
    BY <1>1, Invariance, PTL DEF CommandSpec, EffectsFollowTheirRevision

\* What write of the admin server tells its caller is true of the effects.
THEOREM TrueReplies == CommandSpec => []RepliesAreTrue
  <1>1. ReceiptIsOwn /\ StaleIsUnapplied /\ FirstRefusalIsFinal => RepliesAreTrue
    BY DEF RepliesAreTrue
  <1> QED
    BY <1>1, ReceiptsAreOwn, StaleStaysUnapplied, FirstRefusalsAreFinal, PTL

\* Every effect of a command is authorised and on the revision it expects.
THEOREM DueEffects == CommandSpec => EffectsAreDue
  BY EffectsStayAuthorised, EffectsFollowRevisions DEF EffectsAreDue

-----------------------------------------------------------------------------
(* Enablement *)

\* The step a call runs is the first it has left.
LEMMA CurrentFacts ==
  ASSUME NEW c \in Calls, calls[c].todo \subseteq Steps, Current(c) # "none"
  PROVE /\ Current(c) \in calls[c].todo /\ calls[c].place = "running"
        /\ Current(c) = "catalogue" => calls[c].todo = {"catalogue"}
        /\ Current(c) # "scopes" => "scopes" \notin calls[c].todo
  <1> DEFINE left == {i \in 1..5 : Order[i] \in calls[c].todo}
  <1>1. /\ Order[1] = "scopes" /\ Order[2] = "link" /\ Order[3] = "capability"
        /\ Order[4] = "entitlement" /\ Order[5] = "catalogue"
    BY DEF Order
  <1>2. calls[c].place = "running" /\ left # {}
        /\ Current(c) = Order[CHOOSE i \in left : \A j \in left : i <= j]
    BY DEF Current
  <1>3. \E i \in left : \A j \in left : i <= j
    <2>1. left \subseteq 1..5
      OBVIOUS
    <2> QED
      BY <1>2, <2>1
  <1>4. PICK i \in left : Current(c) = Order[i] /\ \A j \in left : i <= j
    BY <1>2, <1>3
  <1>5. Order[i] \in calls[c].todo
    OBVIOUS
  <1>6. Current(c) # "scopes" => "scopes" \notin calls[c].todo
    BY <1>1, <1>4
  <1>7. Current(c) = "catalogue" => i = 5
    <2>1. i \in {1, 2, 3, 4, 5}
      OBVIOUS
    <2> QED
      BY <1>1, <1>4, <2>1
  <1>8. i = 5 => calls[c].todo = {"catalogue"}
    <2>1. ASSUME i = 5, NEW s \in calls[c].todo PROVE s = "catalogue"
      <3>1. s \in {"scopes", "link", "capability", "entitlement", "catalogue"}
        BY DEF Steps, Enabling, Rows
      <3> QED
        BY <1>1, <1>4, <2>1, <3>1
    <2> QED
      BY <1>1, <1>5, <2>1
  <1> QED
    BY <1>2, <1>4, <1>5, <1>6, <1>7, <1>8

\* A call that has read nothing has its type, and so has one that is past a step.
LEMMA AgainTyped ==
  ASSUME EnablementTypeOK, NEW c \in Calls
  PROVE Again(c) \in Asking /\ [Again(c) EXCEPT !.place = "unfit"] \in Asking
  <1>1. calls[c] \in Asking
    BY DEF EnablementTypeOK
  <1> QED
    BY <1>1 DEF Again, Asked, Asking

LEMMA PastTyped ==
  ASSUME EnablementTypeOK, NEW c \in Calls, NEW step \in Steps, NEW made \in BOOLEAN
  PROVE /\ Past(c, step, made) \in Asking
        /\ step \in Enabling =>
             [Past(c, step, TRUE) EXCEPT !.etag = 0, !.seen = {}, !.mine = @ \cup {step}] \in Asking
  <1>1. calls[c] \in Asking
    BY DEF EnablementTypeOK
  <1>2. Past(c, step, made) \in Asking /\ Past(c, step, TRUE) \in Asking
    BY <1>1 DEF Past, Asking
  <1> QED
    BY <1>2 DEF Asking

LEMMA GoesTyped ==
  ASSUME EnablementTypeOK, NEW c \in Calls, NEW call \in Asking, Goes(c, call)
  PROVE calls' \in [Calls -> Asking]
  BY DEF EnablementTypeOK, Goes

\* To remember what was undone keeps the type, and grows what is remembered only.
LEMMA UndoneTyped ==
  ASSUME NEW cs \in [Calls -> Asking], NEW p
  PROVE Told(cs, p) \in [Calls -> Asking]
  <1>1. ASSUME NEW c \in Calls PROVE [cs[c] EXCEPT !.undone = @ \cup {"overrides"}] \in Asking
    <2>1. cs[c] \in Asking
      OBVIOUS
    <2> QED
      BY <2>1 DEF Asking
  <1> QED
    BY <1>1 DEF Told

LEMMA StepUndoneTyped ==
  ASSUME EnablementTypeOK, NEW step \in Steps, NEW theirs
  PROVE Undone(step, theirs) \in [Calls -> Asking]
  <1>1. ASSUME NEW c \in Calls PROVE [calls[c] EXCEPT !.undone = @ \cup {step}] \in Asking
    <2>1. calls[c] \in Asking
      BY DEF EnablementTypeOK
    <2> QED
      BY <2>1 DEF Asking
  <1>2. \A c \in Calls : calls[c] \in Asking
    BY DEF EnablementTypeOK
  <1> QED
    BY <1>1, <1>2 DEF Undone

\* A write that ID takes puts its step in place, and takes nothing away.
LEMMA Applied ==
  ASSUME EnablementTypeOK, NEW q, q.step \in Enabling, q.host \in Hosts, q.provider \in Providers,
         Taken(q), AppliedToId(q), q.step = "scopes" => Adds(q.seen, q.etag)
  PROVE /\ rows' \in [Hosts -> [Rows -> {"absent", "fits", "unfit"}]]
        /\ \A h \in Hosts : rows'[h]["link"] # "unfit"
        /\ allowed' \subseteq Scopes /\ allowed \subseteq allowed' /\ etag' \in Nat /\ etag <= etag'
        /\ q.step = "scopes" => rows' = rows /\ q.provider \in allowed' /\ etag' = etag + 1
        /\ q.step # "scopes" => allowed' = allowed /\ rows'[q.host][q.step] = "fits"
        /\ \A h \in Hosts, row \in Rows :
             rows'[h][row] = rows[h][row] \/ (h = q.host /\ row = q.step /\ rows'[h][row] = "fits")
  <1>1. CASE q.step = "scopes"
    <2>1. rows' = rows /\ allowed' = allowed \cup {q.provider} /\ etag' = etag + 1
      BY <1>1 DEF Taken, Matches, AppliedToId, Adds, EnablementTypeOK, Rows
    <2> QED
      BY <1>1, <2>1, EnablementAssumption DEF EnablementTypeOK
  <1>2. CASE q.step \in Rows
    <2>1. /\ rows' = [rows EXCEPT ![q.host][q.step] = "fits"] /\ allowed' = allowed
          /\ etag' = etag \/ etag' = etag + 1
      BY <1>2 DEF AppliedToId, Rows
    <2>2. rows' \in [Hosts -> [Rows -> {"absent", "fits", "unfit"}]]
      BY <1>2, <2>1 DEF EnablementTypeOK
    <2>3. \A h \in Hosts, row \in Rows :
            rows'[h][row] = IF h = q.host /\ row = q.step THEN "fits" ELSE rows[h][row]
      BY <1>2, <2>1 DEF EnablementTypeOK
    <2>4. q.step # "scopes" /\ "link" \in Rows
      BY <1>2 DEF Rows
    <2>5. etag' \in Nat /\ etag <= etag'
      BY <2>1 DEF EnablementTypeOK
    <2> QED
      BY <1>2, <2>1, <2>2, <2>3, <2>4, <2>5 DEF EnablementTypeOK
  <1> QED
    BY <1>1, <1>2 DEF Enabling


\* The requests of a call have their type.
LEMMA RequestTyped ==
  ASSUME EnablementTypeOK, NEW c \in Calls, NEW step \in Enabling, NEW of \in Calls \cup {NoCall}
  PROVE /\ Request(c, step, of) \in IdRequests
        /\ Request(c, step, of).step = step /\ Request(c, step, of).of = of
        /\ Request(c, step, of).host = calls[c].host /\ Request(c, step, of).provider = calls[c].provider
        /\ step = "scopes" => /\ Request(c, step, of).etag = calls[c].etag
                              /\ Request(c, step, of).seen = calls[c].seen
  <1>1. calls[c] \in Asking
    BY DEF EnablementTypeOK
  <1> QED
    BY <1>1 DEF Request, IdRequests, Asking

\* A step that a call writes is one that ID has, and what it asks of the scopes adds to them.
LEMMA WritesTyped ==
  ASSUME EnablementInv, NEW c \in Calls, Current(c) \in Rows \cup {"scopes"},
         NEW of \in Calls \cup {NoCall}
  PROVE LET q == Request(c, Current(c), of) IN
        /\ Current(c) \in Enabling /\ q \in IdRequests /\ q.step = Current(c)
        /\ q.step = "scopes" => Adds(q.seen, q.etag)
  <1>1. Current(c) \in Enabling /\ Current(c) # "none"
    BY DEF Enabling, Rows
  <1>2. EnablementTypeOK /\ calls[c] \in Asking /\ ScopesAreAdded(c)
    BY DEF EnablementInv, CallInv, EnablementTypeOK
  <1>3. Current(c) \in calls[c].todo
    BY <1>1, <1>2, CurrentFacts DEF Asking
  <1> QED
    BY <1>1, <1>2, <1>3, RequestTyped DEF ScopesAreAdded

\* Requests that nobody waits for any more are requests.
LEMMA LeftTyped ==
  ASSUME EnablementTypeOK, NEW c \in Calls
  PROVE Left(c) \subseteq IdRequests
  <1>1. \A q \in late : q \in IdRequests /\ [q EXCEPT !.of = NoCall] \in IdRequests
    BY DEF EnablementTypeOK, IdRequests
  <1> QED
    BY <1>1 DEF Left

LEMMA EnablementTypeStep ==
  ASSUME EnablementInv, [EnablementNext]_enablementVars
  PROVE EnablementTypeOK'
  <1> EnablementTypeOK
    BY DEF EnablementInv
  <1>0. \A c \in Calls : calls[c] \in Asking
    BY DEF EnablementTypeOK
  <1>1. ASSUME NEW c \in Calls, Repeat(c) PROVE EnablementTypeOK'
    <2>1. calls' \in [Calls -> Asking]
      BY <1>1, AgainTyped, GoesTyped DEF Repeat
    <2> QED
      BY <1>1, <2>1 DEF Repeat, EnablementTypeOK
  <1>2. ASSUME NEW c \in Calls, NEW steps \in SUBSET Steps, NEW place, NEW tag \in Nat, NEW names \in SUBSET Scopes,
               place \in {"capability", "entitlement", "catalogue", "checking", "running"}
        PROVE /\ [calls[c] EXCEPT !.place = place, !.todo = Lacking(c, steps)] \in Asking
              /\ [calls[c] EXCEPT !.place = place, !.todo = Lacking(c, steps),
                                  !.etag = tag, !.seen = names] \in Asking
    <2>1. Lacking(c, steps) \in SUBSET Steps
      BY <1>0 DEF Lacking, Asking
    <2>2. calls[c] \in Asking
      BY <1>0
    <2>3. [calls[c] EXCEPT !.place = place, !.todo = Lacking(c, steps)] \in Asking
      BY ONLY <1>2, <2>1, <2>2 DEF Asking
    <2>4. [calls[c] EXCEPT !.place = place, !.todo = Lacking(c, steps), !.etag = tag, !.seen = names] \in Asking
      BY ONLY <1>2, <2>1, <2>2, tag \in Nat, names \in SUBSET Scopes DEF Asking
    <2> QED
      BY <2>3, <2>4
  <1>3. ASSUME NEW c \in Calls, ReadResource(c) PROVE EnablementTypeOK'
    <2>1. \E tag \in Nat, names \in SUBSET Scopes :
            Goes(c, [calls[c] EXCEPT !.place = "capability", !.todo = Lacking(c, {"scopes", "link"}),
                                     !.etag = tag, !.seen = names])
      BY <1>3 DEF ReadResource, EnablementTypeOK
    <2>2. {"scopes", "link"} \in SUBSET Steps
      BY DEF Steps, Enabling, Rows
    <2>3. calls' \in [Calls -> Asking]
      BY <1>2, <2>1, <2>2, GoesTyped
    <2> QED
      BY <1>3, <2>3 DEF ReadResource, Reads, EnablementTypeOK
  <1>4. ASSUME NEW c \in Calls, ReadRows(c) PROVE EnablementTypeOK'
    <2>1. \/ Goes(c, [Again(c) EXCEPT !.place = "unfit"])
          \/ \E next \in {"entitlement", "catalogue", "running", "checking"}, row \in Steps :
               Goes(c, [calls[c] EXCEPT !.place = next, !.todo = Lacking(c, {row})])
      BY <1>4 DEF ReadRows, Steps, Enabling, Rows
    <2>2. calls' \in [Calls -> Asking]
      BY <1>2, <2>1, GoesTyped, AgainTyped
    <2> QED
      BY <1>4, <2>2 DEF ReadRows, Reads, EnablementTypeOK
  <1>5. ASSUME NEW c \in Calls, ReadEntry(c) PROVE EnablementTypeOK'
    <2>1. catalogue[calls[c].provider].disabled \in SUBSET Capabilities /\ "catalogue" \in Steps
      BY <1>0 DEF EnablementTypeOK, Asking, Steps
    <2>2. /\ [calls[c] EXCEPT !.place = "running"] \in Asking
          /\ [calls[c] EXCEPT !.place = "running", !.off = catalogue[calls[c].provider].disabled,
                              !.todo = @ \cup {"catalogue"}] \in Asking
      BY ZenonT(30), <1>0, <2>1 DEF Asking
    <2>3. calls' \in [Calls -> Asking]
      BY <1>5, <2>2, GoesTyped DEF ReadEntry
    <2> QED
      BY <1>5, <2>3 DEF ReadEntry, Reads, EnablementTypeOK
  <1>6. ASSUME NEW c \in Calls, Recheck(c) PROVE EnablementTypeOK'
    <2>1. [calls[c] EXCEPT !.place = "running", !.etag = 0, !.seen = {}] \in Asking
      BY ZenonT(30), <1>0 DEF Asking
    <2>2. calls' \in [Calls -> Asking]
      BY <1>6, <2>1, GoesTyped, AgainTyped DEF Recheck, Fails
    <2> QED
      BY <1>6, <2>2 DEF Recheck, Reads, EnablementTypeOK
  <1>7. ASSUME NEW c \in Calls, Write(c) PROVE EnablementTypeOK'
    <2> DEFINE q == Request(c, Current(c), c)
    <2>1. /\ Current(c) \in Enabling /\ q \in IdRequests /\ q.step = Current(c)
          /\ q.step = "scopes" => Adds(q.seen, q.etag)
      BY <1>7, WritesTyped DEF Write
    <2>2. Taken(q) /\ AppliedToId(q)
      BY <1>7 DEF Write
    <2>3. q.step \in Enabling /\ q.host \in Hosts /\ q.provider \in Providers
      BY <2>1 DEF IdRequests
    <2> HIDE DEF q
    <2>4. /\ rows' \in [Hosts -> [Rows -> {"absent", "fits", "unfit"}]]
          /\ \A h \in Hosts : rows'[h]["link"] # "unfit"
          /\ allowed' \subseteq Scopes /\ etag' \in Nat
      BY <2>1, <2>2, <2>3, Applied
    <2>5. calls' \in [Calls -> Asking]
      BY <1>7, <2>1, PastTyped, GoesTyped DEF Write, Steps
    <2> QED
      BY <1>7, <2>4, <2>5 DEF Write, EnablementTypeOK
  <1>8. ASSUME NEW c \in Calls, Replay(c) \/ Refused(c) PROVE EnablementTypeOK'
    <2>1. Current(c) \in Steps \/ Goes(c, Again(c))
      BY <1>8 DEF Replay, Refused, Fails, Steps, Enabling
    <2>2. calls' \in [Calls -> Asking]
      BY <1>8, <2>1, PastTyped, AgainTyped, GoesTyped DEF Replay, Refused, Fails
    <2> QED
      BY <1>8, <2>2 DEF Replay, Refused, EnablementTypeOK
  <1>9. ASSUME NEW c \in Calls, WriteEntry(c) PROVE EnablementTypeOK'
    <2>1. calls[c].off \in SUBSET Capabilities /\ calls[c].provider \in Providers
      BY <1>0 DEF Asking
    <2>2. catalogue' \in [Providers -> [enabled : BOOLEAN, disabled : SUBSET Capabilities]]
      BY <1>9, <2>1 DEF WriteEntry, TurnsOn, EnablementTypeOK
    <2>3. /\ [calls EXCEPT ![c] = Past(c, "catalogue", TRUE)] \in [Calls -> Asking]
          /\ [calls EXCEPT ![c] = Again(c)] \in [Calls -> Asking]
      BY PastTyped, AgainTyped DEF EnablementTypeOK, Steps
    <2>4. calls' \in [Calls -> Asking]
      BY <1>9, <2>3, UndoneTyped DEF WriteEntry
    <2>5. failures' \in Nat
      BY <1>9 DEF WriteEntry, EnablementTypeOK
    <2> QED
      BY <1>9, <2>2, <2>4, <2>5 DEF WriteEntry, EnablementTypeOK
  <1>10. ASSUME NEW c \in Calls, Unanswered(c) PROVE EnablementTypeOK'
    <2>1. \A of \in Calls \cup {NoCall} : Request(c, Current(c), of) \in IdRequests
      BY <1>10, WritesTyped DEF Unanswered
    <2>2. Left(c) \subseteq IdRequests
      BY LeftTyped
    <2>3. late' \subseteq IdRequests
      BY <1>10, <2>1, <2>2 DEF Unanswered, EnablementTypeOK
    <2>4. [calls[c] EXCEPT !.resent = TRUE] \in Asking
      BY <1>0 DEF Asking
    <2>5. calls' \in [Calls -> Asking]
      BY <1>10, <2>4, AgainTyped, GoesTyped DEF Unanswered, Fails
    <2>6. failures' \in Nat
      BY <1>10 DEF Unanswered, EnablementTypeOK
    <2> QED
      BY <1>10, <2>3, <2>5, <2>6 DEF Unanswered, EnablementTypeOK
  <1>18. ASSUME NEW c \in Calls, StillRunning(c) PROVE EnablementTypeOK'
    <2>1. calls' \in [Calls -> Asking]
      BY <1>18, AgainTyped, GoesTyped DEF StillRunning, Fails
    <2> QED
      BY <1>18, <2>1, LeftTyped DEF StillRunning, EnablementTypeOK
  <1>11. ASSUME NEW c \in Calls, EntryFails(c) PROVE EnablementTypeOK'
    <2>1. calls' \in [Calls -> Asking]
      BY <1>11, AgainTyped, GoesTyped DEF EntryFails, Fails
    <2> QED
      BY <1>11, <2>1 DEF EntryFails, EnablementTypeOK
  <1>12. ASSUME NEW q \in late, Arrive(q) PROVE EnablementTypeOK'
    <2>1. q \in IdRequests
      BY DEF EnablementTypeOK
    <2>2. q.step \in Enabling /\ q.host \in Hosts /\ q.provider \in Providers /\ q.of \in Calls \cup {NoCall}
      BY <2>1 DEF IdRequests
    <2>3. Taken(q) /\ AppliedToId(q) /\ (q.step = "scopes" => Adds(q.seen, q.etag))
      BY <1>12 DEF Arrive, EnablementInv, LateInv
    <2>4. /\ rows' \in [Hosts -> [Rows -> {"absent", "fits", "unfit"}]]
          /\ \A h \in Hosts : rows'[h]["link"] # "unfit"
          /\ allowed' \subseteq Scopes /\ etag' \in Nat
      BY <2>2, <2>3, Applied
    <2>5. q.of \in Calls => [calls[q.of] EXCEPT !.mine = @ \cup {q.step}] \in Asking
      BY <1>0, <2>2 DEF Asking
    <2>6. calls' \in [Calls -> Asking]
      BY <1>12, <2>2, <2>5 DEF Arrive, EnablementTypeOK
    <2> QED
      BY <1>12, <2>4, <2>6 DEF Arrive, EnablementTypeOK
  <1>13. ASSUME NEW h \in Hosts, NEW row \in Rows, NEW to \in {"absent", "fits", "unfit"}, ChangeRow(h, row, to)
         PROVE EnablementTypeOK'
    <2>1. rows' \in [Hosts -> [Rows -> {"absent", "fits", "unfit"}]]
      BY <1>13 DEF ChangeRow, EnablementTypeOK
    <2>2. \A g \in Hosts : rows'[g]["link"] # "unfit"
      BY <1>13 DEF ChangeRow, EnablementTypeOK, Rows
    <2>3. calls' \in [Calls -> Asking]
      BY <1>13, StepUndoneTyped DEF ChangeRow, Steps, Enabling
    <2>4. etag' \in Nat /\ moves' \in Nat
      BY <1>13 DEF ChangeRow, Moves, EnablementTypeOK
    <2> QED
      BY <1>13, <2>1, <2>2, <2>3, <2>4 DEF ChangeRow, EnablementTypeOK
  <1>14. ASSUME NEW scope \in Scopes, ChangeScopes(scope) PROVE EnablementTypeOK'
    <2>1. calls' \in [Calls -> Asking]
      BY <1>14, StepUndoneTyped DEF ChangeScopes, Steps, Enabling
    <2> QED
      BY <1>14, <2>1 DEF ChangeScopes, Moves, EnablementTypeOK
  <1>15. ASSUME NEW p \in Providers, NEW enabled \in BOOLEAN, NEW disabled \in SUBSET Capabilities,
                PutEntry(p, enabled, disabled)
         PROVE EnablementTypeOK'
    <2>1. calls' \in [Calls -> Asking]
      BY <1>15, StepUndoneTyped, UndoneTyped DEF PutEntry, Steps
    <2> QED
      BY <1>15, <2>1 DEF PutEntry, Moves, EnablementTypeOK
  <1>16. ASSUME NEW p \in Providers, NEW tools \in SUBSET Capabilities, Ingest(p, tools)
         PROVE EnablementTypeOK'
    <2>1. calls' \in [Calls -> Asking]
      BY <1>16, UndoneTyped DEF Ingest, EnablementTypeOK
    <2>2. WithOff(catalogue[p], tools \ known[p]) \in [enabled : BOOLEAN, disabled : SUBSET Capabilities]
      BY DEF WithOff, EnablementTypeOK
    <2>3. catalogue' \in [Providers -> [enabled : BOOLEAN, disabled : SUBSET Capabilities]]
      BY <1>16, <2>2 DEF Ingest, EnablementTypeOK
    <2> QED
      BY <1>16, <2>1, <2>3 DEF Ingest, EnablementTypeOK
  <1>17. CASE UNCHANGED enablementVars
    BY <1>17 DEF enablementVars, EnablementTypeOK
  <1> QED
    BY <1>1, <1>3, <1>4, <1>5, <1>6, <1>7, <1>8, <1>9, <1>10, <1>11, <1>12, <1>13, <1>14, <1>15,
       <1>16, <1>17, <1>18 DEF EnablementNext, Step


\* A PATCH that would add to the scopes still would, or no longer matches: they change with the revision.
Advances == \A seen : \A tag \in Nat : Adds(seen, tag) => Adds(seen, tag)'

LEMMA RevisionAdvances ==
  ASSUME etag \in Nat, etag' \in Nat, etag' > etag \/ (etag' = etag /\ allowed' = allowed)
  PROVE Advances
  <1>1. ASSUME NEW seen, NEW tag \in Nat, tag <= etag, tag = etag => seen = allowed
        PROVE tag <= etag' /\ (tag = etag' => seen = allowed')
    BY <1>1
  <1> QED
    BY <1>1 DEF Advances, Adds

\* What the rows, the scopes and the catalogue keep for a call, whoever takes the step: what was in place
\* still is, or the call remembers that somebody undid it.
Shared(d) ==
  /\ calls'[d].tool = calls[d].tool /\ calls'[d].host = calls[d].host
  /\ calls'[d].provider = calls[d].provider
  /\ \A s \in Steps : InPlace(d, s) => InPlace(d, s)' \/ s \in calls'[d].undone
  /\ calls[d].tool = "standalone" =>
       \A row \in Rows : rows'[calls[d].host][row] = "unfit" =>
         rows[calls[d].host][row] = "unfit" \/ row \in calls'[d].undone
  /\ "catalogue" \in calls'[d].todo =>
       \/ "overrides" \in calls'[d].undone
       \/ catalogue'[calls[d].provider].disabled = catalogue[calls[d].provider].disabled
  /\ Advances

\* A step that changes nothing of ID, nor the catalogue.
LEMMA SharedByReads ==
  ASSUME EnablementTypeOK, NEW d \in Calls, NEW c \in Calls, NEW call, Goes(c, call),
         call.tool = calls[c].tool, call.host = calls[c].host, call.provider = calls[c].provider,
         UNCHANGED <<rows, allowed, etag, catalogue>>
  PROVE Shared(d)
  <1>1. /\ calls'[d].tool = calls[d].tool /\ calls'[d].host = calls[d].host
        /\ calls'[d].provider = calls[d].provider
    BY DEF Goes, EnablementTypeOK
  <1> QED
    BY <1>1 DEF Shared, InPlace, Advances, Adds

\* One that ID takes.
LEMMA SharedByWrites ==
  ASSUME EnablementTypeOK, NEW d \in Calls, NEW q, q.step \in Enabling, q.host \in Hosts,
         q.provider \in Providers, Taken(q), AppliedToId(q), q.step = "scopes" => Adds(q.seen, q.etag),
         calls'[d].tool = calls[d].tool, calls'[d].host = calls[d].host,
         calls'[d].provider = calls[d].provider, UNCHANGED catalogue
  PROVE Shared(d)
  <1>1. /\ allowed \subseteq allowed' /\ etag' \in Nat /\ etag <= etag'
        /\ q.step = "scopes" => etag' = etag + 1
        /\ q.step # "scopes" => allowed' = allowed
        /\ \A h \in Hosts, row \in Rows :
             rows'[h][row] = rows[h][row] \/ (h = q.host /\ row = q.step /\ rows'[h][row] = "fits")
    BY Applied
  <1>2. calls[d].host \in Hosts /\ etag \in Nat
    BY DEF EnablementTypeOK, Asking
  <1>3. \A row \in Rows : rows'[calls[d].host][row] \in {rows[calls[d].host][row], "fits"}
    BY <1>1, <1>2
  <1>4. \A s \in Steps : InPlace(d, s) => InPlace(d, s)'
    BY <1>1, <1>3 DEF InPlace, Steps, Enabling
  <1>5. \A row \in Rows : rows'[calls[d].host][row] = "unfit" => rows[calls[d].host][row] = "unfit"
    BY <1>3
  <1>6. etag' = etag => allowed' = allowed
    BY <1>1, <1>2
  <1>7. Advances
    BY <1>1, <1>2, <1>6, RevisionAdvances
  <1> QED
    BY <1>4, <1>5, <1>7 DEF Shared

\* A call that is where it was: it may be told what was undone, and a late request may be its own.
Unmoved(d) ==
  /\ calls'[d].place = calls[d].place /\ calls'[d].tool = calls[d].tool
  /\ calls'[d].host = calls[d].host /\ calls'[d].provider = calls[d].provider
  /\ calls'[d].etag = calls[d].etag /\ calls'[d].seen = calls[d].seen /\ calls'[d].off = calls[d].off
  /\ calls'[d].todo = calls[d].todo /\ calls'[d].created = calls[d].created
  /\ calls[d].undone \subseteq calls'[d].undone

Stays(d) == Unmoved(d) /\ calls'[d].mine = calls[d].mine

\* One that begins again.
Restarts(d) ==
  /\ calls'[d].tool = calls[d].tool /\ calls'[d].host = calls[d].host
  /\ calls'[d].provider = calls[d].provider /\ calls'[d].place \in {"reading", "unfit"}
  /\ calls'[d].todo = {} /\ calls'[d].created = {} /\ calls'[d].mine = {} /\ calls'[d].undone = {}

LEMMA GoesStays ==
  ASSUME EnablementTypeOK, NEW c \in Calls, NEW call, Goes(c, call)
  PROVE calls'[c] = call /\ \A d \in Calls \ {c} : Stays(d)
  BY DEF Goes, Stays, Unmoved, EnablementTypeOK

LEMMA AgainRestarts ==
  ASSUME EnablementTypeOK, NEW c \in Calls,
         calls'[c] = Again(c) \/ calls'[c] = [Again(c) EXCEPT !.place = "unfit"]
  PROVE Restarts(c)
  BY DEF Restarts, Again, Asked

\* What was done to a row, the scopes or an entry is told to the calls it is undone for.
LEMMA UndoneStays ==
  ASSUME EnablementTypeOK, NEW step, NEW theirs, NEW d \in Calls
  PROVE /\ calls' = Undone(step, theirs) =>
             Stays(d) /\ (d \in theirs => step \in calls'[d].undone)
        /\ \A p : calls' = Told(Undone(step, theirs), p) =>
             /\ Stays(d) /\ (d \in theirs => step \in calls'[d].undone)
             /\ calls[d].provider = p /\ "catalogue" \in calls[d].todo => "overrides" \in calls'[d].undone
        /\ \A p : calls' = Told(calls, p) =>
             /\ Stays(d)
             /\ calls[d].provider = p /\ "catalogue" \in calls[d].todo => "overrides" \in calls'[d].undone
  <1>1. calls[d] \in Asking
    BY DEF EnablementTypeOK
  <1> DEFINE u == Undone(step, theirs)[d]
  <1>2. /\ u \in {calls[d], [calls[d] EXCEPT !.undone = @ \cup {step}]}
        /\ d \in theirs => step \in u.undone
    BY <1>1 DEF Undone, Asking
  <1>3. /\ u.place = calls[d].place /\ u.tool = calls[d].tool /\ u.host = calls[d].host
        /\ u.provider = calls[d].provider /\ u.etag = calls[d].etag /\ u.seen = calls[d].seen
        /\ u.off = calls[d].off /\ u.todo = calls[d].todo /\ u.created = calls[d].created
        /\ u.resent = calls[d].resent /\ u.mine = calls[d].mine /\ calls[d].undone \subseteq u.undone
    BY <1>1, <1>2 DEF Asking
  <1> HIDE DEF u
  <1>4. ASSUME calls' = Undone(step, theirs)
        PROVE Stays(d) /\ (d \in theirs => step \in calls'[d].undone)
    BY <1>2, <1>3, <1>4 DEF Stays, Unmoved, u
  <1>5. ASSUME NEW p, calls' = Told(Undone(step, theirs), p)
        PROVE /\ Stays(d) /\ (d \in theirs => step \in calls'[d].undone)
              /\ calls[d].provider = p /\ "catalogue" \in calls[d].todo => "overrides" \in calls'[d].undone
    <2>1. calls'[d] = IF u.provider = p /\ "catalogue" \in u.todo
                      THEN [u EXCEPT !.undone = @ \cup {"overrides"}] ELSE u
      BY <1>5 DEF Told, u
    <2>2. u \in [place : {u.place}, tool : {u.tool}, host : {u.host}, provider : {u.provider},
                 etag : {u.etag}, seen : {u.seen}, off : {u.off}, todo : {u.todo},
                 created : {u.created}, mine : {u.mine}, resent : {u.resent}, undone : {u.undone}]
      BY <1>1, <1>2 DEF Asking
    <2> QED
      BY <1>2, <1>3, <2>1, <2>2 DEF Stays, Unmoved
  <1>6. ASSUME NEW p, calls' = Told(calls, p)
        PROVE /\ Stays(d)
              /\ calls[d].provider = p /\ "catalogue" \in calls[d].todo => "overrides" \in calls'[d].undone
    <2>1. calls'[d] = IF calls[d].provider = p /\ "catalogue" \in calls[d].todo
                      THEN [calls[d] EXCEPT !.undone = @ \cup {"overrides"}] ELSE calls[d]
      BY <1>6 DEF Told
    <2> QED
      BY <1>1, <2>1 DEF Stays, Unmoved, Asking
  <1> QED
    BY <1>4, <1>5, <1>6

\* Changes by administrators and boots are told to whoever they concern.
LEMMA SharedByOthers ==
  ASSUME EnablementTypeOK, NEW d \in Calls,
         \/ \E h \in Hosts, row \in Rows, to \in {"absent", "fits", "unfit"} : ChangeRow(h, row, to)
         \/ \E scope \in Scopes : ChangeScopes(scope)
         \/ \E p \in Providers, enabled \in BOOLEAN, disabled \in SUBSET Capabilities :
              PutEntry(p, enabled, disabled)
         \/ \E p \in Providers, tools \in SUBSET Capabilities : Ingest(p, tools)
  PROVE Stays(d) /\ Shared(d)
  <1>0. calls[d] \in Asking /\ etag \in Nat /\ calls[d].host \in Hosts /\ calls[d].provider \in Providers
    BY DEF EnablementTypeOK, Asking
  <1>1. ASSUME NEW h \in Hosts, NEW row \in Rows, NEW to \in {"absent", "fits", "unfit"}, ChangeRow(h, row, to)
        PROVE Stays(d) /\ Shared(d)
    <2> DEFINE theirs == {c \in Calls : calls[c].host = h /\ to # "fits"
                                        /\ (rows[h][row] = "fits" \/ calls[c].tool = "standalone")}
    <2>1. Stays(d) /\ (d \in theirs => row \in calls'[d].undone)
      <3>1. calls' = Undone(row, theirs)
        BY <1>1 DEF ChangeRow
      <3> QED
        BY <3>1, UndoneStays
    <2>2. \A r \in Rows : rows'[calls[d].host][r] =
            IF calls[d].host = h /\ r = row THEN to ELSE rows[calls[d].host][r]
      BY <1>0, <1>1 DEF ChangeRow, EnablementTypeOK
    <2>3. allowed' = allowed /\ catalogue' = catalogue /\ etag' \in {etag, etag + 1}
      BY <1>1 DEF ChangeRow
    <2>4. \A s \in Steps : InPlace(d, s) => InPlace(d, s)' \/ s \in calls'[d].undone
      BY <2>1, <2>2, <2>3 DEF InPlace, Steps, Enabling, Stays, Unmoved
    <2>5. calls[d].tool = "standalone" =>
            \A r \in Rows : rows'[calls[d].host][r] = "unfit" =>
              rows[calls[d].host][r] = "unfit" \/ r \in calls'[d].undone
      BY <2>1, <2>2
    <2>6. Advances
      BY <1>0, <1>1, RevisionAdvances DEF ChangeRow
    <2> QED
      BY <2>1, <2>3, <2>4, <2>5, <2>6 DEF Shared, Stays, Unmoved
  <1>2. ASSUME NEW scope \in Scopes, ChangeScopes(scope) PROVE Stays(d) /\ Shared(d)
    <2> DEFINE theirs == {c \in Calls : calls[c].provider = scope /\ scope \in allowed}
    <2>1. Stays(d) /\ (d \in theirs => "scopes" \in calls'[d].undone)
      <3>1. calls' = Undone("scopes", theirs)
        BY <1>2 DEF ChangeScopes
      <3> QED
        BY <3>1, UndoneStays
    <2>2. /\ rows' = rows /\ catalogue' = catalogue /\ etag' = etag + 1
          /\ \A x \in allowed : x = scope \/ x \in allowed'
      BY <1>2 DEF ChangeScopes
    <2>3. \A s \in Steps : InPlace(d, s) => InPlace(d, s)' \/ s \in calls'[d].undone
      BY <2>1, <2>2 DEF InPlace, Steps, Enabling, Stays, Unmoved
    <2>4. Advances
      BY <1>0, <2>2, RevisionAdvances
    <2> QED
      BY <2>1, <2>2, <2>3, <2>4 DEF Shared, Stays, Unmoved
  <1>3. ASSUME NEW p \in Providers, NEW enabled \in BOOLEAN, NEW disabled \in SUBSET Capabilities,
               PutEntry(p, enabled, disabled)
        PROVE Stays(d) /\ Shared(d)
    <2> DEFINE theirs == {c \in Calls : calls[c].provider = p /\ ~enabled}
    <2>1. Stays(d) /\ (d \in theirs => "catalogue" \in calls'[d].undone)
      <3>1. calls' = Told(Undone("catalogue", theirs), p)
        BY <1>3 DEF PutEntry
      <3> QED
        BY <3>1, UndoneStays
    <2>2. /\ rows' = rows /\ allowed' = allowed /\ etag' = etag
          /\ \A r \in Providers : r # p => catalogue'[r] = catalogue[r]
          /\ catalogue'[p].enabled = enabled
      BY <1>3 DEF PutEntry, EnablementTypeOK
    <2>3. \A s \in Steps : InPlace(d, s) => InPlace(d, s)' \/ s \in calls'[d].undone
      BY <1>0, <2>1, <2>2 DEF InPlace, Steps, Enabling, Stays, Unmoved
    <2>4. calls[d].provider = p /\ "catalogue" \in calls[d].todo => "overrides" \in calls'[d].undone
      BY <1>3, UndoneStays DEF PutEntry
    <2> QED
      BY <1>0, <2>1, <2>2, <2>3, <2>4 DEF Shared, Stays, Unmoved, Advances, Adds
  <1>4. ASSUME NEW p \in Providers, NEW tools \in SUBSET Capabilities, Ingest(p, tools)
        PROVE Stays(d) /\ Shared(d)
    <2>1. Stays(d)
      BY <1>0, <1>4, UndoneStays DEF Ingest, Stays, Unmoved
    <2>2. /\ rows' = rows /\ allowed' = allowed /\ etag' = etag
          /\ \A r \in Providers : catalogue'[r].enabled = catalogue[r].enabled
      BY <1>4 DEF Ingest, WithOff, EnablementTypeOK
    <2>4. \/ catalogue' = catalogue
          \/ /\ \A r \in Providers : r # p => catalogue'[r] = catalogue[r]
             /\ calls' = Told(calls, p)
      BY <1>4 DEF Ingest, EnablementTypeOK
    <2>5. catalogue' # catalogue /\ calls[d].provider = p /\ "catalogue" \in calls[d].todo
            => "overrides" \in calls'[d].undone
      BY <2>4, UndoneStays
    <2>3. \A s \in Steps : InPlace(d, s) => InPlace(d, s)' \/ s \in calls'[d].undone
      BY <1>0, <2>1, <2>2 DEF InPlace, Steps, Enabling, Stays, Unmoved
    <2> QED
      BY <1>0, <2>1, <2>2, <2>3, <2>4, <2>5 DEF Shared, Stays, Unmoved, Advances, Adds
  <1> QED
    BY <1>1, <1>2, <1>3, <1>4

\* What is needed of a call whose own record did not move.
LEMMA StaysKeeps ==
  ASSUME EnablementInv, NEW d \in Calls, Stays(d), Shared(d)
  PROVE CallInv(d)'
  <1>0. CallInv(d) /\ calls[d] \in Asking
    BY DEF EnablementInv, EnablementTypeOK
  <1>1. PlansAreRead(d)' /\ CountsItsOwn(d)' /\ StepsRead(d)' = StepsRead(d)
    BY <1>0 DEF CallInv, PlansAreRead, CountsItsOwn, StepsRead, Stays, Unmoved
  <1>2. WhatIsReadHolds(d)'
    <2>1. StepsRead(d) \cup calls[d].mine \subseteq Steps
      BY <1>0 DEF StepsRead, StepsOf, Asking, Steps, Enabling
    <2>2. Holds(d, (StepsRead(d) \ calls[d].todo) \cup calls[d].mine)'
      BY <1>0, <1>1, <2>1 DEF CallInv, WhatIsReadHolds, Holds, Shared, Stays, Unmoved
    <2> QED
      BY <1>0, <1>1, <2>2 DEF CallInv, WhatIsReadHolds, Shared, Stays, Unmoved
  <1>3. ScopesAreAdded(d)'
    BY <1>0 DEF CallInv, ScopesAreAdded, Shared, Advances, Stays, Unmoved, Asking
  <1>4. OverridesAreRead(d)'
    BY <1>0 DEF CallInv, OverridesAreRead, Shared, Stays, Unmoved
  <1> QED
    BY <1>1, <1>2, <1>3, <1>4 DEF CallInv

\* A call that begins again has read nothing, and promises nothing.
LEMMA RestartKeeps ==
  ASSUME NEW d \in Calls, Restarts(d)
  PROVE CallInv(d)'
  <1>1. StepsRead(d)' = {}
    BY DEF Restarts, StepsRead, ReadAt
  <1> QED
    BY <1>1 DEF CallInv, PlansAreRead, WhatIsReadHolds, Holds, CountsItsOwn, ScopesAreAdded, OverridesAreRead,
       Restarts

\* A call that reads plans what it finds missing, and finds the rest in place.
LEMMA ReadingKeeps ==
  ASSUME EnablementInv, NEW d \in Calls, NEW more, calls[d].place # "running",
         calls'[d].tool = calls[d].tool, calls'[d].host = calls[d].host,
         calls'[d].provider = calls[d].provider, calls'[d].undone = calls[d].undone,
         calls'[d].created = calls[d].created, calls'[d].mine = calls[d].mine,
         calls'[d].todo = calls[d].todo \cup more,
         calls'[d].place = "catalogue" => calls[d].tool = "toolbox",
         calls'[d].place = "checking" => calls[d].tool = "standalone",
         more \subseteq StepsRead(d)', StepsRead(d) \subseteq StepsRead(d)',
         \A s \in StepsRead(d)' \ StepsRead(d) : s \in more \/ InPlace(d, s),
         \A row \in Rows \cap (StepsRead(d)' \ StepsRead(d)) : rows[calls[d].host][row] # "unfit",
         UNCHANGED <<rows, allowed, etag, catalogue>>
  PROVE PlansAreRead(d)' /\ WhatIsReadHolds(d)' /\ CountsItsOwn(d)'
  <1>0. PlansAreRead(d) /\ WhatIsReadHolds(d) /\ CountsItsOwn(d)
    BY DEF EnablementInv, CallInv
  <1>1. calls'[d].created = {} /\ calls'[d].mine = {}
    BY <1>0 DEF PlansAreRead
  <1>2. PlansAreRead(d)'
    BY <1>0, <1>1 DEF PlansAreRead
  <1>3. CountsItsOwn(d)'
    BY <1>1 DEF CountsItsOwn
  <1>4. \A s : InPlace(d, s)' <=> InPlace(d, s)
    BY DEF InPlace
  <1>5. Holds(d, (StepsRead(d) \ calls[d].todo) \cup calls[d].mine)'
    BY <1>0, <1>1, <1>4 DEF WhatIsReadHolds, Holds
  <1>6. Holds(d, (StepsRead(d) \ calls[d].todo) \cup calls[d].mine)
    BY <1>0 DEF WhatIsReadHolds
  <1>7. WhatIsReadHolds(d)'
    BY <1>0, <1>5 DEF WhatIsReadHolds
  <1> QED
    BY <1>2, <1>3, <1>7

\* Each read, one by one.
LEMMA ReadsKeep ==
  ASSUME EnablementInv, NEW d \in Calls, ~Restarts(d),
         ReadResource(d) \/ ReadRows(d) \/ ReadEntry(d) \/ Recheck(d)
  PROVE CallInv(d)'
  <1>0. /\ CallInv(d) /\ calls[d] \in Asking /\ EnablementTypeOK
        /\ calls[d].host \in Hosts /\ calls[d].provider \in Providers
        /\ PlansAreRead(d) /\ ScopesAreAdded(d) /\ OverridesAreRead(d) /\ etag \in Nat
    BY DEF EnablementInv, EnablementTypeOK, CallInv, Asking
  <1>1. CASE ReadResource(d)
    <2> DEFINE adds == Missing(d, "scopes")
               more == {s \in {"scopes", "link"} : Missing(d, s)}
    <2>1. /\ calls[d].place = "reading"
          /\ calls'[d] = [calls[d] EXCEPT !.place = "capability", !.todo = Lacking(d, {"scopes", "link"}),
                          !.etag = IF adds \/ calls[d].tool = "standalone" THEN etag ELSE 0,
                          !.seen = IF adds THEN allowed ELSE {}]
      BY <1>0, <1>1, GoesStays DEF ReadResource
    <2>2. StepsRead(d) = {} /\ calls[d].todo = {}
      BY <1>0, <2>1 DEF StepsRead, ReadAt, PlansAreRead
    <2>3. /\ calls'[d].place = "capability" /\ calls'[d].tool = calls[d].tool
          /\ calls'[d].host = calls[d].host /\ calls'[d].provider = calls[d].provider
          /\ calls'[d].undone = calls[d].undone /\ calls'[d].created = calls[d].created
          /\ calls'[d].mine = calls[d].mine /\ calls'[d].todo = calls[d].todo \cup more
          /\ adds => calls'[d].etag = etag /\ calls'[d].seen = allowed
      BY <1>0, <2>1 DEF Asking, Lacking
    <2>4. StepsRead(d)' = {"scopes", "link"} \cap StepsOf(calls[d].tool)
      BY <2>3 DEF StepsRead, ReadAt
    <2>5. /\ "link" \in Rows /\ "scopes" \notin Rows /\ calls[d].tool \in {"toolbox", "standalone"}
          /\ rows[calls[d].host]["link"] # "unfit"
          /\ rows[calls[d].host]["link"] \in {"absent", "fits", "unfit"}
      BY <1>0 DEF EnablementTypeOK, Asking, Rows
    <2>6. more \subseteq StepsRead(d)'
      BY <2>4, <2>5 DEF Missing, StepsOf
    <2>7. \A s \in StepsRead(d)' \ StepsRead(d) : s \in more \/ InPlace(d, s)
      BY <2>4, <2>5 DEF Missing, StepsOf, InPlace
    <2>8. \A row \in Rows \cap (StepsRead(d)' \ StepsRead(d)) : rows[calls[d].host][row] # "unfit"
      BY <2>4, <2>5
    <2>9. UNCHANGED <<rows, allowed, etag, catalogue>>
      BY <1>1 DEF ReadResource, Reads
    <2> HIDE DEF more
    <2>10. PlansAreRead(d)' /\ WhatIsReadHolds(d)' /\ CountsItsOwn(d)'
      BY <2>1, <2>2, <2>3, <2>6, <2>7, <2>8, <2>9, ReadingKeeps
    <2>11. ScopesAreAdded(d)' /\ OverridesAreRead(d)'
      BY <1>0, <2>2, <2>3, <2>9 DEF more, ScopesAreAdded, OverridesAreRead, Adds
    <2> QED
      BY <2>10, <2>11 DEF CallInv
  <1>2. CASE ReadRows(d)
    <2> DEFINE row == calls[d].place
               more == {s \in {row} : Missing(d, s)}
    <2> DEFINE next == IF row = "capability" THEN "entitlement"
                       ELSE IF calls[d].tool = "toolbox" THEN "catalogue"
                       ELSE IF Lacking(d, {row}) = {} THEN "running" ELSE "checking"
    <2>a. /\ row \in {"capability", "entitlement"}
          /\ IF rows[calls[d].host][row] = "unfit" THEN Goes(d, [Again(d) EXCEPT !.place = "unfit"])
             ELSE Goes(d, [calls[d] EXCEPT !.place = next, !.todo = Lacking(d, {row})])
      BY <1>2 DEF ReadRows
    <2>b. rows[calls[d].host][row] # "unfit"
      BY <1>0, <2>a, GoesStays, AgainRestarts
    <2>1. /\ row \in {"capability", "entitlement"} /\ rows[calls[d].host][row] # "unfit"
          /\ calls'[d] = [calls[d] EXCEPT !.place = next, !.todo = Lacking(d, {row})]
      BY <1>0, <2>a, <2>b, GoesStays
    <2>2. /\ calls'[d].place = next
          /\ calls'[d].tool = calls[d].tool
          /\ calls'[d].host = calls[d].host /\ calls'[d].provider = calls[d].provider
          /\ calls'[d].undone = calls[d].undone /\ calls'[d].created = calls[d].created
          /\ calls'[d].mine = calls[d].mine /\ calls'[d].todo = calls[d].todo \cup more
          /\ calls'[d].etag = calls[d].etag /\ calls'[d].seen = calls[d].seen
      BY <1>0, <2>1 DEF Asking, Lacking
    <2>3. StepsRead(d)' = StepsRead(d) \cup {row}
      BY <1>0, <2>1, <2>2 DEF StepsRead, ReadAt, StepsOf, Rows, Asking
    <2>4. row \in Rows /\ rows[calls[d].host][row] \in {"absent", "fits"}
      BY <1>0, <2>1 DEF EnablementTypeOK, Rows
    <2>5. more \subseteq StepsRead(d)'
      BY <2>3
    <2>6. row \in more \/ InPlace(d, row)
      BY <2>1, <2>4 DEF Missing, InPlace
    <2>7. UNCHANGED <<rows, allowed, etag, catalogue>>
      BY <1>2 DEF ReadRows, Reads
    <2>8. row # "running" /\ calls'[d].place = "catalogue" => calls[d].tool = "toolbox"
      BY <1>0, <2>1, <2>2
    <2>9. calls'[d].place = "checking" => calls[d].tool = "standalone"
      BY <1>0, <2>1, <2>2 DEF Asking
    <2>10. calls'[d].todo \ calls[d].todo \subseteq {"capability", "entitlement"} /\ row # "running"
      BY <2>1, <2>2
    <2> HIDE DEF more
    <2>11. PlansAreRead(d)' /\ WhatIsReadHolds(d)' /\ CountsItsOwn(d)'
      BY <2>1, <2>2, <2>3, <2>5, <2>6, <2>7, <2>8, <2>9, <2>10, ReadingKeeps
    <2>12. ScopesAreAdded(d)' /\ OverridesAreRead(d)'
      <3>1. "catalogue" \notin calls[d].todo
        BY <1>0, <2>1 DEF PlansAreRead, StepsRead, ReadAt
      <3> QED
        BY <1>0, <2>2, <2>7, <2>10, <3>1 DEF ScopesAreAdded, OverridesAreRead, Adds
    <2> QED
      BY <2>11, <2>12 DEF CallInv
  <1>3. CASE ReadEntry(d)
    <2> DEFINE entry == catalogue[calls[d].provider]
               more == IF entry.enabled THEN {} ELSE {"catalogue"}
    <2>1. /\ calls[d].place = "catalogue" /\ calls[d].tool = "toolbox"
          /\ calls'[d] = IF entry.enabled THEN [calls[d] EXCEPT !.place = "running"]
                         ELSE [calls[d] EXCEPT !.place = "running", !.off = entry.disabled,
                                               !.todo = @ \cup {"catalogue"}]
      BY <1>0, <1>3, GoesStays DEF ReadEntry, PlansAreRead
    <2>2. /\ calls'[d].place = "running" /\ calls'[d].tool = calls[d].tool
          /\ calls'[d].host = calls[d].host /\ calls'[d].provider = calls[d].provider
          /\ calls'[d].undone = calls[d].undone /\ calls'[d].created = calls[d].created
          /\ calls'[d].mine = calls[d].mine /\ calls'[d].todo = calls[d].todo \cup more
          /\ calls'[d].etag = calls[d].etag /\ calls'[d].seen = calls[d].seen
          /\ ~entry.enabled => calls'[d].off = entry.disabled
      BY <1>0, <2>1 DEF Asking
    <2>3. StepsRead(d)' = StepsRead(d) \cup {"catalogue"} /\ "catalogue" \notin StepsRead(d)
      BY <2>1, <2>2 DEF StepsRead, ReadAt, StepsOf, Rows
    <2>4. UNCHANGED <<rows, allowed, etag, catalogue>>
      BY <1>3 DEF ReadEntry, Reads
    <2>5. more \subseteq StepsRead(d)' /\ ("catalogue" \in more \/ InPlace(d, "catalogue"))
      BY <2>3 DEF InPlace
    <2>6. "catalogue" \notin Rows /\ "scopes" \notin more
      BY DEF Rows
    <2>7. PlansAreRead(d)' /\ WhatIsReadHolds(d)' /\ CountsItsOwn(d)'
      <3> HIDE DEF more
      <3> QED
        BY <2>1, <2>2, <2>3, <2>4, <2>5, <2>6, ReadingKeeps
    <2>8. ScopesAreAdded(d)' /\ OverridesAreRead(d)'
      BY <1>0, <2>1, <2>2, <2>3, <2>4, <2>6 DEF ScopesAreAdded, OverridesAreRead, Adds, PlansAreRead
    <2> QED
      BY <2>7, <2>8 DEF CallInv
  <1>4. CASE Recheck(d)
    <2>1. /\ calls[d].place = "checking" /\ calls[d].tool = "standalone"
          /\ calls'[d] = [calls[d] EXCEPT !.place = "running", !.etag = 0, !.seen = {}]
      <3>1. \/ Goes(d, [Again(d) EXCEPT !.place = "unfit"]) \/ Goes(d, Again(d))
            \/ Goes(d, [calls[d] EXCEPT !.place = "running", !.etag = 0, !.seen = {}])
        BY <1>4 DEF Recheck, Fails
      <3>2. ~Goes(d, [Again(d) EXCEPT !.place = "unfit"]) /\ ~Goes(d, Again(d))
        BY <1>0, GoesStays, AgainRestarts
      <3> QED
        BY <1>0, <1>4, <3>1, <3>2, GoesStays DEF Recheck, PlansAreRead
    <2>2. /\ calls'[d].place = "running" /\ calls'[d].tool = calls[d].tool
          /\ calls'[d].host = calls[d].host /\ calls'[d].provider = calls[d].provider
          /\ calls'[d].undone = calls[d].undone /\ calls'[d].created = calls[d].created
          /\ calls'[d].mine = calls[d].mine /\ calls'[d].todo = calls[d].todo \cup {}
      BY <1>0, <2>1 DEF Asking
    <2>3. StepsRead(d)' = StepsRead(d) /\ "scopes" \notin StepsRead(d) /\ "catalogue" \notin StepsRead(d)
      BY <2>1, <2>2 DEF StepsRead, ReadAt, StepsOf, Rows
    <2>4. UNCHANGED <<rows, allowed, etag, catalogue>>
      BY <1>4 DEF Recheck, Reads
    <2>5. PlansAreRead(d)' /\ WhatIsReadHolds(d)' /\ CountsItsOwn(d)'
      <3> DEFINE more == {}
      <3>1. /\ calls'[d].todo = calls[d].todo \cup more /\ more \subseteq StepsRead(d)'
            /\ StepsRead(d)' \ StepsRead(d) = {} /\ StepsRead(d) \subseteq StepsRead(d)'
        BY <2>2, <2>3
      <3> HIDE DEF more
      <3> QED
        BY <2>1, <2>2, <2>4, <3>1, ReadingKeeps
    <2>6. ScopesAreAdded(d)' /\ OverridesAreRead(d)'
      BY <1>0, <2>2, <2>3 DEF ScopesAreAdded, OverridesAreRead, PlansAreRead
    <2> QED
      BY <2>5, <2>6 DEF CallInv
  <1> QED
    BY <1>1, <1>2, <1>3, <1>4

\* A call that runs a step strikes it off, with the step in place or undone, and counts what it made.
LEMMA RunningKeeps ==
  ASSUME EnablementInv, NEW d \in Calls, Shared(d), NEW step \in calls[d].todo, calls[d].place = "running",
         calls'[d].place = "running", calls'[d].undone = calls[d].undone, calls'[d].off = calls[d].off,
         calls'[d].todo = calls[d].todo \ {step},
         InPlace(d, step)' \/ step \in calls[d].undone,
         calls'[d].created \in {calls[d].created, calls[d].created \cup {step}},
         calls'[d].mine \in {calls[d].mine, calls[d].mine \cup {step}},
         step = "catalogue" => calls[d].todo = {"catalogue"},
         step \in {"capability", "entitlement"} => (step \in calls'[d].created <=> step \in calls'[d].mine)
  PROVE PlansAreRead(d)' /\ WhatIsReadHolds(d)' /\ CountsItsOwn(d)' /\ OverridesAreRead(d)'
  <1>0. /\ PlansAreRead(d) /\ WhatIsReadHolds(d) /\ CountsItsOwn(d) /\ OverridesAreRead(d)
        /\ calls[d] \in Asking
    BY DEF EnablementInv, CallInv, EnablementTypeOK
  <1>1. StepsRead(d)' = StepsRead(d) /\ calls[d].todo \subseteq StepsRead(d)
    BY <1>0 DEF StepsRead, Shared, PlansAreRead
  <1>2. "catalogue" \in StepsRead(d) => calls[d].tool = "toolbox"
    BY <1>0 DEF StepsRead, StepsOf, Rows, Asking
  <1>3. PlansAreRead(d)'
    BY <1>0, <1>1, <1>2 DEF PlansAreRead, Shared
  <1>4. StepsRead(d) \cup calls[d].mine \subseteq Steps
    BY <1>0 DEF StepsRead, StepsOf, Asking, Steps, Enabling
  <1>5. \A s \in (StepsRead(d) \ calls[d].todo) \cup calls[d].mine : InPlace(d, s)' \/ s \in calls'[d].undone
    BY <1>0, <1>4 DEF WhatIsReadHolds, Holds, Shared
  <1>6. Holds(d, (StepsRead(d) \ calls[d].todo) \cup calls[d].mine)'
    BY <1>1, <1>5 DEF Holds
  <1>7. WhatIsReadHolds(d)'
    BY <1>0, <1>1, <1>6 DEF WhatIsReadHolds, Shared
  <1>8. CountsItsOwn(d)'
    BY <1>0 DEF CountsItsOwn
  <1>9. OverridesAreRead(d)'
    BY <1>0 DEF OverridesAreRead, Shared
  <1> QED
    BY <1>3, <1>7, <1>8, <1>9

\* A request of a call's own, heard or not, that ID takes.
LEMMA WriteKeeps ==
  ASSUME EnablementInv, NEW d \in Calls, Write(d)
  PROVE CallInv(d)' /\ \A e \in Calls : Shared(e)
  <1> PICK step : step = Current(d)
    OBVIOUS
  <1> DEFINE q == Request(d, step, d)
  <1>0. /\ EnablementTypeOK /\ calls[d] \in Asking /\ calls[d].todo \subseteq Steps /\ ScopesAreAdded(d)
        /\ CallInv(d)
    BY DEF EnablementInv, EnablementTypeOK, CallInv, Asking
  <1>1. /\ step \in Enabling /\ q \in IdRequests /\ q.step = step /\ q.host = calls[d].host
        /\ q.provider = calls[d].provider /\ (q.step = "scopes" => Adds(q.seen, q.etag))
    BY <1>0, RequestTyped, WritesTyped DEF Write
  <1>2. step \in calls[d].todo /\ calls[d].place = "running" /\ step # "catalogue"
        /\ (step # "scopes" => "scopes" \notin calls[d].todo)
    BY <1>0, <1>1, CurrentFacts DEF Enabling, Rows
  <1>3. Taken(q) /\ AppliedToId(q) /\ UNCHANGED catalogue /\ q.host \in Hosts /\ q.provider \in Providers
    BY <1>1 DEF Write, IdRequests
  <1>4. calls'[d] = [Past(d, step, TRUE) EXCEPT !.etag = 0, !.seen = {}, !.mine = @ \cup {step}]
        /\ \A e \in Calls \ {d} : Stays(e)
    BY <1>0, GoesStays DEF Write
  <1> HIDE DEF q
  <1>5. /\ calls'[d].place = "running" /\ calls'[d].tool = calls[d].tool
        /\ calls'[d].host = calls[d].host /\ calls'[d].provider = calls[d].provider
        /\ calls'[d].undone = calls[d].undone /\ calls'[d].off = calls[d].off
        /\ calls'[d].todo = calls[d].todo \ {step} /\ calls'[d].created = calls[d].created \cup {step}
        /\ calls'[d].mine = calls[d].mine \cup {step}
    BY <1>0, <1>2, <1>4 DEF Past, Asking
  <1>6. \A e \in Calls : Shared(e)
    <2>1. \A e \in Calls : calls'[e].tool = calls[e].tool /\ calls'[e].host = calls[e].host
                           /\ calls'[e].provider = calls[e].provider
      BY <1>4, <1>5 DEF Stays, Unmoved
    <2> QED
      BY <1>0, <1>1, <1>3, <2>1, SharedByWrites
  <1>7. InPlace(d, step)'
    <2>1. /\ q.step = "scopes" => q.provider \in allowed'
          /\ q.step # "scopes" => rows'[q.host][q.step] = "fits"
      BY <1>0, <1>1, <1>3, Applied
    <2> QED
      BY <1>1, <1>2, <1>5, <2>1 DEF InPlace
  <1>8. PlansAreRead(d)' /\ WhatIsReadHolds(d)' /\ CountsItsOwn(d)' /\ OverridesAreRead(d)'
    BY <1>2, <1>5, <1>6, <1>7, RunningKeeps
  <1>9. ScopesAreAdded(d)'
    BY <1>2, <1>5 DEF ScopesAreAdded
  <1> QED
    BY <1>6, <1>8, <1>9 DEF CallInv

\* One that was answered before, or refused because the row is there.
LEMMA AnsweredKeeps ==
  ASSUME EnablementInv, NEW d \in Calls, Replay(d) \/ (Refused(d) /\ FindsConflict(d))
  PROVE CallInv(d)'
  <1> PICK step : step = Current(d)
    OBVIOUS
  <1>0. /\ EnablementTypeOK /\ calls[d] \in Asking /\ calls[d].todo \subseteq Steps /\ ScopesAreAdded(d)
        /\ CallInv(d) /\ PlansAreRead(d) /\ WhatIsReadHolds(d) /\ CountsItsOwn(d)
    BY DEF EnablementInv, EnablementTypeOK, CallInv, Asking
  <1>1. step \in Rows /\ calls[d].tool = "standalone"
    BY DEF Replay, Refused, Replays, FindsConflict
  <1>2. step \in calls[d].todo /\ calls[d].place = "running" /\ step # "catalogue"
        /\ "scopes" \notin calls[d].todo
    BY <1>0, <1>1, CurrentFacts DEF Rows
  <1>3. \/ step \in calls[d].mine /\ calls'[d] = Past(d, step, TRUE)
        \/ step \notin calls[d].mine /\ calls'[d] = Past(d, step, FALSE) /\ Refused(d)
    <2>1. CASE Replay(d)
      BY <1>0, <2>1, GoesStays DEF Replay, Replays
    <2>2. CASE Refused(d) /\ FindsConflict(d)
      <3>1. Goes(d, Past(d, step, FALSE)) /\ ~Replays(d, step)
        BY <2>2 DEF Refused
      <3> QED
        BY <1>0, <1>1, <2>2, <3>1, GoesStays DEF Replays
    <2> QED
      BY <2>1, <2>2
  <1>4. UNCHANGED <<rows, allowed, etag, catalogue>>
    BY DEF Replay, Refused
  <1>5. step \notin calls[d].mine => rows[calls[d].host][step] # "absent" /\ step # "link"
    <2>1. step \notin calls[d].mine => ~Taken(Request(d, step, d))
      BY <1>3 DEF Refused
    <2>2. step \in Enabling
      BY <1>1 DEF Enabling
    <2> QED
      BY <1>0, <1>1, <2>1, <2>2, RequestTyped DEF Taken, Rows
  <1>6. /\ calls'[d].place = "running" /\ calls'[d].tool = calls[d].tool
        /\ calls'[d].host = calls[d].host /\ calls'[d].provider = calls[d].provider
        /\ calls'[d].undone = calls[d].undone /\ calls'[d].off = calls[d].off
        /\ calls'[d].todo = calls[d].todo \ {step} /\ calls'[d].mine = calls[d].mine
        /\ calls'[d].created = IF step \in calls[d].mine THEN calls[d].created \cup {step} ELSE calls[d].created
    BY ZenonT(30), <1>0, <1>2, <1>3 DEF Past, Asking
  <1>7. Shared(d)
    BY <1>4, <1>6 DEF Shared, InPlace, Advances, Adds
  <1>8. InPlace(d, step)' \/ step \in calls[d].undone
    <2>1. step \in calls[d].mine => InPlace(d, step) \/ step \in calls[d].undone
      BY <1>0 DEF WhatIsReadHolds, Holds
    <2>2. ASSUME step \notin calls[d].mine PROVE InPlace(d, step) \/ step \in calls[d].undone
      <3>1. step \in Rows \cap StepsRead(d) /\ rows[calls[d].host][step] \in {"fits", "unfit"}
        BY <1>0, <1>1, <1>2, <1>5, <2>2 DEF PlansAreRead, EnablementTypeOK, Asking
      <3>2. rows[calls[d].host][step] = "unfit" => step \in calls[d].undone
        BY <1>0, <1>1, <3>1 DEF WhatIsReadHolds
      <3> QED
        BY <3>1, <3>2 DEF InPlace, Rows
    <2>3. InPlace(d, step)' <=> InPlace(d, step)
      BY <1>4, <1>6 DEF InPlace
    <2> QED
      BY <2>1, <2>2, <2>3
  <1>9. step \in {"capability", "entitlement"} => (step \in calls'[d].created <=> step \in calls'[d].mine)
    BY <1>0, <1>6 DEF CountsItsOwn
  <1>10. PlansAreRead(d)' /\ WhatIsReadHolds(d)' /\ CountsItsOwn(d)' /\ OverridesAreRead(d)'
    BY <1>2, <1>6, <1>7, <1>8, <1>9, RunningKeeps
  <1>11. ScopesAreAdded(d)'
    BY <1>2, <1>6 DEF ScopesAreAdded
  <1> QED
    BY <1>10, <1>11 DEF CallInv

\* The catalogue's statement, applied: the call is past it, or begins again, and others are told.
LEMMA EntryKeeps ==
  ASSUME EnablementInv, NEW d \in Calls, WriteEntry(d)
  PROVE \A e \in Calls : Shared(e) /\ CallInv(e)' /\ (e = d \/ Stays(e))
  <1> PICK step : step = "catalogue"
    OBVIOUS
  <1> DEFINE p == calls[d].provider
  <1>0. /\ EnablementTypeOK /\ calls[d] \in Asking /\ calls[d].todo \subseteq Steps /\ p \in Providers
        /\ \A e \in Calls : CallInv(e) /\ calls[e] \in Asking /\ calls[e].provider \in Providers
    BY DEF EnablementInv, EnablementTypeOK, Asking
  <1>1. calls[d].todo = {"catalogue"} /\ calls[d].place = "running"
    BY <1>0, CurrentFacts DEF WriteEntry
  <1>2. PICK own \in {Past(d, "catalogue", TRUE), Again(d)} : calls' = Told([calls EXCEPT ![d] = own], p)
    BY DEF WriteEntry
  <1>3. /\ own.todo = {} /\ own.tool = calls[d].tool /\ own.host = calls[d].host /\ own.provider = p
    <2>1. own = Past(d, "catalogue", TRUE) \/ own = Again(d)
      OBVIOUS
    <2>2. CASE own = Past(d, "catalogue", TRUE)
      BY <1>0, <1>1, <2>2 DEF Past, Asking
    <2>3. CASE own = Again(d)
      BY <2>3 DEF Again, Asked
    <2> QED
      BY <2>1, <2>2, <2>3
  <1>4. calls'[d] = own
    BY <1>0, <1>2, <1>3 DEF Told, EnablementTypeOK
  <1>5. ASSUME NEW e \in Calls \ {d}
        PROVE Stays(e) /\ (calls[e].provider = p /\ "catalogue" \in calls[e].todo
                           => "overrides" \in calls'[e].undone)
    <2>1. calls'[e] = IF calls[e].provider = p /\ "catalogue" \in calls[e].todo
                      THEN [calls[e] EXCEPT !.undone = @ \cup {"overrides"}] ELSE calls[e]
      BY <1>2 DEF Told, EnablementTypeOK
    <2>2. calls[e] \in Asking
      BY <1>0
    <2> QED
      BY <2>1, <2>2 DEF Stays, Unmoved, Asking
  <1>6. /\ UNCHANGED <<rows, allowed, etag>> /\ catalogue'[p].enabled
        /\ \A r \in Providers : r # p => catalogue'[r] = catalogue[r]
    BY <1>0 DEF WriteEntry, TurnsOn, EnablementTypeOK
  <1>7. ASSUME NEW e \in Calls PROVE Shared(e)
    <2>1. /\ calls'[e].tool = calls[e].tool /\ calls'[e].host = calls[e].host
          /\ calls'[e].provider = calls[e].provider
      BY <1>3, <1>4, <1>5 DEF Stays, Unmoved
    <2>2. \A s \in Steps : InPlace(e, s) => InPlace(e, s)'
      BY <1>0, <1>6, <2>1 DEF InPlace
    <2>3. "catalogue" \in calls'[e].todo /\ calls[e].provider = p => "overrides" \in calls'[e].undone
      BY <1>3, <1>4, <1>5 DEF Stays, Unmoved
    <2> QED
      BY <1>0, <1>6, <2>1, <2>2, <2>3 DEF Shared, Advances, Adds
  <1>8. ASSUME NEW e \in Calls \ {d} PROVE CallInv(e)'
    BY <1>5, <1>7, StaysKeeps
  <1>9. CallInv(d)'
    <2>1. CASE own = Again(d)
      BY <1>0, <1>4, <2>1, AgainRestarts, RestartKeeps
    <2>2. CASE own = Past(d, "catalogue", TRUE)
      <3>1. /\ calls'[d].place = "running" /\ calls'[d].undone = calls[d].undone /\ calls'[d].off = calls[d].off
            /\ calls'[d].todo = calls[d].todo \ {step} /\ calls'[d].created = calls[d].created \cup {step}
            /\ calls'[d].mine = calls[d].mine /\ calls'[d].provider = p /\ step \in calls[d].todo
        BY <1>0, <1>1, <1>4, <2>2 DEF Past, Asking
      <3>2. InPlace(d, step)'
        BY <1>6, <3>1 DEF InPlace
      <3>3. PlansAreRead(d)' /\ WhatIsReadHolds(d)' /\ CountsItsOwn(d)' /\ OverridesAreRead(d)'
        BY <1>1, <1>7, <3>1, <3>2, RunningKeeps
      <3> QED
        BY <1>3, <1>4, <3>3 DEF CallInv, ScopesAreAdded
    <2> QED
      BY <2>1, <2>2
  <1> QED
    BY <1>5, <1>7, <1>8, <1>9

\* A late request: its call counts the row it made, which was not there until now.
LEMMA ArrivalKeeps ==
  ASSUME EnablementInv, NEW q \in late, Arrive(q)
  PROVE \A e \in Calls : Shared(e) /\ CallInv(e)' /\ Unmoved(e)
  <1>0. /\ EnablementTypeOK /\ q \in IdRequests /\ q.step \in Enabling /\ q.host \in Hosts
        /\ q.provider \in Providers /\ q.of \in Calls \cup {NoCall} /\ LateInv(q)
        /\ \A e \in Calls : calls[e] \in Asking
    BY DEF EnablementInv, EnablementTypeOK, IdRequests
  <1>1. Taken(q) /\ AppliedToId(q) /\ UNCHANGED catalogue /\ (q.step = "scopes" => Adds(q.seen, q.etag))
    BY <1>0 DEF Arrive, LateInv
  <1>2. ASSUME NEW e \in Calls
        PROVE Unmoved(e) /\ calls'[e].mine = (IF e = q.of THEN calls[e].mine \cup {q.step} ELSE calls[e].mine)
              /\ calls'[e].undone = calls[e].undone
    <2>1. calls[e] \in Asking /\ NoCall \notin Calls
      BY <1>0, EnablementAssumption
    <2>2. calls'[e] = IF e = q.of THEN [calls[e] EXCEPT !.mine = @ \cup {q.step}] ELSE calls[e]
      BY <1>0, <2>1 DEF Arrive, EnablementTypeOK
    <2> QED
      BY <2>1, <2>2 DEF Unmoved, Asking
  <1>3. ASSUME NEW e \in Calls PROVE Shared(e)
    <2>1. /\ calls'[e].tool = calls[e].tool /\ calls'[e].host = calls[e].host
          /\ calls'[e].provider = calls[e].provider
      BY <1>2 DEF Unmoved
    <2> QED
      BY <1>0, <1>1, <2>1, SharedByWrites
  <1>4. ASSUME NEW e \in Calls, e # q.of PROVE CallInv(e)'
    <2>1. Stays(e)
      BY <1>2, <1>4 DEF Stays
    <2> QED
      BY <1>3, <2>1, StaysKeeps
  <1>5. ASSUME q.of \in Calls PROVE CallInv(q.of)'
    <2> PICK d \in Calls : d = q.of
      BY <1>5
    <2>1. /\ calls[d].tool = "standalone" /\ calls[d].place = "running" /\ calls[d].host = q.host
          /\ q.step \in Rows /\ q.step \notin calls[d].mine
      BY <1>0, <1>5, EnablementAssumption DEF LateInv, Arrive
    <2>2. /\ CallInv(d) /\ PlansAreRead(d) /\ WhatIsReadHolds(d) /\ CountsItsOwn(d) /\ ScopesAreAdded(d)
          /\ OverridesAreRead(d) /\ calls[d] \in Asking
      BY <1>0 DEF EnablementInv, CallInv
    <2>3. Unmoved(d) /\ calls'[d].mine = calls[d].mine \cup {q.step} /\ calls'[d].undone = calls[d].undone
          /\ Shared(d)
      BY <1>2, <1>3
    <2>4. StepsRead(d)' = StepsRead(d) /\ q.step \in StepsRead(d) /\ StepsRead(d) \cup calls[d].mine \subseteq Steps
      BY <2>1, <2>2, <2>3 DEF StepsRead, ReadAt, StepsOf, Unmoved, Rows, Asking, Steps, Enabling
    <2>5. PlansAreRead(d)'
      BY <2>1, <2>2, <2>3, <2>4 DEF PlansAreRead, Unmoved
    <2>6. InPlace(d, q.step)'
      <3>1. rows'[q.host][q.step] = "fits"
        BY <1>0, <1>1, <2>1, Applied DEF Rows
      <3> QED
        BY <2>1, <2>3, <3>1 DEF InPlace, Unmoved, Rows
    <2>7. \A s \in (StepsRead(d) \ calls[d].todo) \cup calls[d].mine : InPlace(d, s)' \/ s \in calls'[d].undone
      BY <2>2, <2>3, <2>4 DEF WhatIsReadHolds, Holds, Shared
    <2>8. Holds(d, (StepsRead(d) \ calls[d].todo) \cup calls[d].mine)'
      BY <2>3, <2>4, <2>6, <2>7 DEF Holds, Unmoved
    <2>9. WhatIsReadHolds(d)'
      BY <2>2, <2>3, <2>4, <2>8 DEF WhatIsReadHolds, Shared, Unmoved
    <2>10. q.step \in {"capability", "entitlement"} => q.step \in calls[d].todo \cup calls[d].undone
      <3>1. q.step \in {"capability", "entitlement"} => rows[calls[d].host][q.step] = "absent"
        BY <1>1, <2>1 DEF Taken
      <3>2. q.step \notin calls[d].todo => InPlace(d, q.step) \/ q.step \in calls[d].undone
        BY <2>2, <2>4 DEF WhatIsReadHolds, Holds
      <3> QED
        BY <3>1, <3>2 DEF InPlace
    <2>11. CountsItsOwn(d)'
      BY <2>2, <2>3, <2>10 DEF CountsItsOwn, Unmoved
    <2>12. ScopesAreAdded(d)' /\ OverridesAreRead(d)'
      BY <2>2, <2>3 DEF ScopesAreAdded, OverridesAreRead, Shared, Advances, Unmoved, Asking
    <2> QED
      BY <2>5, <2>9, <2>11, <2>12 DEF CallInv
  <1> QED
    BY <1>2, <1>3, <1>4, <1>5

\* Requests that stay late keep what is said of them.
LEMMA LateKeeps ==
  ASSUME EnablementInv, Advances, \A e \in Calls : Shared(e),
         \A e \in Calls : calls[e].tool = "standalone" /\ calls[e].place = "running"
                            => calls'[e].place = "running"
  PROVE \A r \in late : LateInv(r)'
  <1> TAKE r \in late
  <1>1. r \in IdRequests /\ LateInv(r)
    BY DEF EnablementInv, EnablementTypeOK
  <1>2. r.of # NoCall => r.of \in Calls
    BY <1>1 DEF IdRequests
  <1>3. r.of # NoCall => /\ calls'[r.of].tool = "standalone" /\ calls'[r.of].place = "running"
                         /\ calls'[r.of].host = r.host /\ r.step \in Rows
    BY <1>1, <1>2 DEF LateInv, Shared
  <1>4. r.step = "scopes" => Adds(r.seen, r.etag)'
    BY <1>1 DEF Advances, LateInv, IdRequests
  <1> QED
    BY <1>3, <1>4 DEF LateInv

\* A step that only its call makes: the call itself, the others and the late requests.
LEMMA OwnStep ==
  ASSUME EnablementInv, EnablementTypeOK', NEW c \in Calls, NEW call, Goes(c, call),
         call.tool = calls[c].tool, call.host = calls[c].host, call.provider = calls[c].provider,
         UNCHANGED <<rows, allowed, etag, catalogue, late>>, CallInv(c)',
         call.place = "running" \/ calls[c].place # "running" \/ calls[c].tool # "standalone"
  PROVE EnablementInv'
  <1>0. EnablementTypeOK
    BY DEF EnablementInv
  <1>1. calls'[c] = call /\ \A e \in Calls \ {c} : Stays(e)
    BY <1>0, GoesStays
  <1>2. \A e \in Calls : Shared(e)
    BY <1>0, SharedByReads
  <1>3. \A e \in Calls : CallInv(e)'
    BY <1>1, <1>2, StaysKeeps
  <1>4. Advances
    BY DEF Advances, Adds
  <1>5. \A e \in Calls : calls[e].tool = "standalone" /\ calls[e].place = "running"
                            => calls'[e].place = "running"
    BY <1>1 DEF Stays, Unmoved
  <1>6. \A r \in late' : LateInv(r)'
    BY <1>2, <1>4, <1>5, LateKeeps
  <1> QED
    BY <1>3, <1>6 DEF EnablementInv

\* A call that stops over a write: what it waited for is still of the resource, and nobody's.
LEMMA LeavingKeeps ==
  ASSUME EnablementInv, EnablementTypeOK', NEW c \in Calls, Goes(c, Again(c)),
         \A r \in late' : r \in Left(c) \/ LateInv(r)',
         UNCHANGED <<rows, allowed, etag, catalogue>>
  PROVE EnablementInv'
  <1>0. EnablementTypeOK
    BY DEF EnablementInv
  <1>1. CallInv(c)'
    BY <1>0, GoesStays, AgainRestarts, RestartKeeps
  <1>2. \A e \in Calls \ {c} : Stays(e)
    BY <1>0, GoesStays
  <1>3. \A e \in Calls : Shared(e)
    <2>1. /\ Again(c).tool = calls[c].tool /\ Again(c).host = calls[c].host
          /\ Again(c).provider = calls[c].provider
      BY DEF Again, Asked
    <2> QED
      BY <1>0, <2>1, SharedByReads
  <1>4. Advances
    BY DEF Advances, Adds
  <1>5. ASSUME NEW q \in late
        PROVE q.of # c => LateInv(q)'
    <2>1. q \in IdRequests /\ LateInv(q)
      BY <1>0 DEF EnablementInv, EnablementTypeOK
    <2>2. q.step = "scopes" => Adds(q.seen, q.etag)'
      BY <1>4, <2>1 DEF Advances, LateInv, IdRequests
    <2>3. ASSUME q.of # c, q.of # NoCall
          PROVE /\ calls'[q.of].tool = "standalone" /\ calls'[q.of].place = "running"
                /\ calls'[q.of].host = q.host /\ q.step \in Rows
      BY <1>2, <2>1, <2>3 DEF LateInv, IdRequests, Stays, Unmoved
    <2> QED
      BY <2>2, <2>3 DEF LateInv
  <1>6. ASSUME NEW q \in late, NEW r, r = [q EXCEPT !.of = NoCall] PROVE LateInv(r)'
    <2>1. q \in IdRequests /\ LateInv(q)
      BY <1>0 DEF EnablementInv, EnablementTypeOK
    <2>2. q.step = "scopes" => Adds(q.seen, q.etag)'
      BY <1>4, <2>1 DEF Advances, LateInv, IdRequests
    <2>3. r.of = NoCall /\ r.step = q.step /\ r.seen = q.seen /\ r.etag = q.etag
      BY <1>6, <2>1 DEF IdRequests
    <2> QED
      BY <2>2, <2>3 DEF LateInv
  <1>7. \A r \in Left(c) : (r \in late /\ r.of # c) \/ \E q \in late : r = [q EXCEPT !.of = NoCall]
    BY DEF Left
  <1>8. ASSUME NEW r \in late' PROVE LateInv(r)'
    <2>1. CASE r \in Left(c)
      BY <1>5, <1>6, <1>7, <2>1
    <2> QED
      BY <2>1
  <1> QED
    BY <1>1, <1>2, <1>3, <1>8, StaysKeeps DEF EnablementInv

LEMMA EnablementStep ==
  ASSUME EnablementInv, [EnablementNext]_enablementVars
  PROVE EnablementInv'
  <1>0. /\ EnablementTypeOK /\ etag \in Nat
        /\ \A c \in Calls : calls[c] \in Asking /\ CallInv(c) /\ PlansAreRead(c)
    BY DEF EnablementInv, EnablementTypeOK, CallInv
  <1>t. EnablementTypeOK'
    BY EnablementTypeStep
  <1>a. ASSUME NEW c \in Calls
        PROVE /\ Again(c).tool = calls[c].tool /\ Again(c).host = calls[c].host
              /\ Again(c).provider = calls[c].provider
              /\ [Again(c) EXCEPT !.place = "unfit"].tool = calls[c].tool
              /\ [Again(c) EXCEPT !.place = "unfit"].host = calls[c].host
              /\ [Again(c) EXCEPT !.place = "unfit"].provider = calls[c].provider
    BY DEF Again, Asked
  <1>b. ASSUME NEW c \in Calls, Goes(c, Again(c)) \/ Goes(c, [Again(c) EXCEPT !.place = "unfit"])
        PROVE CallInv(c)'
    BY <1>0, <1>b, GoesStays, AgainRestarts, RestartKeeps
  <1>c. ASSUME NEW c \in Calls, Goes(c, Again(c)) \/ Goes(c, [Again(c) EXCEPT !.place = "unfit"]),
               UNCHANGED <<rows, allowed, etag, catalogue, late>>,
               calls[c].place # "running" \/ calls[c].tool # "standalone"
        PROVE EnablementInv'
    BY <1>a, <1>b, <1>c, <1>t, OwnStep
  <1>1. ASSUME NEW c \in Calls, Repeat(c) PROVE EnablementInv'
    BY <1>1, <1>c DEF Repeat
  <1>2. ASSUME NEW c \in Calls, ReadResource(c) \/ ReadRows(c) \/ ReadEntry(c) \/ Recheck(c)
        PROVE EnablementInv'
    <2>1. CASE Restarts(c)
      <3>1. CallInv(c)'
        BY <2>1, RestartKeeps
      <3>2. \A e \in Calls \ {c} : Stays(e)
        BY <1>0, <1>2, GoesStays DEF ReadResource, ReadRows, ReadEntry, Recheck, Fails
      <3>3. calls[c].place # "running" /\ UNCHANGED <<rows, allowed, etag, catalogue, late>>
        BY <1>2 DEF ReadResource, ReadRows, ReadEntry, Recheck, Reads
      <3>4. \A e \in Calls : Shared(e)
        <4> TAKE e \in Calls
        <4>1. /\ calls'[e].tool = calls[e].tool /\ calls'[e].host = calls[e].host
              /\ calls'[e].provider = calls[e].provider
          BY <2>1, <3>2 DEF Restarts, Stays, Unmoved
        <4> QED
          BY <3>3, <4>1 DEF Shared, InPlace, Advances, Adds
      <3>5. \A r \in late' : LateInv(r)'
        BY <3>2, <3>3, <3>4, LateKeeps DEF Stays, Unmoved, Advances, Adds
      <3> QED
        BY <1>t, <3>1, <3>2, <3>4, <3>5, StaysKeeps DEF EnablementInv
    <2>2. CASE ~Restarts(c)
      <3>1. CallInv(c)'
        BY <1>2, <2>2, ReadsKeep
      <3>2. \A e \in Calls \ {c} : Stays(e)
        BY <1>0, <1>2, GoesStays DEF ReadResource, ReadRows, ReadEntry, Recheck, Fails
      <3>3. calls[c].place # "running" /\ UNCHANGED <<rows, allowed, etag, catalogue, late>>
        BY <1>2 DEF ReadResource, ReadRows, ReadEntry, Recheck, Reads
      <3>4. /\ calls'[c].tool = calls[c].tool /\ calls'[c].host = calls[c].host
            /\ calls'[c].provider = calls[c].provider
        <4> DEFINE same(call) == /\ call.tool = calls[c].tool /\ call.host = calls[c].host
                                 /\ call.provider = calls[c].provider
        <4>1. ASSUME NEW call, Goes(c, call), same(call) PROVE same(calls'[c])
          BY <1>0, <4>1, GoesStays
        <4>2. \A next, todo, tag, names, off :
                /\ same([calls[c] EXCEPT !.place = next, !.todo = todo, !.etag = tag, !.seen = names])
                /\ same([calls[c] EXCEPT !.place = next, !.todo = todo])
                /\ same([calls[c] EXCEPT !.place = next])
                /\ same([calls[c] EXCEPT !.place = next, !.off = off, !.todo = todo])
                /\ same([calls[c] EXCEPT !.place = next, !.etag = tag, !.seen = names])
          BY <1>0 DEF Asking
        <4>3. same(Again(c)) /\ same([Again(c) EXCEPT !.place = "unfit"])
          BY <1>a
        <4> HIDE DEF same
        <4>4. same(calls'[c])
          <5>1. CASE ReadResource(c)
            <6>1. \E tag, names : Goes(c, [calls[c] EXCEPT !.place = "capability", !.todo = Lacking(c, {"scopes", "link"}),
                                                        !.etag = tag, !.seen = names])
              BY <5>1 DEF ReadResource
            <6>2. PICK tag, names : Goes(c, [calls[c] EXCEPT !.place = "capability",
                                             !.todo = Lacking(c, {"scopes", "link"}), !.etag = tag, !.seen = names])
              BY <6>1
            <6>3. same([calls[c] EXCEPT !.place = "capability", !.todo = Lacking(c, {"scopes", "link"}),
                                        !.etag = tag, !.seen = names])
              BY <4>2
            <6> QED
              BY <4>1, <6>2, <6>3
          <5>2. CASE ReadRows(c)
            BY <4>1, <4>2, <4>3, <5>2 DEF ReadRows
          <5>3. CASE ReadEntry(c)
            <6>1. \/ Goes(c, [calls[c] EXCEPT !.place = "running"])
                  \/ \E off, todo : Goes(c, [calls[c] EXCEPT !.place = "running", !.off = off, !.todo = todo])
              BY <5>3 DEF ReadEntry
            <6> QED
              BY <4>1, <4>2, <6>1
          <5>4. CASE Recheck(c)
            <6>1. \/ Goes(c, Again(c)) \/ Goes(c, [Again(c) EXCEPT !.place = "unfit"])
                  \/ Goes(c, [calls[c] EXCEPT !.place = "running", !.etag = 0, !.seen = {}])
              BY <5>4 DEF Recheck, Fails
            <6> QED
              BY <4>1, <4>2, <4>3, <6>1
          <5> QED
            BY <1>2, <5>1, <5>2, <5>3, <5>4
        <4> QED
          BY <4>4 DEF same
      <3>5. \A e \in Calls : Shared(e)
        <4> TAKE e \in Calls
        <4>1. /\ calls'[e].tool = calls[e].tool /\ calls'[e].host = calls[e].host
              /\ calls'[e].provider = calls[e].provider
          BY <3>2, <3>4 DEF Stays, Unmoved
        <4> QED
          BY <3>3, <4>1 DEF Shared, InPlace, Advances, Adds
      <3>6. \A r \in late' : LateInv(r)'
        BY <3>2, <3>3, <3>5, LateKeeps DEF Stays, Unmoved, Advances, Adds
      <3> QED
        BY <1>t, <3>1, <3>2, <3>5, <3>6, StaysKeeps DEF EnablementInv
    <2> QED
      BY <2>1, <2>2
  <1>3. ASSUME NEW c \in Calls, Write(c) PROVE EnablementInv'
    <2>1. CallInv(c)' /\ \A e \in Calls : Shared(e)
      BY <1>3, WriteKeeps
    <2>2. \A e \in Calls \ {c} : Stays(e)
      BY <1>0, <1>3, GoesStays DEF Write
    <2>3. late' = late /\ Advances
      BY <1>3, <2>1 DEF Write, Shared
    <2>4. calls'[c].place = calls[c].place
      <3>1. calls'[c] = [Past(c, Current(c), TRUE) EXCEPT !.etag = 0, !.seen = {}, !.mine = @ \cup {Current(c)}]
        BY <1>0, <1>3, GoesStays DEF Write
      <3> QED
        BY <1>0, <3>1 DEF Past, Asking
    <2>5. \A r \in late' : LateInv(r)'
      BY <2>1, <2>2, <2>3, <2>4, LateKeeps DEF Stays, Unmoved
    <2> QED
      BY <1>t, <2>1, <2>2, <2>5, StaysKeeps DEF EnablementInv
  <1>4. ASSUME NEW c \in Calls, Replay(c) \/ (Refused(c) /\ FindsConflict(c)) PROVE EnablementInv'
    <2>1. CallInv(c)'
      BY <1>4, AnsweredKeeps
    <2>2. \E call \in {Past(c, Current(c), TRUE), Past(c, Current(c), FALSE)} : Goes(c, call)
      BY <1>4 DEF Replay, Refused
    <2>3. PICK call \in {Past(c, Current(c), TRUE), Past(c, Current(c), FALSE)} : Goes(c, call)
      BY <2>2
    <2>4. /\ call.tool = calls[c].tool /\ call.host = calls[c].host /\ call.place = calls[c].place
          /\ call.provider = calls[c].provider
      BY <1>0, <2>3 DEF Past, Asking
    <2>5. calls[c].place = "running" /\ UNCHANGED <<rows, allowed, etag, catalogue, late>>
      BY <1>4 DEF Replay, Refused, Current, Rows
    <2> QED
      BY <1>t, <2>1, <2>3, <2>4, <2>5, OwnStep
  <1>5. ASSUME NEW c \in Calls, Refused(c), ~FindsConflict(c) PROVE EnablementInv'
    <2>1. calls[c].tool # "standalone"
      <3>1. CASE Current(c) = "scopes"
        <4>1. "scopes" \in calls[c].todo
          BY <1>0, <3>1, CurrentFacts DEF Asking
        <4> QED
          BY <1>0, <4>1 DEF PlansAreRead, StepsRead, StepsOf, Rows
      <3> QED
        BY <1>5, <3>1 DEF FindsConflict
    <2> QED
      BY <1>5, <1>c, <2>1 DEF Refused, Fails
  <1>6. ASSUME NEW c \in Calls, WriteEntry(c) PROVE EnablementInv'
    <2>1. \A e \in Calls : Shared(e) /\ CallInv(e)' /\ (e = c \/ Stays(e))
      BY <1>6, EntryKeeps
    <2>2. calls[c].tool # "standalone"
      <3>1. "catalogue" \in calls[c].todo
        BY <1>0, <1>6, CurrentFacts DEF WriteEntry, Asking
      <3> QED
        BY <1>0, <3>1 DEF PlansAreRead, StepsRead, StepsOf, Rows
    <2>3. late' = late /\ Advances
      BY <1>6, <2>1 DEF WriteEntry, Shared
    <2>4. \A r \in late' : LateInv(r)'
      BY <2>1, <2>2, <2>3, LateKeeps DEF Stays, Unmoved
    <2> QED
      BY <1>t, <2>1, <2>4 DEF EnablementInv
  <1>7. ASSUME NEW c \in Calls, EntryFails(c) PROVE EnablementInv'
    <2>1. "catalogue" \in calls[c].todo
      BY <1>0, <1>7, CurrentFacts DEF EntryFails, Asking
    <2>2. calls[c].tool # "standalone"
      BY <1>0, <2>1 DEF PlansAreRead, StepsRead, StepsOf, Rows
    <2> QED
      BY <1>7, <1>c, <2>2 DEF EntryFails, Fails
  <1>8. ASSUME NEW q \in late, Arrive(q) PROVE EnablementInv'
    <2>1. \A e \in Calls : Shared(e) /\ CallInv(e)' /\ Unmoved(e)
      BY <1>8, ArrivalKeeps
    <2>2. Advances
      <3>1. q.step \in Enabling /\ q.host \in Hosts /\ q.provider \in Providers /\ q \in IdRequests
        BY <1>0 DEF EnablementTypeOK, IdRequests
      <3>2. Taken(q) /\ AppliedToId(q) /\ (q.step = "scopes" => Adds(q.seen, q.etag))
        BY <1>8 DEF Arrive, EnablementInv, LateInv
      <3>3. /\ etag' \in Nat /\ etag <= etag' /\ (q.step = "scopes" => etag' = etag + 1)
            /\ (q.step # "scopes" => allowed' = allowed)
        BY <1>0, <3>1, <3>2, Applied
      <3> QED
        BY <1>0, <3>3, RevisionAdvances
    <2>3. \A r \in late : LateInv(r)'
      BY <2>1, <2>2, LateKeeps DEF Unmoved
    <2> QED
      BY <1>t, <1>8, <2>1, <2>3 DEF EnablementInv, Arrive
  <1>9. ASSUME NEW c \in Calls, Unanswered(c) PROVE EnablementInv'
    <2> DEFINE again == calls[c].tool = "standalone" /\ ~calls[c].resent
    <2> PICK sent : sent = Request(c, Current(c), IF again THEN c ELSE NoCall)
      OBVIOUS
    <2>1. /\ late' = IF again THEN late \cup {sent} ELSE Left(c) \cup {sent}
          /\ IF again THEN Goes(c, [calls[c] EXCEPT !.resent = TRUE]) ELSE Goes(c, Again(c))
          /\ UNCHANGED <<rows, allowed, etag, catalogue>> /\ Current(c) \in Rows \cup {"scopes"}
      BY <1>9 DEF Unanswered, Fails
    <2>2. /\ sent \in IdRequests /\ sent.step = Current(c) /\ sent.host = calls[c].host
          /\ sent.of = (IF again THEN c ELSE NoCall) /\ (sent.step = "scopes" => Adds(sent.seen, sent.etag))
      <3>1. Current(c) \in Enabling /\ (IF again THEN c ELSE NoCall) \in Calls \cup {NoCall}
        BY <2>1 DEF Enabling
      <3> QED
        BY <1>0, <2>1, <3>1, RequestTyped, WritesTyped
    <2>3. Current(c) \in calls[c].todo /\ calls[c].place = "running"
      BY <1>0, <2>1, CurrentFacts DEF Asking, Rows
    <2>4. calls[c].tool = "standalone" => Current(c) \in Rows
      BY <1>0, <2>3 DEF PlansAreRead, StepsRead, StepsOf, Rows
    <2>5. Advances /\ (Adds(sent.seen, sent.etag) => Adds(sent.seen, sent.etag)')
      BY <2>1 DEF Advances, Adds
    <2>6. CASE again
      <3>1. Goes(c, [calls[c] EXCEPT !.resent = TRUE])
        BY <2>1, <2>6
      <3>2. \A e \in Calls : Stays(e)
        BY <1>0, <3>1, GoesStays DEF Stays, Unmoved, Asking
      <3>3. \A e \in Calls : Shared(e)
        BY <1>0, <2>1, <3>1, SharedByReads DEF Asking
      <3>4. \A r \in late : LateInv(r)'
        BY <2>5, <3>2, <3>3, LateKeeps DEF Stays, Unmoved
      <3>5. /\ sent.of = c /\ sent.step \in Rows /\ calls'[c].tool = "standalone" /\ calls'[c].place = "running"
            /\ calls'[c].host = sent.host
        BY <2>2, <2>3, <2>4, <2>6, <3>2 DEF Stays, Unmoved
      <3>6. LateInv(sent)'
        BY <2>2, <2>5, <3>5 DEF LateInv
      <3>7. \A r \in late' : LateInv(r)'
        BY <2>1, <2>6, <3>4, <3>6
      <3> QED
        BY <1>t, <3>2, <3>3, <3>7, StaysKeeps DEF EnablementInv
    <2>7. CASE ~again
      <3>1. Goes(c, Again(c)) /\ late' = Left(c) \cup {sent}
        BY <2>1, <2>7
      <3>2. LateInv(sent)'
        BY <2>2, <2>5, <2>7 DEF LateInv
      <3>3. \A r \in late' : r \in Left(c) \/ LateInv(r)'
        BY <3>1, <3>2
      <3> QED
        BY <1>t, <2>1, <3>1, <3>3, LeavingKeeps
    <2> QED
      BY <2>6, <2>7
  <1>12. ASSUME NEW c \in Calls, StillRunning(c) PROVE EnablementInv'
    <2>1. /\ Goes(c, Again(c)) /\ late' = Left(c)
          /\ UNCHANGED <<rows, allowed, etag, catalogue>>
      BY <1>12 DEF StillRunning, Fails
    <2> QED
      BY <1>t, <2>1, LeavingKeeps
  <1>10. ASSUME \/ \E h \in Hosts, row \in Rows, to \in {"absent", "fits", "unfit"} : ChangeRow(h, row, to)
                \/ \E scope \in Scopes : ChangeScopes(scope)
                \/ \E p \in Providers, enabled \in BOOLEAN, disabled \in SUBSET Capabilities :
                     PutEntry(p, enabled, disabled)
                \/ \E p \in Providers, tools \in SUBSET Capabilities : Ingest(p, tools)
         PROVE EnablementInv'
    <2>1. \A e \in Calls : Stays(e) /\ Shared(e)
      BY <1>0, <1>10, SharedByOthers
    <2>2. Advances /\ late' = late
      <3>1. /\ etag' \in Nat /\ etag' >= etag /\ (etag' = etag => allowed' = allowed) /\ late' = late
        <4>1. ASSUME NEW h \in Hosts, NEW row \in Rows, NEW to \in {"absent", "fits", "unfit"}, ChangeRow(h, row, to)
              PROVE etag' \in {etag, etag + 1} /\ allowed' = allowed /\ late' = late
          BY <4>1 DEF ChangeRow
        <4>2. ASSUME NEW scope \in Scopes, ChangeScopes(scope) PROVE etag' = etag + 1 /\ late' = late
          BY <4>2 DEF ChangeScopes
        <4>3. ASSUME NEW p \in Providers, NEW enabled \in BOOLEAN, NEW disabled \in SUBSET Capabilities,
                     PutEntry(p, enabled, disabled)
              PROVE etag' = etag /\ allowed' = allowed /\ late' = late
          BY <4>3 DEF PutEntry
        <4>4. ASSUME NEW p \in Providers, NEW tools \in SUBSET Capabilities, Ingest(p, tools)
              PROVE etag' = etag /\ allowed' = allowed /\ late' = late
          BY <4>4 DEF Ingest
        <4> QED
          BY <1>0, <1>10, <4>1, <4>2, <4>3, <4>4
      <3> QED
        BY <1>0, <3>1, RevisionAdvances
    <2>3. \A r \in late' : LateInv(r)'
      BY <2>1, <2>2, LateKeeps DEF Stays, Unmoved
    <2> QED
      BY <1>t, <2>1, <2>3, StaysKeeps DEF EnablementInv
  <1>11. CASE UNCHANGED enablementVars
    <2>1. \A e \in Calls : Stays(e) /\ Shared(e)
      BY <1>11 DEF enablementVars, Stays, Unmoved, Shared, InPlace, Advances, Adds
    <2>2. Advances /\ late' = late
      BY <1>11 DEF enablementVars, Advances, Adds
    <2>3. \A r \in late' : LateInv(r)'
      BY <2>1, <2>2, LateKeeps DEF Stays, Unmoved
    <2> QED
      BY <1>t, <2>1, <2>3, StaysKeeps DEF EnablementInv
  <1> QED
    BY <1>1, <1>2, <1>3, <1>4, <1>5, <1>6, <1>7, <1>8, <1>9, <1>10, <1>11, <1>12
    DEF EnablementNext, Step

THEOREM EnablementInvariant == EnablementSpec => []EnablementInv
  <1>1. EnablementInit => EnablementInv
    <2> SUFFICES ASSUME EnablementInit PROVE EnablementInv
      OBVIOUS
    <2>1. ASSUME NEW tool \in {"toolbox", "standalone"}, NEW h \in Hosts, NEW p \in Providers
          PROVE Asked(tool, h, p) \in Asking /\ Asked(tool, h, p).place = "reading"
                /\ Asked(tool, h, p).todo = {} /\ Asked(tool, h, p).created = {} /\ Asked(tool, h, p).mine = {}
      BY DEF Asked, Asking
    <2>2. PICK tool \in {"toolbox", "standalone"} :
            calls \in [Calls -> {Asked(tool, h, p) : h \in Hosts, p \in Providers}]
      BY DEF EnablementInit
    <2>3. \A c \in Calls : \E h \in Hosts, p \in Providers : calls[c] = Asked(tool, h, p)
      BY <2>2
    <2>4. \A c \in Calls : /\ calls[c] \in Asking /\ calls[c].place = "reading" /\ calls[c].todo = {}
                           /\ calls[c].created = {} /\ calls[c].mine = {}
      <3> TAKE c \in Calls
      <3>1. PICK h \in Hosts, p \in Providers : calls[c] = Asked(tool, h, p)
        BY <2>3
      <3> QED
        BY <2>1, <3>1
    <2>5. calls \in [Calls -> Asking]
      BY <2>2, <2>4
    <2>6. EnablementTypeOK
      BY <2>5 DEF EnablementInit, EnablementTypeOK, Rows
    <2>7. \A c \in Calls : StepsRead(c) = {}
      BY <2>4 DEF StepsRead, ReadAt
    <2>8. \A c \in Calls : CallInv(c)
      BY <2>4, <2>7 DEF CallInv, PlansAreRead, WhatIsReadHolds, Holds, CountsItsOwn, ScopesAreAdded, OverridesAreRead
    <2> QED
      BY <2>6, <2>8 DEF EnablementInv, EnablementInit
  <1>2. EnablementInv /\ [EnablementNext]_enablementVars => EnablementInv'
    BY EnablementStep
  <1> QED
    BY <1>1, <1>2, PTL DEF EnablementSpec

\* The state has the shape it is declared with.
THEOREM EnablementTypeCorrect == EnablementSpec => []EnablementTypeOK
  <1>1. EnablementInv => EnablementTypeOK
    BY DEF EnablementInv
  <1> QED
    BY <1>1, EnablementInvariant, PTL

\* A provider is turned on last, a call that is done left nothing out, and says what it made.
THEOREM EnablingIsInFull == EnablementSpec => []EnablesInFull
  <1>1. EnablementInv => EnablesInFull
    <2> SUFFICES ASSUME EnablementInv, NEW c \in Calls
                 PROVE /\ "catalogue" \in calls[c].created => Holds(c, Enabling)
                       /\ Done(c) =>
                            /\ Holds(c, StepsOf(calls[c].tool))
                            /\ \A row \in {"capability", "entitlement"} \ calls[c].undone :
                                 row \in calls[c].created <=> row \in calls[c].mine
      BY DEF EnablesInFull
    <2>1. PlansAreRead(c) /\ WhatIsReadHolds(c) /\ CountsItsOwn(c) /\ calls[c] \in Asking
      BY DEF EnablementInv, EnablementTypeOK, CallInv
    <2>2. calls[c].place = "running" => StepsRead(c) = StepsOf(calls[c].tool)
      BY <2>1 DEF StepsRead, ReadAt, StepsOf, Rows, Asking
    <2>3. calls[c].place = "running" /\ calls[c].todo = {} => Holds(c, StepsOf(calls[c].tool))
      BY <2>1, <2>2 DEF WhatIsReadHolds, Holds
    <2>4. "catalogue" \in calls[c].created => Holds(c, Enabling)
      BY <2>1, <2>3 DEF PlansAreRead, Holds, StepsOf, Enabling
    <2>5. Done(c) => \A row \in {"capability", "entitlement"} \ calls[c].undone :
                       row \in calls[c].created <=> row \in calls[c].mine
      BY <2>1 DEF CountsItsOwn, Done
    <2> QED
      BY <2>3, <2>4, <2>5 DEF Done
  <1> QED
    BY <1>1, EnablementInvariant, PTL

\* What someone else chose outlasts an enable operation and an ingest, but for a call that was overtaken.
THEOREM ChoicesOfOthersStay == EnablementSpec => OthersChoicesStay
  <1> DEFINE Stay == moves' = moves =>
               /\ allowed \subseteq allowed'
               /\ \A p \in Providers :
                    ~(catalogue[p].disabled \subseteq catalogue'[p].disabled) => Overtaken(p)
  <1>1. EnablementInv /\ [EnablementNext]_enablementVars => [Stay]_enablementVars
    <2> SUFFICES ASSUME EnablementInv, EnablementNext, moves' = moves
                 PROVE /\ allowed \subseteq allowed'
                       /\ \A p \in Providers :
                            ~(catalogue[p].disabled \subseteq catalogue'[p].disabled) => Overtaken(p)
      OBVIOUS
    <2>0. /\ EnablementTypeOK /\ moves \in Nat /\ \A c \in Calls : calls[c] \in Asking /\ OverridesAreRead(c)
      BY DEF EnablementInv, EnablementTypeOK, CallInv
    <2>1. ASSUME NEW c \in Calls, WriteEntry(c)
          PROVE /\ allowed \subseteq allowed'
                /\ \A p \in Providers :
                     ~(catalogue[p].disabled \subseteq catalogue'[p].disabled) => Overtaken(p)
      <3>1. "catalogue" \in calls[c].todo /\ Current(c) = "catalogue"
        BY <2>0, <2>1, CurrentFacts DEF WriteEntry, Asking
      <3>2. \/ "overrides" \in calls[c].undone \/ calls[c].off = catalogue[calls[c].provider].disabled
        BY <2>0, <3>1 DEF OverridesAreRead
      <3>3. /\ catalogue'[calls[c].provider].disabled = calls[c].off /\ allowed' = allowed
            /\ \A p \in Providers : p # calls[c].provider => catalogue'[p] = catalogue[p]
        BY <2>0, <2>1 DEF WriteEntry, TurnsOn, EnablementTypeOK, Asking
      <3> QED
        BY <3>1, <3>2, <3>3 DEF Overtaken
    <2>2. ASSUME NEW p \in Providers, NEW tools \in SUBSET Capabilities, Ingest(p, tools)
          PROVE allowed' = allowed /\ \A r \in Providers : catalogue[r].disabled \subseteq catalogue'[r].disabled
      BY <2>0, <2>2 DEF Ingest, WithOff, EnablementTypeOK
    <2>3. ASSUME NEW c \in Calls, Write(c) PROVE allowed \subseteq allowed' /\ catalogue' = catalogue
      <3> DEFINE q == Request(c, Current(c), c)
      <3>1. /\ q \in IdRequests /\ q.step \in Enabling /\ (q.step = "scopes" => Adds(q.seen, q.etag))
        BY <2>3, WritesTyped DEF Write
      <3>2. Taken(q) /\ AppliedToId(q) /\ catalogue' = catalogue
        BY <2>3 DEF Write
      <3> HIDE DEF q
      <3> QED
        BY <2>0, <3>1, <3>2, Applied DEF IdRequests
    <2>4. ASSUME NEW q \in late, Arrive(q) PROVE allowed \subseteq allowed' /\ catalogue' = catalogue
      <3>1. q \in IdRequests /\ q.step \in Enabling /\ q.host \in Hosts /\ q.provider \in Providers
        BY <2>0 DEF EnablementTypeOK, IdRequests
      <3>2. Taken(q) /\ AppliedToId(q) /\ (q.step = "scopes" => Adds(q.seen, q.etag)) /\ catalogue' = catalogue
        BY <2>4 DEF Arrive, EnablementInv, LateInv
      <3> QED
        BY <2>0, <3>1, <3>2, Applied
    <2>5. ASSUME NEW c \in Calls,
                 \/ Repeat(c) \/ ReadResource(c) \/ ReadRows(c) \/ ReadEntry(c) \/ Recheck(c)
                 \/ Replay(c) \/ Refused(c) \/ Unanswered(c) \/ StillRunning(c) \/ EntryFails(c)
          PROVE allowed' = allowed /\ catalogue' = catalogue
      BY <2>5 DEF Repeat, ReadResource, ReadRows, ReadEntry, Recheck, Reads, Replay, Refused, Unanswered, StillRunning,
                  EntryFails
    <2>6. /\ \A h \in Hosts, row \in Rows, to \in {"absent", "fits", "unfit"} : ~ChangeRow(h, row, to)
          /\ \A scope \in Scopes : ~ChangeScopes(scope)
          /\ \A p \in Providers, enabled \in BOOLEAN, disabled \in SUBSET Capabilities :
               ~PutEntry(p, enabled, disabled)
      <3>1. ~Moves
        BY <2>0 DEF Moves
      <3> QED
        BY <3>1 DEF ChangeRow, ChangeScopes, PutEntry
    <2> QED
      BY <2>1, <2>2, <2>3, <2>4, <2>5, <2>6 DEF EnablementNext, Step
  <1>2. EnablementSpec => [][Stay]_enablementVars
    BY <1>1, EnablementInvariant, PTL DEF EnablementSpec
  <1> QED
    BY <1>2 DEF OthersChoicesStay
=============================================================================
