------------------------ MODULE DirectorySignInProofs ------------------------
(***************************************************************************)
(* Proofs about DirectorySignIn, for any firms, people, identities and     *)
(* callbacks.                                                              *)
(*                                                                         *)
(* The argument: a transaction holds its firms, and under a flow its       *)
(* session's row and person, so that no step touches what it checked when  *)
(* it began (FirmsStand, FlowsStand); what it then resolved stands but for *)
(* a person it does not lock, of whom only the account's end matters, and  *)
(* Commit checks that again.  A connection shares its person and holds the *)
(* firm and the address, so that what it checked stands too (ChecksStand). *)
(* A flow is consumed by one callback, so a transaction's locks are of a   *)
(* session no other callback acts for.                                     *)
(***************************************************************************)
EXTENDS DirectorySignIn, TLAPS

(***************************************************************************)
(* Types, and how a callback moves                                         *)
(***************************************************************************)
\* What stands for nothing yet has its type.
LEMMA StandIns ==
  /\ NoFlow \in Flows /\ Fresh \in Calls /\ NoRequest \in Requests
  /\ NoAccount \in Accounts /\ NoSession \in Sessions
  <1>1. (CHOOSE i \in Identities : TRUE) \in Identities /\ (CHOOSE f \in Firms : TRUE) \in Firms
    BY DirectoryAssumption
  <1>2. 0 \in Revisions
    BY DirectoryAssumption DEF Revisions
  <1> QED
    BY <1>1, <1>2
       DEF NoFlow, Fresh, NoRequest, NoAccount, NoSession, Flows, Calls, Requests, Accounts, Sessions

\* A callback that ends, or is refused, has its type.
LEMMA EndedTyped ==
  ASSUME TypeOK, NEW c \in Callbacks
  PROVE /\ Ended(c, "in") \in Calls /\ Ended(c, "refused") \in Calls
        /\ Refused(c) => call' \in [Callbacks -> Calls]
  <1>1. call[c] \in Calls
    BY DEF TypeOK
  <1>2. Ended(c, "in") \in Calls /\ Ended(c, "refused") \in Calls
    BY <1>1, StandIns DEF Ended, Calls
  <1> QED
    BY <1>2 DEF Refused, TypeOK

\* A command counts itself.
LEMMA MovesTyped ==
  ASSUME TypeOK, Move PROVE moves' \in 0 .. MaxMoves
  BY DirectoryAssumption DEF TypeOK, Move

\* What ends keeps its type.
LEMMA EndingsTyped ==
  ASSUME TypeOK
  PROVE /\ \A c \in Callbacks : [session[c] EXCEPT !.live = FALSE] \in Sessions
        /\ \A i \in Identities : [account[i] EXCEPT !.live = FALSE] \in Accounts
  <1>1. ASSUME NEW c \in Callbacks PROVE [session[c] EXCEPT !.live = FALSE] \in Sessions
    <2>1. session[c] \in Sessions
      BY DEF TypeOK
    <2> QED
      BY <2>1 DEF Sessions
  <1>2. ASSUME NEW i \in Identities PROVE [account[i] EXCEPT !.live = FALSE] \in Accounts
    <2>1. account[i] \in Accounts
      BY DEF TypeOK
    <2> QED
      BY <2>1 DEF Accounts
  <1> QED
    BY <1>1, <1>2

\* Every step keeps the types: one case for each action.
LEMMA TypeStep ==
  ASSUME TypeOK, RevisionsAreCounted, [Next]_vars PROVE TypeOK'
  <1>1. ASSUME NEW c \in Callbacks, NEW purpose \in {"link", "reauthenticate"}, NEW g \in Firms,
               Start(c, purpose, g)
    PROVE TypeOK'
    <2> DEFINE x == [purpose |-> purpose, status |-> "stored", row |-> session[c].row,
                     revision |-> directory[FirmOf(c)].revision, target |-> g,
                     goal |-> directory[g].row, aim |-> directory[g].revision]
    <2>1. call[c].identity \in Identities /\ session[c] \in Sessions
      BY DEF TypeOK, Calls
    <2>2. directory[g] \in [row : Revisions, revision : Revisions, live : BOOLEAN]
      BY DEF TypeOK
    <2>3. directory[FirmOf(c)] \in [row : Revisions, revision : Revisions, live : BOOLEAN]
      BY <2>1, DirectoryAssumption DEF TypeOK, FirmOf
    <2>4. x \in Flows
      BY <2>1, <2>2, <2>3 DEF Sessions, Flows
    <2>5. flow' = [flow EXCEPT ![c] = x]
      BY <1>1 DEF Start
    <2> HIDE DEF x
    <2>6. flow' \in [Callbacks -> Flows]
      BY <2>4, <2>5 DEF TypeOK
    <2> QED
      BY <1>1, <2>6 DEF TypeOK, Start, worldVars
  <1>2. ASSUME NEW c \in Callbacks, NEW i \in Identities, Return(c, i) PROVE TypeOK'
    <2>1. directory[Home[i]] \in [row : Revisions, revision : Revisions, live : BOOLEAN]
      BY DirectoryAssumption DEF TypeOK
    <2>2. [Fresh EXCEPT !.at = "exchange", !.identity = i,
             !.row = directory[Home[i]].row, !.revision = directory[Home[i]].revision] \in Calls
      BY <2>1, StandIns DEF Calls
    <2>3. call' \in [Callbacks -> Calls]
      BY <1>2, <2>2 DEF TypeOK, Return
    <2> QED
      BY <1>2, <2>3 DEF TypeOK, Return, worldVars
  <1>3. ASSUME NEW c \in Callbacks, NEW i \in Identities, NEW s \in Callbacks, observe(c, i, s)
    PROVE TypeOK'
    <2>1. directory[Home[i]] \in [row : Revisions, revision : Revisions, live : BOOLEAN]
      BY DirectoryAssumption DEF TypeOK
    <2>2. [Fresh EXCEPT !.at = "exchange", !.identity = i, !.flow = s,
             !.row = directory[Home[i]].row, !.revision = directory[Home[i]].revision] \in Calls
      BY <2>1, StandIns DEF Calls
    <2>3. call' \in [Callbacks -> Calls]
      BY <1>3, <2>2 DEF TypeOK, observe
    <2>4. flow[s] \in Flows
      BY DEF TypeOK
    <2>5. [flow[s] EXCEPT !.status = "consumed"] \in Flows
      BY <2>4 DEF Flows
    <2>6. flow' \in [Callbacks -> Flows]
      BY <1>3, <2>5 DEF TypeOK, observe
    <2> QED
      BY <1>3, <2>3, <2>6 DEF TypeOK, observe, worldVars
  <1>4. ASSUME NEW c \in Callbacks, NEW s \in Callbacks, ObserveAnothers(c, s) PROVE TypeOK'
    <2>0. call[c] \in Calls /\ flow[s] \in Flows
      BY DEF TypeOK
    <2>1. [call[c] EXCEPT !.at = "refused"] \in Calls
      BY <2>0 DEF Calls
    <2>2. call' \in [Callbacks -> Calls]
      BY <1>4, <2>1 DEF TypeOK, ObserveAnothers
    <2>3. [flow[s] EXCEPT !.status = "consumed"] \in Flows
      BY <2>0 DEF Flows
    <2>4. flow' \in [Callbacks -> Flows]
      BY <1>4, <2>3 DEF TypeOK, ObserveAnothers
    <2> QED
      BY <1>4, <2>2, <2>4 DEF TypeOK, ObserveAnothers, worldVars
  <1>5. ASSUME NEW c \in Callbacks, beforeTransaction(c) PROVE TypeOK'
    <2>0. call[c] \in Calls
      BY DEF TypeOK
    <2>1. [call[c] EXCEPT !.at = "locked"] \in Calls
      BY <2>0 DEF Calls
    <2>2. call' = [call EXCEPT ![c] = [call[c] EXCEPT !.at = "locked"]] \/ Refused(c)
      BY <1>5 DEF beforeTransaction
    <2>3. call' \in [Callbacks -> Calls]
      BY <2>1, <2>2, EndedTyped DEF TypeOK
    <2> QED
      BY <1>5, <2>3 DEF TypeOK, beforeTransaction, worldVars
  <1>6. ASSUME NEW c \in Callbacks, resolve(c) PROVE TypeOK'
    <2> DEFINE found == IF Verified(c) THEN resolveFederatedUser(c) ELSE "refused"
               owner == CASE found = "known" -> account[call[c].identity].user
                          [] found = "link" -> session[call[c].flow].user
                          [] OTHER -> Nobody
               x == [call[c] EXCEPT !.at = IF found = "conflict" THEN "noted" ELSE "resolved",
                       !.binds = found, !.user = owner, !.revision = directory[FirmOf(c)].revision]
    <2>1. call[c] \in Calls
      BY DEF TypeOK
    <2>2. found \in {"refused", "known", "link", "create", "conflict"}
      BY DEF resolveFederatedUser
    <2>3. directory[FirmOf(c)] \in [row : Revisions, revision : Revisions, live : BOOLEAN]
      BY <2>1, DirectoryAssumption DEF TypeOK, FirmOf, Calls
    <2>4. found = "link" => call[c].flow \in Callbacks
      BY <2>1 DEF Calls, resolveFederatedUser, Linking, HasFlow
    <2>5. account[call[c].identity].user \in Users \cup {Nobody}
      BY <2>1 DEF TypeOK, Calls, Accounts
    <2>6. found = "link" => session[call[c].flow].user \in Users \cup {Nobody}
      BY <2>4 DEF TypeOK, Sessions
    <2> HIDE DEF found
    <2>7. owner \in Users \cup {Nobody}
      BY <2>5, <2>6
    <2> HIDE DEF owner
    <2>8. x \in Calls
      BY <2>1, <2>2, <2>3, <2>7 DEF Calls
    <2>9. call' = [call EXCEPT ![c] = x] \/ Refused(c)
      BY <1>6 DEF resolve, found, owner
    <2> HIDE DEF x
    <2>10. call' \in [Callbacks -> Calls]
      BY <2>8, <2>9, EndedTyped DEF TypeOK
    <2> QED
      BY <1>6, <2>10 DEF TypeOK, resolve, worldVars
  <1>7. ASSUME NEW c \in Callbacks, Commit(c) PROVE TypeOK'
    <2>1. CASE Refused(c) /\ UNCHANGED <<worldVars, session>>
      BY <1>7, <2>1, EndedTyped DEF TypeOK, Commit, worldVars
    <2>2. ASSUME NEW u \in Users, Admit(c, u) PROVE TypeOK'
      <3>1. call[c].identity \in Identities
        BY DEF TypeOK, Calls
      <3>2. PICK i \in Identities : i = call[c].identity
        BY <3>1
      <3>3. Home[i] \in Firms /\ Person[i] \in People
        BY DirectoryAssumption
      <3>4. directory[Home[i]] \in [row : Revisions, revision : Revisions, live : BOOLEAN]
        BY <3>3 DEF TypeOK
      <3>5. user' \in [Users -> {"unborn", "active", "disabled", "retired", "erased"}]
        BY <2>2 DEF TypeOK, Admit
      <3>6. holder' \in [People -> Users \cup {Nobody}]
        BY <2>2, <3>2, <3>3 DEF TypeOK, Admit
      <3>7. [user |-> u, row |-> directory[Home[i]].row, live |-> TRUE] \in Accounts
        BY <3>4 DEF Accounts
      <3>8. account' \in [Identities -> Accounts]
        BY <2>2, <3>2, <3>7 DEF TypeOK, Admit
      <3>9. member' \in [Firms -> [Users -> {"none", "effective", "revoked"}]]
        BY <2>2, <3>2, <3>3 DEF TypeOK, Admit, provisionMembership
      <3>10. [user |-> u, row |-> directory[Home[i]].row, revision |-> directory[Home[i]].revision,
              live |-> TRUE] \in Sessions
        BY <3>4 DEF Sessions
      <3>11. session' \in [Callbacks -> Sessions]
        BY <2>2, <3>2, <3>10 DEF TypeOK, Admit
      <3>12. call' \in [Callbacks -> Calls]
        BY <2>2, EndedTyped DEF TypeOK, Admit
      <3> QED
        BY <1>7, <2>2, <3>5, <3>6, <3>8, <3>9, <3>11, <3>12 DEF TypeOK, Admit, Commit
    <2> QED
      BY <1>7, <2>1, <2>2 DEF Commit
  <1>8. ASSUME NEW c \in Callbacks, GiveUp(c) PROVE TypeOK'
    <2>1. call' \in [Callbacks -> Calls]
      BY <1>8, EndedTyped DEF GiveUp
    <2> QED
      BY <1>8, <2>1 DEF TypeOK, GiveUp, Refused, Ended, worldVars
  <1>9. ASSUME NEW c \in Callbacks, reserveConnection(c) PROVE TypeOK'
    <2>1. request[c] \in Requests
      BY DEF TypeOK
    <2>2. [request[c] EXCEPT !.at = "asking"] \in Requests
      BY <2>1 DEF Requests
    <2>3. request' = [request EXCEPT ![c] = [request[c] EXCEPT !.at = "asking"]] \/ UNCHANGED request
      BY <1>9 DEF reserveConnection
    <2>4. request' \in [Callbacks -> Requests]
      BY <2>2, <2>3 DEF TypeOK
    <2>5. call' \in [Callbacks -> Calls]
      BY <1>9, EndedTyped DEF TypeOK, reserveConnection
    <2> QED
      BY <1>9, <2>4, <2>5 DEF TypeOK, reserveConnection, worldVars
  <1>10. ASSUME NEW c \in Callbacks, InsertRequest(c) PROVE TypeOK'
    <2>1. [NoRequest EXCEPT !.status = "sent", !.row = call[c].row, !.revision = call[c].revision]
            \in Requests
      BY StandIns DEF Requests, Calls, TypeOK
    <2>2. request' \in [Callbacks -> Requests]
      BY <1>10, <2>1, StandIns DEF TypeOK, InsertRequest
    <2>3. call' \in [Callbacks -> Calls]
      BY <1>10, EndedTyped DEF TypeOK, InsertRequest
    <2> QED
      BY <1>10, <2>2, <2>3 DEF TypeOK, InsertRequest, worldVars
  <1>11. ASSUME NEW c \in Callbacks, Expire(c) PROVE TypeOK'
    <2>1. request' \in [Callbacks -> Requests]
      BY <1>11, StandIns DEF TypeOK, Expire, Requests
    <2> QED
      BY <1>11, <2>1 DEF TypeOK, Expire, worldVars
  <1>12. ASSUME NEW c \in Callbacks, HoldAddress(c) PROVE TypeOK'
    <2>1. request[c] \in Requests /\ call[c].identity \in Identities
      BY DEF TypeOK, Calls
    <2>2. holder[AddressOf(c)] \in Users \cup {Nobody}
      BY <2>1, DirectoryAssumption DEF TypeOK, AddressOf
    <2>3. PICK u \in Users \cup {Nobody} : u = holder[AddressOf(c)]
      BY <2>2
    <2>4. [request[c] EXCEPT !.at = "held", !.seen = u] \in Requests
      BY <2>1 DEF Requests
    <2>5. request' = [request EXCEPT ![c] = [request[c] EXCEPT !.at = "held", !.seen = u]]
      BY <1>12, <2>3 DEF HoldAddress, TypeOK
    <2>6. request' \in [Callbacks -> Requests]
      BY <2>4, <2>5 DEF TypeOK
    <2> QED
      BY <1>12, <2>6 DEF TypeOK, HoldAddress, worldVars
  <1>13. ASSUME NEW c \in Callbacks, LockConnection(c) PROVE TypeOK'
    <2>1. request[c] \in Requests
      BY DEF TypeOK
    <2>2. [request[c] EXCEPT !.at = "locked"] \in Requests
      BY <2>1 DEF Requests
    <2>3. request' \in [Callbacks -> Requests]
      BY <1>13, <2>2 DEF TypeOK, LockConnection
    <2> QED
      BY <1>13, <2>3 DEF TypeOK, LockConnection, worldVars
  <1>14. ASSUME NEW c \in Callbacks, CheckConnection(c) PROVE TypeOK'
    <2>1. request[c] \in Requests
      BY DEF TypeOK
    <2>2. [request[c] EXCEPT !.at = "checked"] \in Requests
      BY <2>1 DEF Requests
    <2>3. request' \in [Callbacks -> Requests]
      BY <1>14, <2>2, StandIns DEF TypeOK, CheckConnection
    <2> QED
      BY <1>14, <2>3 DEF TypeOK, CheckConnection, worldVars
  <1>15. ASSUME NEW c \in Callbacks, connectDirectoryAccount(c) PROVE TypeOK'
    <2>1. call[c].identity \in Identities /\ request[c] \in Requests
      BY DEF TypeOK, Calls
    <2>2. [user |-> request[c].seen, row |-> request[c].row, live |-> TRUE] \in Accounts
      BY <2>1 DEF Accounts, Requests
    <2>3. account' \in [Identities -> Accounts]
      BY <1>15, <2>1, <2>2 DEF TypeOK, connectDirectoryAccount
    <2>4. request' \in [Callbacks -> Requests]
      BY <1>15, StandIns DEF TypeOK, connectDirectoryAccount
    <2> QED
      BY <1>15, <2>3, <2>4 DEF TypeOK, connectDirectoryAccount, worldVars
  <1>16. ASSUME NEW c \in Callbacks, SignOut(c) PROVE TypeOK'
    <2>1. session' \in [Callbacks -> Sessions]
      BY <1>16, EndingsTyped DEF TypeOK, SignOut
    <2>2. moves' \in 0 .. MaxMoves
      BY <1>16, MovesTyped DEF SignOut
    <2> QED
      BY <1>16, <2>1, <2>2 DEF TypeOK, SignOut, Move, worldVars
  <1>17. ASSUME NEW f \in Firms, SetFirm(f) PROVE TypeOK'
    <2>1. firm' \in [Firms -> BOOLEAN]
      BY <1>17 DEF TypeOK, SetFirm, OfFirm, Move
    <2>2. moves' \in 0 .. MaxMoves
      BY <1>17, MovesTyped DEF SetFirm, OfFirm
    <2> QED
      BY <1>17, <2>1, <2>2 DEF TypeOK, SetFirm, OfFirm, Move, worldVars
  <1>18. ASSUME NEW f \in Firms, SetDomain(f) PROVE TypeOK'
    <2>1. domain' \in [Firms -> BOOLEAN]
      BY <1>18 DEF TypeOK, SetDomain, OfFirm, Move
    <2>2. moves' \in 0 .. MaxMoves
      BY <1>18, MovesTyped DEF SetDomain, OfFirm
    <2> QED
      BY <1>18, <2>1, <2>2 DEF TypeOK, SetDomain, OfFirm, Move, worldVars
  <1>19. ASSUME NEW f \in Firms, putSsoProvider(f) PROVE TypeOK'
    <2> DEFINE d == directory[f]
    <2>1. /\ d \in [row : Revisions, revision : Revisions, live : BOOLEAN]
          /\ d.row <= moves + 1 /\ d.revision <= moves + 1 /\ moves \in Nat /\ moves < MaxMoves
          /\ moves' = moves + 1
      BY <1>19, DirectoryAssumption DEF TypeOK, RevisionsAreCounted, putSsoProvider, OfFirm, Move
    <2>0. d.revision + 1 \in Revisions /\ d.row + 1 \in Revisions /\ 1 \in Revisions
      BY <2>1, DirectoryAssumption DEF Revisions
    <2>2. (IF d.live THEN [d EXCEPT !.revision = d.revision + 1]
            ELSE [row |-> d.row + 1, revision |-> 1, live |-> TRUE])
              \in [row : Revisions, revision : Revisions, live : BOOLEAN]
      BY <2>1, <2>0
    <2> HIDE DEF d
    <2>6. directory' = [directory EXCEPT ![f] = IF d.live THEN [d EXCEPT !.revision = d.revision + 1] ELSE [row |-> d.row + 1, revision |-> 1, live |-> TRUE]]
      BY <1>19 DEF putSsoProvider, d, TypeOK
    <2>3. directory' \in [Firms -> [row : Revisions, revision : Revisions, live : BOOLEAN]]
      BY <2>2, <2>6 DEF TypeOK
    <2>4. moves' \in 0 .. MaxMoves
      BY <2>1, DirectoryAssumption
    <2> QED
      BY <1>19, <2>3, <2>4 DEF TypeOK, putSsoProvider, OfFirm
  <1>20. ASSUME NEW f \in Firms, deleteSsoProvider(f) PROVE TypeOK'
    <2> DEFINE d == directory[f]
    <2>1. /\ d \in [row : Revisions, revision : Revisions, live : BOOLEAN]
          /\ d.row <= moves + 1 /\ d.revision <= moves + 1 /\ moves \in Nat /\ moves < MaxMoves
          /\ moves' = moves + 1
      BY <1>20, DirectoryAssumption DEF TypeOK, RevisionsAreCounted, deleteSsoProvider, OfFirm, Move
    <2>0. d.revision + 1 \in Revisions /\ d.row + 1 \in Revisions /\ 1 \in Revisions
      BY <2>1, DirectoryAssumption DEF Revisions
    <2>2. [d EXCEPT !.live = FALSE, !.revision = d.revision + 1]
              \in [row : Revisions, revision : Revisions, live : BOOLEAN]
      BY <2>1, <2>0
    <2> HIDE DEF d
    <2>6. directory' = [directory EXCEPT ![f] = [d EXCEPT !.live = FALSE, !.revision = d.revision + 1]]
      BY <1>20 DEF deleteSsoProvider, d, TypeOK
    <2>3. directory' \in [Firms -> [row : Revisions, revision : Revisions, live : BOOLEAN]]
      BY <2>2, <2>6 DEF TypeOK
    <2>4. moves' \in 0 .. MaxMoves
      BY <2>1, DirectoryAssumption
    <2> QED
      BY <1>20, <2>3, <2>4 DEF TypeOK, deleteSsoProvider, OfFirm
  <1>21. ASSUME NEW f \in Firms, NEW u \in Users, RemoveMember(f, u) PROVE TypeOK'
    <2>1. member' \in [Firms -> [Users -> {"none", "effective", "revoked"}]]
      BY <1>21 DEF TypeOK, RemoveMember, OfFirm, Move
    <2>2. moves' \in 0 .. MaxMoves
      BY <1>21, MovesTyped DEF RemoveMember, OfFirm
    <2> QED
      BY <1>21, <2>1, <2>2 DEF TypeOK, RemoveMember, OfFirm, Move, worldVars
  <1>22. ASSUME NEW f \in Firms, NEW u \in Users, ReinstateMember(f, u) PROVE TypeOK'
    <2>1. member' \in [Firms -> [Users -> {"none", "effective", "revoked"}]]
      BY <1>22 DEF TypeOK, ReinstateMember, OfFirm, Move
    <2>2. moves' \in 0 .. MaxMoves
      BY <1>22, MovesTyped DEF ReinstateMember, OfFirm
    <2> QED
      BY <1>22, <2>1, <2>2 DEF TypeOK, ReinstateMember, OfFirm, Move, worldVars
  <1>23. ASSUME NEW f \in Firms, NEW p \in People, NEW u \in Users, importMembers(f, p, u) PROVE TypeOK'
    <2>1. user' \in [Users -> {"unborn", "active", "disabled", "retired", "erased"}]
      BY <1>23 DEF TypeOK, importMembers, Move
    <2>2. holder' \in [People -> Users \cup {Nobody}]
      <3>1. holder' = holder \/ holder' = [holder EXCEPT ![p] = u]
        BY <1>23 DEF importMembers
      <3> QED
        BY <3>1 DEF TypeOK
    <2>3. member' \in [Firms -> [Users -> {"none", "effective", "revoked"}]]
      BY <1>23 DEF TypeOK, importMembers, Move
    <2>4. moves' \in 0 .. MaxMoves
      BY <1>23, MovesTyped DEF importMembers
    <2> QED
      BY <1>23, <2>1, <2>2, <2>3, <2>4 DEF TypeOK, importMembers, Move, worldVars
  <1>24. ASSUME NEW u \in Users, disableUser(u) PROVE TypeOK'
    <2>1. user' \in [Users -> {"unborn", "active", "disabled", "retired", "erased"}]
      BY <1>24 DEF TypeOK, disableUser, OfUser, Move, EndSessions
    <2>2. session' \in [Callbacks -> Sessions]
      BY <1>24, EndingsTyped DEF TypeOK, disableUser, EndSessions
    <2>3. moves' \in 0 .. MaxMoves
      BY <1>24, MovesTyped DEF disableUser, OfUser
    <2> QED
      BY <1>24, <2>1, <2>2, <2>3 DEF TypeOK, disableUser, OfUser, Move, EndSessions, worldVars
  <1>25. ASSUME NEW u \in Users, enableUser(u) PROVE TypeOK'
    <2>1. user' \in [Users -> {"unborn", "active", "disabled", "retired", "erased"}]
      BY <1>25 DEF TypeOK, enableUser, OfUser, Move
    <2>2. moves' \in 0 .. MaxMoves
      BY <1>25, MovesTyped DEF enableUser, OfUser
    <2> QED
      BY <1>25, <2>1, <2>2 DEF TypeOK, enableUser, OfUser, Move, worldVars
  <1>26. ASSUME NEW u \in Users, retireUserEmail(u) PROVE TypeOK'
    <2>1. user' \in [Users -> {"unborn", "active", "disabled", "retired", "erased"}]
      BY <1>26 DEF TypeOK, retireUserEmail, OfUser, Move, ReleaseAddress
    <2>2. holder' \in [People -> Users \cup {Nobody}]
      BY <1>26 DEF TypeOK, retireUserEmail, OfUser, Move, ReleaseAddress
    <2>3. request' \in [Callbacks -> Requests]
      BY <1>26, StandIns DEF TypeOK, retireUserEmail, OfUser, Move, ReleaseAddress, Requests
    <2>4. moves' \in 0 .. MaxMoves
      BY <1>26, MovesTyped DEF retireUserEmail, OfUser
    <2> QED
      BY <1>26, <2>1, <2>2, <2>3, <2>4
         DEF TypeOK, retireUserEmail, OfUser, Move, ReleaseAddress, worldVars
  <1>27. ASSUME NEW u \in Users, eraseUser(u) PROVE TypeOK'
    <2>1. user' \in [Users -> {"unborn", "active", "disabled", "retired", "erased"}]
      BY <1>27 DEF TypeOK, eraseUser, OfUser, Move, EndSessions, ReleaseAddress
    <2>2. holder' \in [People -> Users \cup {Nobody}]
      BY <1>27 DEF TypeOK, eraseUser, OfUser, Move, EndSessions, ReleaseAddress
    <2>3. account' \in [Identities -> Accounts]
      BY <1>27, EndingsTyped DEF TypeOK, eraseUser
    <2>4. member' \in [Firms -> [Users -> {"none", "effective", "revoked"}]]
      BY <1>27 DEF TypeOK, eraseUser, OfUser, Move, EndSessions, ReleaseAddress
    <2>5. session' \in [Callbacks -> Sessions]
      BY <1>27, EndingsTyped DEF TypeOK, eraseUser, EndSessions
    <2>6. request' \in [Callbacks -> Requests]
      BY <1>27, StandIns DEF TypeOK, eraseUser, OfUser, Move, EndSessions, ReleaseAddress, Requests
    <2>7. moves' \in 0 .. MaxMoves
      BY <1>27, MovesTyped DEF eraseUser, OfUser
    <2> QED
      BY <1>27, <2>1, <2>2, <2>3, <2>4, <2>5, <2>6, <2>7
         DEF TypeOK, eraseUser, OfUser, Move, EndSessions, ReleaseAddress, worldVars
  <1>28. CASE UNCHANGED vars
    BY <1>28 DEF TypeOK, vars, worldVars
  <1> QED
    BY <1>1, <1>2, <1>3, <1>4, <1>5, <1>6, <1>7, <1>8, <1>9, <1>10, <1>11, <1>12,
       <1>13, <1>14, <1>15, <1>16, <1>17, <1>18, <1>19, <1>20, <1>21, <1>22, <1>23, <1>24,
       <1>25, <1>26, <1>27, <1>28 DEF Next

\* Every step keeps the rows and revisions of directories below the commands made.
LEMMA CountStep ==
  ASSUME TypeOK, RevisionsAreCounted, [Next]_vars PROVE RevisionsAreCounted'
  <1> USE DEF RevisionsAreCounted
  <1>1. ASSUME NEW c \in Callbacks, NEW purpose \in {"link", "reauthenticate"}, NEW g \in Firms,
               Start(c, purpose, g)
    PROVE RevisionsAreCounted'
    BY <1>1 DEF Start, worldVars, TypeOK, Revisions
  <1>2. ASSUME NEW c \in Callbacks, NEW i \in Identities, Return(c, i) PROVE RevisionsAreCounted'
    BY <1>2 DEF Return, worldVars, TypeOK, Revisions
  <1>3. ASSUME NEW c \in Callbacks, NEW i \in Identities, NEW s \in Callbacks, observe(c, i, s)
    PROVE RevisionsAreCounted'
    BY <1>3 DEF observe, worldVars, TypeOK, Revisions
  <1>4. ASSUME NEW c \in Callbacks, NEW s \in Callbacks, ObserveAnothers(c,
               s) PROVE RevisionsAreCounted'
    BY <1>4 DEF ObserveAnothers, worldVars, TypeOK, Revisions
  <1>5. ASSUME NEW c \in Callbacks, beforeTransaction(c) PROVE RevisionsAreCounted'
    BY <1>5 DEF beforeTransaction, Refused, Ended, worldVars, TypeOK, Revisions
  <1>6. ASSUME NEW c \in Callbacks, resolve(c) PROVE RevisionsAreCounted'
    BY <1>6 DEF resolve, Refused, Ended, resolveFederatedUser, worldVars, TypeOK, Revisions
  <1>7. ASSUME NEW c \in Callbacks, Commit(c) PROVE RevisionsAreCounted'
    BY <1>7 DEF Commit, Admit, provisionMembership, Ended, Refused, worldVars, TypeOK, Revisions
  <1>8. ASSUME NEW c \in Callbacks, GiveUp(c) PROVE RevisionsAreCounted'
    BY <1>8 DEF GiveUp, Refused, Ended, worldVars, TypeOK, Revisions
  <1>9. ASSUME NEW c \in Callbacks, reserveConnection(c) PROVE RevisionsAreCounted'
    BY <1>9 DEF reserveConnection, Refused, Ended, worldVars, TypeOK, Revisions
  <1>10. ASSUME NEW c \in Callbacks, InsertRequest(c) PROVE RevisionsAreCounted'
    BY <1>10 DEF InsertRequest, Refused, Ended, worldVars, TypeOK, Revisions
  <1>11. ASSUME NEW c \in Callbacks, Expire(c) PROVE RevisionsAreCounted'
    BY <1>11 DEF Expire, worldVars, TypeOK, Revisions
  <1>12. ASSUME NEW c \in Callbacks, HoldAddress(c) PROVE RevisionsAreCounted'
    BY <1>12 DEF HoldAddress, worldVars, TypeOK, Revisions
  <1>13. ASSUME NEW c \in Callbacks, LockConnection(c) PROVE RevisionsAreCounted'
    BY <1>13 DEF LockConnection, worldVars, TypeOK, Revisions
  <1>14. ASSUME NEW c \in Callbacks, CheckConnection(c) PROVE RevisionsAreCounted'
    BY <1>14 DEF CheckConnection, worldVars, TypeOK, Revisions
  <1>15. ASSUME NEW c \in Callbacks, connectDirectoryAccount(c) PROVE RevisionsAreCounted'
    BY <1>15 DEF connectDirectoryAccount, worldVars, TypeOK, Revisions
  <1>16. ASSUME NEW c \in Callbacks, SignOut(c) PROVE RevisionsAreCounted'
    BY <1>16 DEF SignOut, Move, worldVars, TypeOK, Revisions
  <1>17. ASSUME NEW f \in Firms, SetFirm(f) PROVE RevisionsAreCounted'
    BY <1>17 DEF SetFirm, OfFirm, Move, worldVars, TypeOK, Revisions
  <1>18. ASSUME NEW f \in Firms, SetDomain(f) PROVE RevisionsAreCounted'
    BY <1>18 DEF SetDomain, OfFirm, Move, worldVars, TypeOK, Revisions
  <1>19. ASSUME NEW f \in Firms, putSsoProvider(f) PROVE RevisionsAreCounted'
    <2>1. /\ moves \in Nat /\ moves' = moves + 1
          /\ \A g \in Firms : directory[g] \in [row : Nat, revision : Nat, live : BOOLEAN]
      BY <1>19, DirectoryAssumption DEF TypeOK, putSsoProvider, OfFirm, Move, Revisions
    <2> DEFINE x == IF directory[f].live THEN [directory[f] EXCEPT !.revision = directory[f].revision + 1]
                    ELSE [row |-> directory[f].row + 1, revision |-> 1, live |-> TRUE]
    <2>2. x.row <= moves' + 1 /\ x.revision <= moves' + 1
      BY <2>1
    <2>3. directory' = [directory EXCEPT ![f] = x]
      BY <1>19 DEF putSsoProvider
    <2> HIDE DEF x
    <2> QED
      BY <2>1, <2>2, <2>3 DEF TypeOK
  <1>20. ASSUME NEW f \in Firms, deleteSsoProvider(f) PROVE RevisionsAreCounted'
    BY <1>20, DirectoryAssumption DEF deleteSsoProvider, OfFirm, Move, worldVars, TypeOK, Revisions
  <1>21. ASSUME NEW f \in Firms, NEW u \in Users, RemoveMember(f, u) PROVE RevisionsAreCounted'
    BY <1>21 DEF RemoveMember, OfFirm, Move, worldVars, TypeOK, Revisions
  <1>22. ASSUME NEW f \in Firms, NEW u \in Users, ReinstateMember(f, u) PROVE RevisionsAreCounted'
    BY <1>22 DEF ReinstateMember, OfFirm, Move, worldVars, TypeOK, Revisions
  <1>23. ASSUME NEW f \in Firms, NEW p \in People, NEW u \in Users, importMembers(f, p, u)
    PROVE RevisionsAreCounted'
    BY <1>23 DEF importMembers, Move, worldVars, TypeOK, Revisions
  <1>24. ASSUME NEW u \in Users, disableUser(u) PROVE RevisionsAreCounted'
    BY <1>24 DEF disableUser, OfUser, Move, EndSessions, worldVars, TypeOK, Revisions
  <1>25. ASSUME NEW u \in Users, enableUser(u) PROVE RevisionsAreCounted'
    BY <1>25 DEF enableUser, OfUser, Move, worldVars, TypeOK, Revisions
  <1>26. ASSUME NEW u \in Users, retireUserEmail(u) PROVE RevisionsAreCounted'
    BY <1>26 DEF retireUserEmail, OfUser, Move, ReleaseAddress, worldVars, TypeOK, Revisions
  <1>27. ASSUME NEW u \in Users, eraseUser(u) PROVE RevisionsAreCounted'
    BY <1>27 DEF eraseUser, OfUser, Move, EndSessions, ReleaseAddress, worldVars, TypeOK, Revisions
  <1>28. CASE UNCHANGED vars
    BY <1>28 DEF vars, worldVars
  <1> QED
    BY <1>1, <1>2, <1>3, <1>4, <1>5, <1>6, <1>7, <1>8, <1>9, <1>10, <1>11, <1>12,
       <1>13, <1>14, <1>15, <1>16, <1>17, <1>18, <1>19, <1>20, <1>21, <1>22, <1>23, <1>24,
       <1>25, <1>26, <1>27, <1>28 DEF Next

\* What a step of one callback may make of it: it stays of its identity and of its flow, it
\* moves forward, it ends in a session only if it makes one, and it keeps the row it read.
Goes(c) ==
  /\ At(c, {"exchange", "locked", "resolved", "noted"})
  /\ \E x \in Calls : /\ call' = [call EXCEPT ![c] = x]
                      /\ x.identity = call[c].identity /\ x.flow = call[c].flow
                      /\ x.at \in {"locked", "resolved", "noted", "refused", "in"}
                      /\ x.at = "in" => session'[c] # NoSession
                      /\ x.at = "locked" => beforeTransaction(c)
                      /\ x.at \in {"resolved", "noted"} => resolve(c)
                      /\ x.at \in {"locked", "resolved"} => x.row = call[c].row

\* Each of a callback's own steps, but the flow's, is such a move, and leaves flows alone.
LEMMA CallsGo ==
  ASSUME TypeOK, TypeOK', CallsKeepTheirPlace, NEW c \in Callbacks,
         beforeTransaction(c) \/ resolve(c) \/ Commit(c) \/ GiveUp(c) \/ reserveConnection(c) \/ InsertRequest(c)
  PROVE /\ Goes(c) \/ (At(c, {"noted"}) /\ UNCHANGED call)
        /\ UNCHANGED flow
  <1>1. call[c] \in Calls /\ call'[c] \in Calls
    BY DEF TypeOK
  <1>2. Ended(c, "refused").identity = call[c].identity /\ Ended(c, "refused").flow = call[c].flow
        /\ Ended(c, "refused").at = "refused"
    BY DEF Ended, Fresh
  <1>2a. Ended(c, "in").identity = call[c].identity /\ Ended(c, "in").flow = call[c].flow
        /\ Ended(c, "in").at = "in"
    BY DEF Ended, Fresh
  <1>3. ASSUME Refused(c), At(c, {"exchange", "locked", "resolved", "noted"}) PROVE Goes(c)
    BY <1>1, <1>2, <1>3, EndedTyped DEF Goes, Refused
  <1>4. CASE beforeTransaction(c)
    <2>1. At(c, {"exchange"}) /\ UNCHANGED flow
      BY <1>4 DEF beforeTransaction
    <2>2. Refused(c) \/ call' = [call EXCEPT ![c] = [call[c] EXCEPT !.at = "locked"]]
      BY <1>4 DEF beforeTransaction
    <2>3. ASSUME call' = [call EXCEPT ![c] = [call[c] EXCEPT !.at = "locked"]] PROVE Goes(c)
      <3>1. [call[c] EXCEPT !.at = "locked"] \in Calls
        BY <1>1 DEF Calls
      <3> QED
        BY <1>1, <1>4, <2>1, <2>3, <3>1 DEF Goes, At, Calls
    <2> QED
      BY <1>3, <2>1, <2>2, <2>3 DEF At
  <1>5. CASE resolve(c)
    <2>1. At(c, {"locked"}) /\ UNCHANGED flow
      BY <1>5 DEF resolve
    <2>2. Refused(c) \/ \E at \in {"noted", "resolved"} : \E b, u, r :
            call' = [call EXCEPT ![c] = [call[c] EXCEPT !.at = at, !.binds = b, !.user = u, !.revision = r]]
      <3> DEFINE found == IF Verified(c) THEN resolveFederatedUser(c) ELSE "refused"
                 owner == CASE found = "known" -> account[call[c].identity].user
                            [] found = "link" -> session[call[c].flow].user
                            [] OTHER -> Nobody
                 place == IF found = "conflict" THEN "noted" ELSE "resolved"
      <3>1. Refused(c) \/ call' = [call EXCEPT ![c] = [call[c] EXCEPT !.at = place, !.binds = found,
                                   !.user = owner, !.revision = directory[FirmOf(c)].revision]]
        BY <1>5 DEF resolve
      <3>2. place \in {"noted", "resolved"}
        OBVIOUS
      <3> HIDE DEF found, owner, place
      <3> QED
        BY <3>1, <3>2
    <2>3. ASSUME NEW at \in {"noted", "resolved"}, NEW b, NEW u, NEW r,
            call' = [call EXCEPT ![c] = [call[c] EXCEPT !.at = at, !.binds = b, !.user = u, !.revision = r]]
          PROVE Goes(c)
      <3>1. call'[c] = [call[c] EXCEPT !.at = at, !.binds = b, !.user = u, !.revision = r]
        BY <2>3 DEF TypeOK
      <3>2. /\ call'[c].identity = call[c].identity /\ call'[c].flow = call[c].flow
            /\ call'[c].at = at /\ call'[c].row = call[c].row
        BY <1>1, <3>1 DEF Calls
      <3>3. call' = [call EXCEPT ![c] = call'[c]]
        BY <2>3, <3>1
      <3> QED
        BY <1>1, <1>5, <2>1, <3>2, <3>3 DEF Goes, At
    <2> QED
      BY <1>3, <2>1, <2>2, <2>3 DEF At
  <1>6. CASE Commit(c)
    <2>1. At(c, {"resolved"}) /\ UNCHANGED flow
      BY <1>6 DEF Commit
    <2>2. ASSUME NEW u \in Users, Admit(c, u) PROVE Goes(c)
      <3>1. session'[c].live
        BY <2>2 DEF Admit, TypeOK
      <3>2. session'[c] # NoSession
        BY <3>1 DEF NoSession
      <3>3. call' = [call EXCEPT ![c] = Ended(c, "in")]
        BY <2>2 DEF Admit
      <3> QED
        BY <1>1, <1>2a, <2>1, <3>2, <3>3, EndedTyped DEF Goes, At
    <2>3. Refused(c) \/ \E u \in Users : Admit(c, u)
      BY <1>6 DEF Commit
    <2> QED
      BY <1>3, <2>1, <2>2, <2>3 DEF At
  <1>7. CASE GiveUp(c)
    BY <1>3, <1>7 DEF GiveUp, At
  <1>8. CASE reserveConnection(c)
    BY <1>3, <1>8 DEF reserveConnection, At
  <1>9. CASE InsertRequest(c)
    <2>1. At(c, {"noted"})
      BY <1>9 DEF InsertRequest, CallsKeepTheirPlace
    <2> QED
      BY <1>3, <1>9, <2>1 DEF InsertRequest, At
  <1> QED
    BY <1>4, <1>5, <1>6, <1>7, <1>8, <1>9

(***************************************************************************)
(* Callbacks keep their place                                              *)
(***************************************************************************)
\* CallsKeepTheirPlace, of one callback.
KeepsItsPlace(c) ==
  /\ session[c] # NoSession <=> At(c, {"in"})
  /\ At(c, {"in"}) =>
       session[c].user \in Users /\ account[call[c].identity].user = session[c].user
  /\ request[c].at = "asking" => At(c, {"noted"})
  /\ request[c] # NoRequest /\ request[c].at # "asking" => At(c, {"refused"})

\* To end a person's sessions changes only whether they are live.
LEMMA SessionsEnd ==
  ASSUME TypeOK, CallsKeepTheirPlace, NEW u \in Users, EndSessions(u), NEW c \in Callbacks
  PROVE /\ session'[c].user = session[c].user /\ session'[c].row = session[c].row
        /\ session'[c].revision = session[c].revision
        /\ session'[c].live <=> session[c].live /\ session[c].user # u
        /\ session'[c] = NoSession <=> session[c] = NoSession
  <1>1. session[c] \in Sessions
    BY DEF TypeOK
  <1>2. session[c].user = u => session'[c] = [session[c] EXCEPT !.live = FALSE]
    BY DEF EndSessions
  <1>3. session[c].user # u => session'[c] = session[c]
    BY DEF EndSessions
  <1>4. session[c].user = u => session[c] # NoSession
    BY DirectoryAssumption DEF NoSession
  <1>5. session[c].user = u => session'[c].user = u /\ u # Nobody
    BY <1>1, <1>2, DirectoryAssumption DEF Sessions
  <1> QED
    BY <1>1, <1>2, <1>3, <1>4, <1>5 DEF NoSession, Sessions

\* Every step keeps CallsKeepTheirPlace.
LEMMA PlaceStep ==
  ASSUME TypeOK, TypeOK', CallsKeepTheirPlace, [Next]_vars
  PROVE CallsKeepTheirPlace'
  <1> SUFFICES ASSUME NEW d \in Callbacks PROVE KeepsItsPlace(d)'
    BY DEF CallsKeepTheirPlace, KeepsItsPlace
  <1>0. \A e \in Callbacks : KeepsItsPlace(e)
    BY DEF CallsKeepTheirPlace, KeepsItsPlace
  <1>00. call[d].identity \in Identities /\ (At(d, {"in"}) => Exact(call[d].identity))
    <2>1. call[d].identity \in Identities
      BY DEF TypeOK, Calls
    <2>2. At(d, {"in"}) => account[call[d].identity].user # Nobody
      BY <1>0, DirectoryAssumption DEF KeepsItsPlace
    <2> QED
      BY <2>1, <2>2 DEF Exact, NoAccount
  <1>1. ASSUME NEW c \in Callbacks, NEW purpose \in {"link", "reauthenticate"}, NEW g \in Firms,
               Start(c, purpose, g)
    PROVE KeepsItsPlace(d)'
    BY <1>1, <1>0 DEF Start, KeepsItsPlace, At, worldVars
  <1>2. ASSUME NEW c \in Callbacks, NEW i \in Identities, Return(c, i) PROVE KeepsItsPlace(d)'
    <2>1. /\ UNCHANGED <<session, account, request>> /\ At(c, {"new"})
          /\ call'[c].at \in {"exchange", "refused"}
          /\ \A e \in Callbacks \ {c} : call'[e] = call[e]
      BY <1>2 DEF Return, worldVars, At, TypeOK, Fresh
    <2> QED
      BY <1>0, <2>1 DEF KeepsItsPlace, At, NoRequest
  <1>3. ASSUME NEW c \in Callbacks, NEW i \in Identities, NEW s \in Callbacks, observe(c, i, s)
    PROVE KeepsItsPlace(d)'
    <2>1. /\ UNCHANGED <<session, account, request>> /\ At(c, {"new"})
          /\ call'[c].at \in {"exchange", "refused"}
          /\ \A e \in Callbacks \ {c} : call'[e] = call[e]
      BY <1>3 DEF observe, worldVars, At, TypeOK, Fresh
    <2> QED
      BY <1>0, <2>1 DEF KeepsItsPlace, At, NoRequest
  <1>4. ASSUME NEW c \in Callbacks, NEW s \in Callbacks, ObserveAnothers(c, s) PROVE KeepsItsPlace(d)'
    <2>1. /\ UNCHANGED <<session, account, request>> /\ At(c, {"new"})
          /\ call'[c].at \in {"exchange", "refused"}
          /\ \A e \in Callbacks \ {c} : call'[e] = call[e]
      BY <1>4 DEF ObserveAnothers, worldVars, At, TypeOK, Fresh
    <2> QED
      BY <1>0, <2>1 DEF KeepsItsPlace, At, NoRequest
  <1>5. ASSUME NEW c \in Callbacks, beforeTransaction(c) PROVE KeepsItsPlace(d)'
    <2>0. UNCHANGED <<session, account, request>> /\ ~At(c, {"noted"})
      BY <1>5 DEF beforeTransaction, worldVars, At
    <2>1. Goes(c) /\ UNCHANGED <<session, account, request>> /\ ~At(c, {"noted"})
      BY <1>5, <2>0, CallsGo
    <2> QED
      BY <1>0, <2>1 DEF Goes, KeepsItsPlace, At, NoRequest, TypeOK
  <1>6. ASSUME NEW c \in Callbacks, resolve(c) PROVE KeepsItsPlace(d)'
    <2>0. UNCHANGED <<session, account, request>> /\ ~At(c, {"noted"})
      BY <1>6 DEF resolve, worldVars, At
    <2>1. Goes(c) /\ UNCHANGED <<session, account, request>> /\ ~At(c, {"noted"})
      BY <1>6, <2>0, CallsGo
    <2> QED
      BY <1>0, <2>1 DEF Goes, KeepsItsPlace, At, NoRequest, TypeOK
  <1>7. ASSUME NEW c \in Callbacks, Commit(c) PROVE KeepsItsPlace(d)'
    <2>1. CASE Refused(c) /\ UNCHANGED <<worldVars, session>>
      <3>0. UNCHANGED <<session, account, request>> /\ ~At(c, {"noted"})
        BY <1>7, <2>1 DEF Commit, worldVars, At
      <3>1. Goes(c) /\ UNCHANGED <<session, account, request>> /\ ~At(c, {"noted"})
        BY <1>7, <3>0, CallsGo
      <3> QED
        BY <1>0, <3>1 DEF Goes, KeepsItsPlace, At, NoRequest, TypeOK
    <2>2. ASSUME Stands(c), NEW u \in Users, Admit(c, u) PROVE KeepsItsPlace(d)'
      <3>1. At(c, {"resolved"}) /\ UNCHANGED request
        BY <1>7 DEF Commit
      <3>2. session'[c] # NoSession /\ session'[c].user = u
        BY <2>2 DEF Admit, TypeOK, NoSession
      <3>3. call'[c].at = "in" /\ call'[c].identity = call[c].identity
        BY <2>2 DEF Admit, TypeOK, Ended, Fresh
      <3>4. \A e \in Callbacks \ {c} : call'[e] = call[e] /\ session'[e] = session[e]
        BY <2>2 DEF Admit, TypeOK
      <3>5. \A i \in Identities : account'[i] = account[i] \/ ~Exact(i)
        <4>1. call[c].identity \in Identities /\ Stands(c)
          BY <2>2 DEF TypeOK, Calls
        <4>2. CASE call[c].binds = "known"
          BY <2>2, <4>2 DEF Admit
        <4>3. CASE call[c].binds # "known"
          <5>1. ~Exact(call[c].identity)
            BY <4>1, <4>3 DEF Stands, SameKeys
          <5> QED
            BY <2>2, <5>1 DEF Admit, TypeOK
        <4> QED
          BY <4>2, <4>3
      <3>6. account'[call[c].identity].user = u
        <4>1. call[c].identity \in Identities /\ Stands(c)
          BY <2>2 DEF TypeOK, Calls
        <4>2. CASE call[c].binds = "known"
          BY <2>2, <4>1, <4>2 DEF Admit, Stands
        <4>3. CASE call[c].binds # "known"
          BY <2>2, <4>1, <4>3 DEF Admit, TypeOK
        <4> QED
          BY <4>2, <4>3
      <3>7. CASE d = c
        BY <1>0, <3>1, <3>2, <3>3, <3>6, <3>7 DEF KeepsItsPlace, At, NoRequest
      <3>8. CASE d # c
        BY <1>0, <1>00, <3>1, <3>4, <3>5, <3>8 DEF KeepsItsPlace, At
      <3> QED
        BY <3>7, <3>8
    <2> QED
      BY <1>7, <2>1, <2>2 DEF Commit
  <1>8. ASSUME NEW c \in Callbacks, GiveUp(c) PROVE KeepsItsPlace(d)'
    <2>0. UNCHANGED <<session, account, request>> /\ ~At(c, {"noted"})
      BY <1>8 DEF GiveUp, worldVars, At
    <2>1. Goes(c) /\ UNCHANGED <<session, account, request>> /\ ~At(c, {"noted"})
      BY <1>8, <2>0, CallsGo
    <2> QED
      BY <1>0, <2>1 DEF Goes, KeepsItsPlace, At, NoRequest, TypeOK
  <1>9. ASSUME NEW c \in Callbacks, reserveConnection(c) PROVE KeepsItsPlace(d)'
    <2>1. /\ UNCHANGED <<session, account>> /\ At(c, {"noted"}) /\ request[c].at = "idle"
          /\ \/ UNCHANGED call /\ request' = [request EXCEPT ![c].at = "asking"]
             \/ (Goes(c) \/ UNCHANGED call) /\ UNCHANGED request
      <3>1. /\ UNCHANGED <<session, account>> /\ At(c, {"noted"}) /\ request[c].at = "idle"
            /\ \/ UNCHANGED call /\ request' = [request EXCEPT ![c].at = "asking"]
               \/ UNCHANGED request
        BY <1>9 DEF reserveConnection, worldVars
      <3> QED
        BY <1>9, <3>1, CallsGo
    <2>2. CASE UNCHANGED call /\ request' = [request EXCEPT ![c].at = "asking"]
      <3>1. request'[c].at = "asking" /\ \A e \in Callbacks \ {c} : request'[e] = request[e]
        BY <2>2 DEF TypeOK, Requests
      <3> QED
        BY <1>0, <2>1, <2>2, <3>1 DEF KeepsItsPlace, At
    <2>3. CASE UNCHANGED call /\ UNCHANGED request
      BY <1>0, <2>1, <2>3 DEF KeepsItsPlace, At
    <2>4. CASE Goes(c) /\ UNCHANGED request
      BY <1>0, <2>1, <2>4 DEF Goes, KeepsItsPlace, At, NoRequest, TypeOK
    <2> QED
      BY <2>1, <2>2, <2>3, <2>4
  <1>10. ASSUME NEW c \in Callbacks, InsertRequest(c) PROVE KeepsItsPlace(d)'
    <2>1. UNCHANGED <<session, account>> /\ request[c].at = "asking" /\ At(c, {"noted"})
      BY <1>10, <1>0 DEF InsertRequest, worldVars, KeepsItsPlace
    <2>2. call'[c].at = "refused" /\ call'[c].identity = call[c].identity
      BY <1>10 DEF InsertRequest, Refused, Ended, Fresh, TypeOK
    <2>3. \A e \in Callbacks \ {c} : call'[e] = call[e] /\ request'[e] = request[e]
      BY <1>10 DEF InsertRequest, Refused, TypeOK
    <2>4. request'[c].at = "idle"
      <3>1. NoRequest.at = "idle"
            /\ [NoRequest EXCEPT !.status = "sent", !.row = call[c].row, !.revision = call[c].revision].at = "idle"
        BY DEF NoRequest
      <3> QED
        BY <1>10, <3>1 DEF InsertRequest, TypeOK
    <2> QED
      BY <1>0, <2>1, <2>2, <2>3, <2>4 DEF KeepsItsPlace, At
  <1>11. ASSUME NEW c \in Callbacks, Expire(c) PROVE KeepsItsPlace(d)'
    <2>1. UNCHANGED <<session, account, call>> /\ request[c] # NoRequest
      BY <1>11 DEF Expire, worldVars, NoRequest
    <2>2. \A e \in Callbacks \ {c} : request'[e] = request[e]
      BY <1>11 DEF Expire
    <2>3. request'[c] = NoRequest \/ request'[c].at = request[c].at
      BY <1>11 DEF Expire, TypeOK, Requests
    <2> QED
      BY <1>0, <2>1, <2>2, <2>3 DEF KeepsItsPlace, At, NoRequest
  <1>12. ASSUME NEW c \in Callbacks, HoldAddress(c) PROVE KeepsItsPlace(d)'
    <2>1. UNCHANGED <<session, account, call>>
      BY <1>12 DEF HoldAddress, worldVars
    <2>2. request[c] # NoRequest /\ request[c].at # "asking"
      BY <1>12, <1>0 DEF HoldAddress, NoRequest, KeepsItsPlace, TypeOK, At
    <2>3. \A e \in Callbacks \ {c} : request'[e] = request[e]
      BY <1>12 DEF HoldAddress, TypeOK
    <2>4. request'[c].at # "asking"
      BY <1>12 DEF HoldAddress, NoRequest, TypeOK, Requests
    <2> QED
      BY <1>0, <2>1, <2>2, <2>3, <2>4 DEF KeepsItsPlace, At
  <1>13. ASSUME NEW c \in Callbacks, LockConnection(c) PROVE KeepsItsPlace(d)'
    <2>1. UNCHANGED <<session, account, call>>
      BY <1>13 DEF LockConnection, worldVars
    <2>2. request[c] # NoRequest /\ request[c].at # "asking"
      BY <1>13, <1>0 DEF LockConnection, NoRequest, KeepsItsPlace, TypeOK, At
    <2>3. \A e \in Callbacks \ {c} : request'[e] = request[e]
      BY <1>13 DEF LockConnection, TypeOK
    <2>4. request'[c].at # "asking"
      BY <1>13 DEF LockConnection, NoRequest, TypeOK, Requests
    <2> QED
      BY <1>0, <2>1, <2>2, <2>3, <2>4 DEF KeepsItsPlace, At
  <1>14. ASSUME NEW c \in Callbacks, CheckConnection(c) PROVE KeepsItsPlace(d)'
    <2>1. UNCHANGED <<session, account, call>>
      BY <1>14 DEF CheckConnection, worldVars
    <2>2. request[c] # NoRequest /\ request[c].at # "asking"
      BY <1>14, <1>0 DEF CheckConnection, NoRequest, KeepsItsPlace, TypeOK, At
    <2>3. \A e \in Callbacks \ {c} : request'[e] = request[e]
      BY <1>14 DEF CheckConnection, TypeOK
    <2>4. request'[c].at # "asking"
      BY <1>14 DEF CheckConnection, NoRequest, TypeOK, Requests
    <2> QED
      BY <1>0, <2>1, <2>2, <2>3, <2>4 DEF KeepsItsPlace, At
  <1>15. ASSUME NEW c \in Callbacks, connectDirectoryAccount(c) PROVE KeepsItsPlace(d)'
    <2>1. UNCHANGED <<session, call>> /\ call[c] \in Calls
      BY <1>15 DEF connectDirectoryAccount, worldVars, TypeOK
    <2>2. \A i \in Identities : account'[i] = account[i] \/ ~Exact(i)
      BY <1>15 DEF connectDirectoryAccount, SameKeys
    <2>3. \A e \in Callbacks \ {c} : request'[e] = request[e]
      BY <1>15 DEF connectDirectoryAccount
    <2>4. request'[c] = NoRequest
      BY <1>15 DEF connectDirectoryAccount, TypeOK
    <2>5. At(d, {"in"}) => account'[call[d].identity].user = account[call[d].identity].user
      BY <1>00, <2>2
    <2> QED
      BY <1>0, <2>1, <2>3, <2>4, <2>5 DEF KeepsItsPlace, At, NoRequest
  <1>16. ASSUME NEW c \in Callbacks, SignOut(c) PROVE KeepsItsPlace(d)'
    <2>1. UNCHANGED <<account, call, request>> /\ session[c].live
      BY <1>16 DEF SignOut, worldVars
    <2>2. session[c] # NoSession
      BY <2>1 DEF NoSession
    <2>3. session'[d].user = session[d].user /\ (session'[d] = NoSession <=> session[d] = NoSession)
      <3>1. session[c] \in Sessions /\ session[c].user \in Users
        BY <1>0, <2>2 DEF TypeOK, KeepsItsPlace
      <3>2. session'[c] = [session[c] EXCEPT !.live = FALSE] /\ \A e \in Callbacks \ {c} : session'[e] = session[e]
        BY <1>16 DEF SignOut, TypeOK
      <3> QED
        BY <2>2, <3>1, <3>2, DirectoryAssumption DEF NoSession, Sessions
    <2> QED
      BY <1>0, <2>1, <2>2, <2>3 DEF KeepsItsPlace, At
  <1>17. ASSUME NEW f \in Firms, SetFirm(f) PROVE KeepsItsPlace(d)'
    BY <1>17, <1>0 DEF SetFirm, OfFirm, Move, KeepsItsPlace, At, worldVars
  <1>18. ASSUME NEW f \in Firms, SetDomain(f) PROVE KeepsItsPlace(d)'
    BY <1>18, <1>0 DEF SetDomain, OfFirm, Move, KeepsItsPlace, At, worldVars
  <1>19. ASSUME NEW f \in Firms, putSsoProvider(f) PROVE KeepsItsPlace(d)'
    BY <1>19, <1>0 DEF putSsoProvider, OfFirm, Move, KeepsItsPlace, At, worldVars
  <1>20. ASSUME NEW f \in Firms, deleteSsoProvider(f) PROVE KeepsItsPlace(d)'
    BY <1>20, <1>0 DEF deleteSsoProvider, OfFirm, Move, KeepsItsPlace, At, worldVars
  <1>21. ASSUME NEW f \in Firms, NEW u \in Users, RemoveMember(f, u) PROVE KeepsItsPlace(d)'
    BY <1>21, <1>0 DEF RemoveMember, OfFirm, Move, KeepsItsPlace, At, worldVars
  <1>22. ASSUME NEW f \in Firms, NEW u \in Users, ReinstateMember(f, u) PROVE KeepsItsPlace(d)'
    BY <1>22, <1>0 DEF ReinstateMember, OfFirm, Move, KeepsItsPlace, At, worldVars
  <1>23. ASSUME NEW f \in Firms, NEW p \in People, NEW u \in Users, importMembers(f, p, u)
    PROVE KeepsItsPlace(d)'
    BY <1>23, <1>0 DEF importMembers, Move, KeepsItsPlace, At, worldVars
  <1>24. ASSUME NEW u \in Users, disableUser(u) PROVE KeepsItsPlace(d)'
    <2>1. UNCHANGED <<account, call, request>>
      BY <1>24 DEF disableUser, OfUser
    <2>2. session'[d].user = session[d].user /\ (session'[d] = NoSession <=> session[d] = NoSession)
      BY <1>24, SessionsEnd DEF disableUser
    <2> QED
      BY <1>0, <2>1, <2>2 DEF KeepsItsPlace, At
  <1>25. ASSUME NEW u \in Users, enableUser(u) PROVE KeepsItsPlace(d)'
    BY <1>25, <1>0 DEF enableUser, OfUser, Move, KeepsItsPlace, At, worldVars
  <1>26. ASSUME NEW u \in Users, retireUserEmail(u) PROVE KeepsItsPlace(d)'
    <2>1. UNCHANGED <<account, call, session>>
      BY <1>26 DEF retireUserEmail, OfUser
    <2>2. request'[d] = NoRequest \/ (request[d] # NoRequest /\ request'[d].at = request[d].at)
          \/ request'[d] = request[d]
      BY <1>26 DEF retireUserEmail, ReleaseAddress, NoRequest, TypeOK, Requests
    <2> QED
      BY <1>0, <2>1, <2>2 DEF KeepsItsPlace, At, NoRequest
  <1>27. ASSUME NEW u \in Users, eraseUser(u) PROVE KeepsItsPlace(d)'
    <2>1. UNCHANGED call
      BY <1>27 DEF eraseUser, OfUser
    <2>2. session'[d].user = session[d].user /\ (session'[d] = NoSession <=> session[d] = NoSession)
      BY <1>27, SessionsEnd DEF eraseUser
    <2>3. request'[d] = NoRequest \/ (request[d] # NoRequest /\ request'[d].at = request[d].at)
          \/ request'[d] = request[d]
      BY <1>27 DEF eraseUser, ReleaseAddress, NoRequest, TypeOK, Requests
    <2>4. \A i \in Identities : account'[i].user = account[i].user
      BY <1>27 DEF eraseUser, TypeOK, Accounts
    <2> QED
      BY <1>0, <2>1, <2>2, <2>3, <2>4 DEF KeepsItsPlace, At, NoRequest, TypeOK, Calls
  <1>28. CASE UNCHANGED vars
    BY <1>28, <1>0 DEF KeepsItsPlace, At, vars, worldVars
  <1> QED
    BY <1>1, <1>2, <1>3, <1>4, <1>5, <1>6, <1>7, <1>8, <1>9, <1>10, <1>11, <1>12,
       <1>13, <1>14, <1>15, <1>16, <1>17, <1>18, <1>19, <1>20, <1>21, <1>22, <1>23, <1>24,
       <1>25, <1>26, <1>27, <1>28 DEF Next

(***************************************************************************)
(* Flows are consumed once                                                 *)
(***************************************************************************)
\* FlowsAreConsumedOnce, of one callback.
FlowConsumed(c) ==
  /\ flow[c].status # "none" => flow[c].purpose \in {"link", "reauthenticate"}
  /\ HasFlow(c) => LET s == call[c].flow IN
       /\ At(s, {"in"}) /\ flow[s].status = "consumed"
       /\ \A d \in Callbacks \ {c} : call[d].flow # s

\* Every step keeps FlowsAreConsumedOnce: what observe consumes was stored, so no call has it.
LEMMA ConsumedStep ==
  ASSUME TypeOK, TypeOK', CallsKeepTheirPlace, FlowsAreConsumedOnce, [Next]_vars
  PROVE FlowsAreConsumedOnce'
  <1> SUFFICES ASSUME NEW d \in Callbacks PROVE FlowConsumed(d)'
    BY DEF FlowsAreConsumedOnce, FlowConsumed
  <1>0. \A e \in Callbacks : FlowConsumed(e)
    BY DEF FlowsAreConsumedOnce, FlowConsumed
  <1>00. \A e \in Callbacks : call[e].flow \in Callbacks \cup {Nobody} /\ call'[e].flow \in Callbacks \cup {Nobody}
    BY DEF TypeOK, Calls
  <1>1. ASSUME NEW c \in Callbacks, NEW purpose \in {"link", "reauthenticate"}, NEW g \in Firms,
               Start(c, purpose, g)
    PROVE FlowConsumed(d)'
    <2>1. UNCHANGED call /\ \A e \in Callbacks \ {c} : flow'[e] = flow[e]
      BY <1>1 DEF Start, TypeOK
    <2>2. flow[c].status = "none"
      BY <1>1 DEF Start, NoFlow
    <2>3. flow'[c].purpose \in {"link", "reauthenticate"}
      BY <1>1 DEF Start, TypeOK
    <2> QED
      BY <1>0, <1>00, <2>1, <2>2, <2>3 DEF FlowConsumed, HasFlow, At
  <1>2. ASSUME NEW c \in Callbacks, NEW i \in Identities, Return(c, i) PROVE FlowConsumed(d)'
    <2>1. UNCHANGED flow /\ At(c, {"new"}) /\ call'[c].flow = Nobody
      BY <1>2 DEF Return, TypeOK, Fresh
    <2>2. \A e \in Callbacks \ {c} : call'[e] = call[e]
      BY <1>2 DEF Return, TypeOK
    <2> QED
      BY <1>0, <1>00, <2>1, <2>2 DEF FlowConsumed, HasFlow, At
  <1>3. ASSUME NEW c \in Callbacks, NEW i \in Identities, NEW s \in Callbacks, observe(c, i, s)
    PROVE FlowConsumed(d)'
    <2>1. /\ At(c, {"new"}) /\ call'[c].flow = s /\ flow[s].status = "stored"
          /\ flow'[s].status = "consumed" /\ flow'[s].purpose = flow[s].purpose
      BY <1>3 DEF observe, TypeOK, Fresh, Flows
    <2>2. \A e \in Callbacks : /\ e # c => call'[e] = call[e]
                               /\ e # s => flow'[e] = flow[e]
      BY <1>3 DEF observe, TypeOK
    <2>3. At(s, {"in"}) /\ s # c
      BY <1>3, <2>1 DEF observe, NoSession, CallsKeepTheirPlace, At
    <2>4. \A e \in Callbacks : HasFlow(e) => call[e].flow # s
      BY <1>0, <2>1 DEF FlowConsumed
    <2> QED
      BY <1>0, <1>00, <2>1, <2>2, <2>3, <2>4 DEF FlowConsumed, HasFlow, At
  <1>4. ASSUME NEW c \in Callbacks, NEW s \in Callbacks, ObserveAnothers(c, s) PROVE FlowConsumed(d)'
    <2>1. /\ At(c, {"new"}) /\ call'[c].flow = call[c].flow /\ flow[s].status = "stored"
          /\ flow'[s].status = "consumed" /\ flow'[s].purpose = flow[s].purpose
      BY <1>4 DEF ObserveAnothers, TypeOK, Flows, Calls
    <2>2. \A e \in Callbacks : /\ e # c => call'[e] = call[e]
                               /\ e # s => flow'[e] = flow[e]
      BY <1>4 DEF ObserveAnothers, TypeOK
    <2> QED
      BY <1>0, <1>00, <2>1, <2>2 DEF FlowConsumed, HasFlow, At
  <1>5. ASSUME NEW c \in Callbacks, beforeTransaction(c) PROVE FlowConsumed(d)'
    <2>1. (Goes(c) \/ UNCHANGED call) /\ UNCHANGED flow
      BY <1>5, CallsGo
    <2>2. CASE Goes(c)
      BY <1>0, <1>00, <2>1, <2>2 DEF FlowConsumed, HasFlow, At, Goes, TypeOK
    <2>3. CASE UNCHANGED call
      BY <1>0, <1>00, <2>1, <2>3 DEF FlowConsumed, HasFlow, At
    <2> QED
      BY <2>1, <2>2, <2>3
  <1>6. ASSUME NEW c \in Callbacks, resolve(c) PROVE FlowConsumed(d)'
    <2>1. (Goes(c) \/ UNCHANGED call) /\ UNCHANGED flow
      BY <1>6, CallsGo
    <2>2. CASE Goes(c)
      BY <1>0, <1>00, <2>1, <2>2 DEF FlowConsumed, HasFlow, At, Goes, TypeOK
    <2>3. CASE UNCHANGED call
      BY <1>0, <1>00, <2>1, <2>3 DEF FlowConsumed, HasFlow, At
    <2> QED
      BY <2>1, <2>2, <2>3
  <1>7. ASSUME NEW c \in Callbacks, Commit(c) PROVE FlowConsumed(d)'
    <2>1. (Goes(c) \/ UNCHANGED call) /\ UNCHANGED flow
      BY <1>7, CallsGo
    <2>2. CASE Goes(c)
      BY <1>0, <1>00, <2>1, <2>2 DEF FlowConsumed, HasFlow, At, Goes, TypeOK
    <2>3. CASE UNCHANGED call
      BY <1>0, <1>00, <2>1, <2>3 DEF FlowConsumed, HasFlow, At
    <2> QED
      BY <2>1, <2>2, <2>3
  <1>8. ASSUME NEW c \in Callbacks, GiveUp(c) PROVE FlowConsumed(d)'
    <2>1. (Goes(c) \/ UNCHANGED call) /\ UNCHANGED flow
      BY <1>8, CallsGo
    <2>2. CASE Goes(c)
      BY <1>0, <1>00, <2>1, <2>2 DEF FlowConsumed, HasFlow, At, Goes, TypeOK
    <2>3. CASE UNCHANGED call
      BY <1>0, <1>00, <2>1, <2>3 DEF FlowConsumed, HasFlow, At
    <2> QED
      BY <2>1, <2>2, <2>3
  <1>9. ASSUME NEW c \in Callbacks, reserveConnection(c) PROVE FlowConsumed(d)'
    <2>1. (Goes(c) \/ UNCHANGED call) /\ UNCHANGED flow
      BY <1>9, CallsGo
    <2>2. CASE Goes(c)
      BY <1>0, <1>00, <2>1, <2>2 DEF FlowConsumed, HasFlow, At, Goes, TypeOK
    <2>3. CASE UNCHANGED call
      BY <1>0, <1>00, <2>1, <2>3 DEF FlowConsumed, HasFlow, At
    <2> QED
      BY <2>1, <2>2, <2>3
  <1>10. ASSUME NEW c \in Callbacks, InsertRequest(c) PROVE FlowConsumed(d)'
    <2>1. (Goes(c) \/ UNCHANGED call) /\ UNCHANGED flow
      BY <1>10, CallsGo
    <2>2. CASE Goes(c)
      BY <1>0, <1>00, <2>1, <2>2 DEF FlowConsumed, HasFlow, At, Goes, TypeOK
    <2>3. CASE UNCHANGED call
      BY <1>0, <1>00, <2>1, <2>3 DEF FlowConsumed, HasFlow, At
    <2> QED
      BY <2>1, <2>2, <2>3
  <1>11. ASSUME NEW c \in Callbacks, Expire(c) PROVE FlowConsumed(d)'
    <2>1. UNCHANGED <<call, flow>>
      BY <1>11 DEF Expire, worldVars
    <2> QED
      BY <1>0, <1>00, <2>1 DEF FlowConsumed, HasFlow, At
  <1>12. ASSUME NEW c \in Callbacks, HoldAddress(c) PROVE FlowConsumed(d)'
    <2>1. UNCHANGED <<call, flow>>
      BY <1>12 DEF HoldAddress, worldVars
    <2> QED
      BY <1>0, <1>00, <2>1 DEF FlowConsumed, HasFlow, At
  <1>13. ASSUME NEW c \in Callbacks, LockConnection(c) PROVE FlowConsumed(d)'
    <2>1. UNCHANGED <<call, flow>>
      BY <1>13 DEF LockConnection, worldVars
    <2> QED
      BY <1>0, <1>00, <2>1 DEF FlowConsumed, HasFlow, At
  <1>14. ASSUME NEW c \in Callbacks, CheckConnection(c) PROVE FlowConsumed(d)'
    <2>1. UNCHANGED <<call, flow>>
      BY <1>14 DEF CheckConnection, worldVars
    <2> QED
      BY <1>0, <1>00, <2>1 DEF FlowConsumed, HasFlow, At
  <1>15. ASSUME NEW c \in Callbacks, connectDirectoryAccount(c) PROVE FlowConsumed(d)'
    <2>1. UNCHANGED <<call, flow>>
      BY <1>15 DEF connectDirectoryAccount, worldVars
    <2> QED
      BY <1>0, <1>00, <2>1 DEF FlowConsumed, HasFlow, At
  <1>16. ASSUME NEW c \in Callbacks, SignOut(c) PROVE FlowConsumed(d)'
    <2>1. UNCHANGED <<call, flow>>
      BY <1>16 DEF SignOut, Move, worldVars
    <2> QED
      BY <1>0, <1>00, <2>1 DEF FlowConsumed, HasFlow, At
  <1>17. ASSUME NEW f \in Firms, SetFirm(f) PROVE FlowConsumed(d)'
    <2>1. UNCHANGED <<call, flow>>
      BY <1>17 DEF SetFirm, OfFirm, Move, worldVars
    <2> QED
      BY <1>0, <1>00, <2>1 DEF FlowConsumed, HasFlow, At
  <1>18. ASSUME NEW f \in Firms, SetDomain(f) PROVE FlowConsumed(d)'
    <2>1. UNCHANGED <<call, flow>>
      BY <1>18 DEF SetDomain, OfFirm, Move, worldVars
    <2> QED
      BY <1>0, <1>00, <2>1 DEF FlowConsumed, HasFlow, At
  <1>19. ASSUME NEW f \in Firms, putSsoProvider(f) PROVE FlowConsumed(d)'
    <2>1. UNCHANGED <<call, flow>>
      BY <1>19 DEF putSsoProvider, OfFirm, Move, worldVars
    <2> QED
      BY <1>0, <1>00, <2>1 DEF FlowConsumed, HasFlow, At
  <1>20. ASSUME NEW f \in Firms, deleteSsoProvider(f) PROVE FlowConsumed(d)'
    <2>1. UNCHANGED <<call, flow>>
      BY <1>20 DEF deleteSsoProvider, OfFirm, Move, worldVars
    <2> QED
      BY <1>0, <1>00, <2>1 DEF FlowConsumed, HasFlow, At
  <1>21. ASSUME NEW f \in Firms, NEW u \in Users, RemoveMember(f, u) PROVE FlowConsumed(d)'
    <2>1. UNCHANGED <<call, flow>>
      BY <1>21 DEF RemoveMember, OfFirm, Move, worldVars
    <2> QED
      BY <1>0, <1>00, <2>1 DEF FlowConsumed, HasFlow, At
  <1>22. ASSUME NEW f \in Firms, NEW u \in Users, ReinstateMember(f, u) PROVE FlowConsumed(d)'
    <2>1. UNCHANGED <<call, flow>>
      BY <1>22 DEF ReinstateMember, OfFirm, Move, worldVars
    <2> QED
      BY <1>0, <1>00, <2>1 DEF FlowConsumed, HasFlow, At
  <1>23. ASSUME NEW f \in Firms, NEW p \in People, NEW u \in Users, importMembers(f, p, u)
    PROVE FlowConsumed(d)'
    <2>1. UNCHANGED <<call, flow>>
      BY <1>23 DEF importMembers, Move, worldVars
    <2> QED
      BY <1>0, <1>00, <2>1 DEF FlowConsumed, HasFlow, At
  <1>24. ASSUME NEW u \in Users, disableUser(u) PROVE FlowConsumed(d)'
    <2>1. UNCHANGED <<call, flow>>
      BY <1>24 DEF disableUser, OfUser, Move, EndSessions, worldVars
    <2> QED
      BY <1>0, <1>00, <2>1 DEF FlowConsumed, HasFlow, At
  <1>25. ASSUME NEW u \in Users, enableUser(u) PROVE FlowConsumed(d)'
    <2>1. UNCHANGED <<call, flow>>
      BY <1>25 DEF enableUser, OfUser, Move, worldVars
    <2> QED
      BY <1>0, <1>00, <2>1 DEF FlowConsumed, HasFlow, At
  <1>26. ASSUME NEW u \in Users, retireUserEmail(u) PROVE FlowConsumed(d)'
    <2>1. UNCHANGED <<call, flow>>
      BY <1>26 DEF retireUserEmail, OfUser, Move, ReleaseAddress, worldVars
    <2> QED
      BY <1>0, <1>00, <2>1 DEF FlowConsumed, HasFlow, At
  <1>27. ASSUME NEW u \in Users, eraseUser(u) PROVE FlowConsumed(d)'
    <2>1. UNCHANGED <<call, flow>>
      BY <1>27 DEF eraseUser, OfUser, Move, EndSessions, ReleaseAddress, worldVars
    <2> QED
      BY <1>0, <1>00, <2>1 DEF FlowConsumed, HasFlow, At
  <1>28. CASE UNCHANGED vars
    BY <1>28, <1>0 DEF FlowConsumed, HasFlow, At, vars
  <1> QED
    BY <1>1, <1>2, <1>3, <1>4, <1>5, <1>6, <1>7, <1>8, <1>9, <1>10, <1>11, <1>12,
       <1>13, <1>14, <1>15, <1>16, <1>17, <1>18, <1>19, <1>20, <1>21, <1>22, <1>23, <1>24,
       <1>25, <1>26, <1>27, <1>28 DEF Next

(***************************************************************************)
(* What a transaction has locked stands                                    *)
(***************************************************************************)
\* Nothing that current reads of a session and its flow changes, but that its person may join.
Untouched(s) ==
  LET u == session[s].user IN
  /\ flow'[s] = flow[s] /\ session'[s] = session[s] /\ call'[s] = call[s]
  /\ user'[u] = user[u] /\ account'[call[s].identity] = account[call[s].identity]
  /\ \A f \in {FirmOf(s), flow[s].target} :
       /\ directory'[f] = directory[f] /\ firm'[f] = firm[f]
       /\ \/ member'[f][u] = member[f][u]
          \/ member[f][u] = "none" /\ member'[f][u] = "effective"

\* A session that nothing touches authenticates its flow as before.
LEMMA UntouchedIsCurrent ==
  ASSUME NEW s \in Callbacks, Untouched(s), current(s) PROVE current(s)'
  <1>1. /\ flow'[s] = flow[s] /\ session'[s] = session[s] /\ call'[s] = call[s]
        /\ user'[session[s].user] = user[session[s].user]
        /\ account'[call[s].identity] = account[call[s].identity]
        /\ Home[call[s].identity] = FirmOf(s)
    BY DEF Untouched, FirmOf
  <1>2. \A f \in {FirmOf(s), flow[s].target} :
           /\ directory'[f] = directory[f] /\ firm'[f] = firm[f]
           /\ member[f][session[s].user] = "effective" => member'[f][session[s].user] = "effective"
           /\ member[f][session[s].user] # "revoked" => member'[f][session[s].user] # "revoked"
    BY DEF Untouched
  <1>3. ASSUME NEW r \in BOOLEAN, tenantAuthentication(s, r) PROVE tenantAuthentication(s, r)'
    BY <1>1, <1>2, <1>3 DEF tenantAuthentication, FirmOf
  <1>4. tenantAuthentication(s, flow[s].purpose = "reauthenticate")'
    BY <1>1, <1>3 DEF current
  <1> QED
    BY <1>1, <1>2, <1>4 DEF current, membershipRevoked, FirmOf

\* What a transaction holds: its firms, their directories and their domains.
FirmsKept(d) ==
  \A g \in FirmsHeld(d) : directory'[g] = directory[g] /\ firm'[g] = firm[g] /\ domain'[g] = domain[g]

\* No step changes the firms a transaction holds: a command waits for them, and an import
\* reads them.
LEMMA FirmsStand ==
  ASSUME TypeOK, [Next]_vars, NEW d \in Callbacks, InTransaction(d)
  PROVE FirmsKept(d)
  <1>0. FirmsHeld(d) \subseteq Firms
    BY DirectoryAssumption DEF FirmsHeld, FirmOf, HasFlow, Flow, TypeOK, Calls, Flows
  <1>1. ASSUME NEW c \in Callbacks, NEW purpose \in {"link", "reauthenticate"}, NEW g \in Firms,
               Start(c, purpose, g)
    PROVE FirmsKept(d)
    BY <1>1 DEF FirmsKept, Start, worldVars
  <1>2. ASSUME NEW c \in Callbacks, NEW i \in Identities, Return(c, i) PROVE FirmsKept(d)
    BY <1>2 DEF FirmsKept, Return, worldVars
  <1>3. ASSUME NEW c \in Callbacks, NEW i \in Identities, NEW s \in Callbacks, observe(c, i, s)
    PROVE FirmsKept(d)
    BY <1>3 DEF FirmsKept, observe, worldVars
  <1>4. ASSUME NEW c \in Callbacks, NEW s \in Callbacks, ObserveAnothers(c, s) PROVE FirmsKept(d)
    BY <1>4 DEF FirmsKept, ObserveAnothers, worldVars
  <1>5. ASSUME NEW c \in Callbacks, beforeTransaction(c) PROVE FirmsKept(d)
    BY <1>5 DEF FirmsKept, beforeTransaction, Refused, worldVars
  <1>6. ASSUME NEW c \in Callbacks, resolve(c) PROVE FirmsKept(d)
    BY <1>6 DEF FirmsKept, resolve, resolveFederatedUser, worldVars
  <1>7. ASSUME NEW c \in Callbacks, Commit(c) PROVE FirmsKept(d)
    BY <1>7 DEF FirmsKept, Commit, Admit, provisionMembership, worldVars
  <1>8. ASSUME NEW c \in Callbacks, GiveUp(c) PROVE FirmsKept(d)
    BY <1>8 DEF FirmsKept, GiveUp, Refused, worldVars
  <1>9. ASSUME NEW c \in Callbacks, reserveConnection(c) PROVE FirmsKept(d)
    BY <1>9 DEF FirmsKept, reserveConnection, Refused, worldVars
  <1>10. ASSUME NEW c \in Callbacks, InsertRequest(c) PROVE FirmsKept(d)
    BY <1>10 DEF FirmsKept, InsertRequest, Refused, worldVars
  <1>11. ASSUME NEW c \in Callbacks, Expire(c) PROVE FirmsKept(d)
    BY <1>11 DEF FirmsKept, Expire, worldVars
  <1>12. ASSUME NEW c \in Callbacks, HoldAddress(c) PROVE FirmsKept(d)
    BY <1>12 DEF FirmsKept, HoldAddress, worldVars
  <1>13. ASSUME NEW c \in Callbacks, LockConnection(c) PROVE FirmsKept(d)
    BY <1>13 DEF FirmsKept, LockConnection, worldVars
  <1>14. ASSUME NEW c \in Callbacks, CheckConnection(c) PROVE FirmsKept(d)
    BY <1>14 DEF FirmsKept, CheckConnection, worldVars
  <1>15. ASSUME NEW c \in Callbacks, connectDirectoryAccount(c) PROVE FirmsKept(d)
    BY <1>15 DEF FirmsKept, connectDirectoryAccount, worldVars
  <1>16. ASSUME NEW c \in Callbacks, SignOut(c) PROVE FirmsKept(d)
    BY <1>16 DEF FirmsKept, SignOut, Move, worldVars
  <1>17. ASSUME NEW f \in Firms, SetFirm(f) PROVE FirmsKept(d)
    <2>1. f \notin FirmsHeld(d)
      BY <1>17 DEF SetFirm, OfFirm, FirmFree
    <2>2. \A g \in Firms \ {f} : directory'[g] = directory[g] /\ firm'[g] = firm[g] /\ domain'[g] = domain[g]
      BY <1>17 DEF SetFirm, TypeOK
    <2> QED
      BY <1>0, <2>1, <2>2 DEF FirmsKept
  <1>18. ASSUME NEW f \in Firms, SetDomain(f) PROVE FirmsKept(d)
    <2>1. f \notin FirmsHeld(d)
      BY <1>18 DEF SetDomain, OfFirm, FirmFree
    <2>2. \A g \in Firms \ {f} : directory'[g] = directory[g] /\ firm'[g] = firm[g] /\ domain'[g] = domain[g]
      BY <1>18 DEF SetDomain, TypeOK
    <2> QED
      BY <1>0, <2>1, <2>2 DEF FirmsKept
  <1>19. ASSUME NEW f \in Firms, putSsoProvider(f) PROVE FirmsKept(d)
    <2>1. f \notin FirmsHeld(d)
      BY <1>19 DEF putSsoProvider, OfFirm, FirmFree
    <2>2. \A g \in Firms \ {f} : directory'[g] = directory[g] /\ firm'[g] = firm[g] /\ domain'[g] = domain[g]
      BY <1>19 DEF putSsoProvider, TypeOK
    <2> QED
      BY <1>0, <2>1, <2>2 DEF FirmsKept
  <1>20. ASSUME NEW f \in Firms, deleteSsoProvider(f) PROVE FirmsKept(d)
    <2>1. f \notin FirmsHeld(d)
      BY <1>20 DEF deleteSsoProvider, OfFirm, FirmFree
    <2>2. \A g \in Firms \ {f} : directory'[g] = directory[g] /\ firm'[g] = firm[g] /\ domain'[g] = domain[g]
      BY <1>20 DEF deleteSsoProvider, TypeOK
    <2> QED
      BY <1>0, <2>1, <2>2 DEF FirmsKept
  <1>21. ASSUME NEW f \in Firms, NEW u \in Users, RemoveMember(f, u) PROVE FirmsKept(d)
    BY <1>21 DEF FirmsKept, RemoveMember, OfFirm, Move, worldVars
  <1>22. ASSUME NEW f \in Firms, NEW u \in Users, ReinstateMember(f, u) PROVE FirmsKept(d)
    BY <1>22 DEF FirmsKept, ReinstateMember, OfFirm, Move, worldVars
  <1>23. ASSUME NEW f \in Firms, NEW p \in People, NEW u \in Users, importMembers(f, p, u)
    PROVE FirmsKept(d)
    BY <1>23 DEF FirmsKept, importMembers, Move, worldVars
  <1>24. ASSUME NEW u \in Users, disableUser(u) PROVE FirmsKept(d)
    BY <1>24 DEF FirmsKept, disableUser, OfUser, Move, EndSessions, worldVars
  <1>25. ASSUME NEW u \in Users, enableUser(u) PROVE FirmsKept(d)
    BY <1>25 DEF FirmsKept, enableUser, OfUser, Move, worldVars
  <1>26. ASSUME NEW u \in Users, retireUserEmail(u) PROVE FirmsKept(d)
    BY <1>26 DEF FirmsKept, retireUserEmail, OfUser, Move, ReleaseAddress, worldVars
  <1>27. ASSUME NEW u \in Users, eraseUser(u) PROVE FirmsKept(d)
    BY <1>27 DEF FirmsKept, eraseUser, OfUser, Move, EndSessions, ReleaseAddress, worldVars
  <1>28. CASE UNCHANGED vars
    BY <1>28 DEF vars, worldVars, FirmsKept
  <1> QED
    BY <1>1, <1>2, <1>3, <1>4, <1>5, <1>6, <1>7, <1>8, <1>9, <1>10, <1>11, <1>12,
       <1>13, <1>14, <1>15, <1>16, <1>17, <1>18, <1>19, <1>20, <1>21, <1>22, <1>23, <1>24,
       <1>25, <1>26, <1>27, <1>28 DEF Next

\* A callback that ends leaves every account there was.
LEMMA AccountsStay ==
  ASSUME TypeOK, NEW c \in Callbacks, Stands(c), NEW u \in Users, Admit(c, u),
         NEW i \in Identities, Exact(i)
  PROVE account'[i] = account[i]
  <1>1. call[c].identity \in Identities
    BY DEF TypeOK, Calls
  <1>2. CASE call[c].binds = "known"
    BY <1>2 DEF Admit
  <1>3. CASE call[c].binds # "known"
    <2>1. ~Exact(call[c].identity)
      BY <1>1, <1>3 DEF Stands, SameKeys
    <2> QED
      BY <2>1 DEF Admit, TypeOK
  <1> QED
    BY <1>2, <1>3

\* No step touches the session and flow under which a transaction runs: its person and its
\* providers are locked, and its row is shared.
LEMMA FlowsStand ==
  ASSUME TypeOK, TypeOK', CallsKeepTheirPlace, FlowsAreConsumedOnce, LocksHold, [Next]_vars,
         NEW d \in Callbacks, InTransaction(d), HasFlow(d), NEW s \in Callbacks, s = call[d].flow
  PROVE Untouched(s)
  <1>t. /\ call[s].identity \in Identities /\ FirmOf(s) \in Firms /\ flow[s].target \in Firms
        /\ session[s].user \in Users
    BY DirectoryAssumption
       DEF TypeOK, Calls, Flows, FirmOf, FlowsAreConsumedOnce, CallsKeepTheirPlace, At
  <1>f. \A g \in {FirmOf(s), flow[s].target} : directory'[g] = directory[g] /\ firm'[g] = firm[g]
    BY FirmsStand DEF FirmsKept, FirmsHeld, FirmOf, Flow
  <1>s. /\ At(s, {"in"}) /\ flow[s].status = "consumed" /\ user[session[s].user] = "active"
        /\ Exact(call[s].identity) /\ account[call[s].identity].user = session[s].user
        /\ call[s].identity \in Identities /\ FirmOf(s) \in Firms /\ flow[s].target \in Firms
        /\ session[s].user \in Users
        /\ FirmOf(s) \in FirmsHeld(d) /\ flow[s].target \in FirmsHeld(d)
        /\ UsersHeld(d) = {session[s].user} /\ call[d].flow = s /\ InTransaction(d)
    <2>1. current(s)
      BY DEF LocksHold
    <2>2. user[session[s].user] = "active" /\ account[call[s].identity].live
      BY <2>1 DEF current, tenantAuthentication
    <2>3. Exact(call[s].identity)
      BY <2>2 DEF Exact, NoAccount
    <2>4. At(s, {"in"}) /\ flow[s].status = "consumed"
      BY DEF FlowsAreConsumedOnce
    <2>5. account[call[s].identity].user = session[s].user
      BY <2>4 DEF CallsKeepTheirPlace
    <2>6. FirmOf(s) \in FirmsHeld(d) /\ flow[s].target \in FirmsHeld(d) /\ UsersHeld(d) = {session[s].user}
      BY DEF FirmsHeld, UsersHeld, FirmOf, Flow
    <2> QED
      BY <1>t, <2>2, <2>3, <2>4, <2>5, <2>6
  <1>1. ASSUME NEW c \in Callbacks, NEW purpose \in {"link", "reauthenticate"}, NEW g \in Firms,
               Start(c, purpose, g)
    PROVE Untouched(s)
    <2>1. flow[c].status = "none" /\ UNCHANGED <<worldVars, session, call>>
      BY <1>1 DEF Start, NoFlow
    <2>2. flow'[s] = flow[s]
      BY <1>1, <1>s, <2>1 DEF Start, TypeOK
    <2> QED
      BY <2>1, <2>2 DEF Untouched, worldVars
  <1>2. ASSUME NEW c \in Callbacks, NEW i \in Identities, Return(c, i) PROVE Untouched(s)
    <2>1. At(c, {"new"}) /\ UNCHANGED <<worldVars, session>>
      BY <1>2 DEF Return
    <2>2. call'[s] = call[s]
      BY <1>2, <1>s, <2>1 DEF Return, TypeOK, At
    <2>3. flow'[s] = flow[s]
      BY <1>2, <1>s DEF Return, TypeOK
    <2> QED
      BY <2>1, <2>2, <2>3 DEF Untouched, worldVars
  <1>3. ASSUME NEW c \in Callbacks, NEW i \in Identities, NEW r \in Callbacks, observe(c, i, r)
    PROVE Untouched(s)
    <2>1. At(c, {"new"}) /\ UNCHANGED <<worldVars, session>>
      BY <1>3 DEF observe
    <2>2. call'[s] = call[s]
      BY <1>3, <1>s, <2>1 DEF observe, TypeOK, At
    <2>3. flow'[s] = flow[s]
      BY <1>3, <1>s DEF observe, TypeOK
    <2> QED
      BY <2>1, <2>2, <2>3 DEF Untouched, worldVars
  <1>4. ASSUME NEW c \in Callbacks, NEW r \in Callbacks, ObserveAnothers(c, r) PROVE Untouched(s)
    <2>1. At(c, {"new"}) /\ UNCHANGED <<worldVars, session>>
      BY <1>4 DEF ObserveAnothers
    <2>2. call'[s] = call[s]
      BY <1>4, <1>s, <2>1 DEF ObserveAnothers, TypeOK, At
    <2>3. flow'[s] = flow[s]
      BY <1>4, <1>s DEF ObserveAnothers, TypeOK
    <2> QED
      BY <2>1, <2>2, <2>3 DEF Untouched, worldVars
  <1>5. ASSUME NEW c \in Callbacks, beforeTransaction(c) PROVE Untouched(s)
    <2>1. UNCHANGED <<worldVars, session>>
      BY <1>5 DEF beforeTransaction
    <2>2. (Goes(c) \/ UNCHANGED call) /\ UNCHANGED flow
      BY <1>5, CallsGo
    <2>3. call'[s] = call[s]
      BY <1>s, <2>2 DEF Goes, At, TypeOK
    <2> QED
      BY <2>1, <2>2, <2>3 DEF Untouched, worldVars
  <1>6. ASSUME NEW c \in Callbacks, resolve(c) PROVE Untouched(s)
    <2>1. UNCHANGED <<worldVars, session>>
      BY <1>6 DEF resolve
    <2>2. (Goes(c) \/ UNCHANGED call) /\ UNCHANGED flow
      BY <1>6, CallsGo
    <2>3. call'[s] = call[s]
      BY <1>s, <2>2 DEF Goes, At, TypeOK
    <2> QED
      BY <2>1, <2>2, <2>3 DEF Untouched, worldVars
  <1>7. ASSUME NEW c \in Callbacks, Commit(c) PROVE Untouched(s)
    <2>1. (Goes(c) \/ UNCHANGED call) /\ UNCHANGED flow
      BY <1>7, CallsGo
    <2>2. call'[s] = call[s] /\ c # s
      BY <1>7, <1>s, <2>1 DEF Goes, At, TypeOK, Commit
    <2>3. CASE Refused(c) /\ UNCHANGED <<worldVars, session>>
      BY <2>1, <2>2, <2>3 DEF Untouched, worldVars
    <2>4. ASSUME Stands(c), NEW w \in Users, Admit(c, w) PROVE Untouched(s)
      <3>1. session'[s] = session[s] /\ UNCHANGED <<directory, firm>>
        BY <1>s, <2>2, <2>4 DEF Admit, TypeOK
      <3>2. user'[session[s].user] = user[session[s].user]
        BY <1>s, <2>4 DEF Admit, TypeOK
      <3>3. account'[call[s].identity] = account[call[s].identity]
        BY <1>s, <2>4, AccountsStay
      <3>4. \A f \in Firms : \/ member'[f][session[s].user] = member[f][session[s].user]
                             \/ /\ member[f][session[s].user] = "none"
                                /\ member'[f][session[s].user] = "effective"
        <4>1. member' = [member EXCEPT ![Home[call[c].identity]][w] =
                           IF member[Home[call[c].identity]][w] = "none" THEN "effective"
                           ELSE member[Home[call[c].identity]][w]]
          BY <2>4 DEF Admit, provisionMembership
        <4>2. member \in [Firms -> [Users -> {"none", "effective", "revoked"}]]
          BY DEF TypeOK
        <4>3. ASSUME NEW f \in Firms
              PROVE \/ member'[f][session[s].user] = member[f][session[s].user]
                    \/ /\ member[f][session[s].user] = "none"
                       /\ member'[f][session[s].user] = "effective"
          <5>1. CASE f = Home[call[c].identity] /\ session[s].user = w
            BY <4>1, <4>2, <5>1
          <5>2. CASE f # Home[call[c].identity] \/ session[s].user # w
            BY <4>1, <4>2, <5>2
          <5> QED
            BY <5>1, <5>2
        <4> QED
          BY <4>3
      <3> QED
        BY <1>s, <2>1, <2>2, <3>1, <3>2, <3>3, <3>4 DEF Untouched
    <2> QED
      BY <1>7, <2>3, <2>4 DEF Commit
  <1>8. ASSUME NEW c \in Callbacks, GiveUp(c) PROVE Untouched(s)
    <2>1. UNCHANGED <<worldVars, session>>
      BY <1>8 DEF GiveUp
    <2>2. (Goes(c) \/ UNCHANGED call) /\ UNCHANGED flow
      BY <1>8, CallsGo
    <2>3. call'[s] = call[s]
      BY <1>s, <2>2 DEF Goes, At, TypeOK
    <2> QED
      BY <2>1, <2>2, <2>3 DEF Untouched, worldVars
  <1>9. ASSUME NEW c \in Callbacks, reserveConnection(c) PROVE Untouched(s)
    <2>1. UNCHANGED <<worldVars, session>>
      BY <1>9 DEF reserveConnection
    <2>2. (Goes(c) \/ UNCHANGED call) /\ UNCHANGED flow
      BY <1>9, CallsGo
    <2>3. call'[s] = call[s]
      BY <1>s, <2>2 DEF Goes, At, TypeOK
    <2> QED
      BY <2>1, <2>2, <2>3 DEF Untouched, worldVars
  <1>10. ASSUME NEW c \in Callbacks, InsertRequest(c) PROVE Untouched(s)
    <2>1. UNCHANGED <<worldVars, session>>
      BY <1>10 DEF InsertRequest
    <2>2. (Goes(c) \/ UNCHANGED call) /\ UNCHANGED flow
      BY <1>10, CallsGo
    <2>3. call'[s] = call[s]
      BY <1>s, <2>2 DEF Goes, At, TypeOK
    <2> QED
      BY <2>1, <2>2, <2>3 DEF Untouched, worldVars
  <1>11. ASSUME NEW c \in Callbacks, Expire(c) PROVE Untouched(s)
    <2>1. UNCHANGED <<worldVars, session, flow, call>>
      BY <1>11 DEF Expire
    <2> QED
      BY <2>1 DEF Untouched, worldVars
  <1>12. ASSUME NEW c \in Callbacks, HoldAddress(c) PROVE Untouched(s)
    <2>1. UNCHANGED <<worldVars, session, flow, call>>
      BY <1>12 DEF HoldAddress
    <2> QED
      BY <2>1 DEF Untouched, worldVars
  <1>13. ASSUME NEW c \in Callbacks, LockConnection(c) PROVE Untouched(s)
    <2>1. UNCHANGED <<worldVars, session, flow, call>>
      BY <1>13 DEF LockConnection
    <2> QED
      BY <2>1 DEF Untouched, worldVars
  <1>14. ASSUME NEW c \in Callbacks, CheckConnection(c) PROVE Untouched(s)
    <2>1. UNCHANGED <<worldVars, session, flow, call>>
      BY <1>14 DEF CheckConnection
    <2> QED
      BY <2>1 DEF Untouched, worldVars
  <1>15. ASSUME NEW c \in Callbacks, connectDirectoryAccount(c) PROVE Untouched(s)
    <2>1. UNCHANGED <<firm, directory, user, member, session, flow, call>>
      BY <1>15 DEF connectDirectoryAccount
    <2>2. account'[call[s].identity] = account[call[s].identity]
      BY <1>s, <1>15 DEF connectDirectoryAccount, SameKeys
    <2> QED
      BY <2>1, <2>2 DEF Untouched
  <1>16. ASSUME NEW c \in Callbacks, SignOut(c) PROVE Untouched(s)
    <2>1. c # s /\ UNCHANGED <<worldVars, flow, call>>
      BY <1>16, <1>s DEF SignOut
    <2>2. session'[s] = session[s]
      BY <1>16, <1>s, <2>1 DEF SignOut, TypeOK
    <2> QED
      BY <2>1, <2>2 DEF Untouched, worldVars
  <1>17. ASSUME NEW f \in Firms, SetFirm(f) PROVE Untouched(s)
    <2>1. UNCHANGED <<user, account, member, session, flow, call>>
      BY <1>17 DEF SetFirm, OfFirm
    <2> QED
      BY <1>s, <1>f, <2>1 DEF Untouched
  <1>18. ASSUME NEW f \in Firms, SetDomain(f) PROVE Untouched(s)
    <2>1. UNCHANGED <<user, account, member, session, flow, call>>
      BY <1>18 DEF SetDomain, OfFirm
    <2> QED
      BY <1>s, <1>f, <2>1 DEF Untouched
  <1>19. ASSUME NEW f \in Firms, putSsoProvider(f) PROVE Untouched(s)
    <2>1. UNCHANGED <<user, account, member, session, flow, call>>
      BY <1>19 DEF putSsoProvider, OfFirm
    <2> QED
      BY <1>s, <1>f, <2>1 DEF Untouched
  <1>20. ASSUME NEW f \in Firms, deleteSsoProvider(f) PROVE Untouched(s)
    <2>1. UNCHANGED <<user, account, member, session, flow, call>>
      BY <1>20 DEF deleteSsoProvider, OfFirm
    <2> QED
      BY <1>s, <1>f, <2>1 DEF Untouched
  <1>21. ASSUME NEW f \in Firms, NEW u \in Users, RemoveMember(f, u) PROVE Untouched(s)
    <2>1. UNCHANGED <<firm, directory, user, account, session, flow, call>> /\ f \notin FirmsHeld(d)
      BY <1>21 DEF RemoveMember, OfFirm, FirmFree
    <2>2. \A g \in FirmsHeld(d) : member'[g] = member[g]
      BY <1>21, <2>1 DEF RemoveMember, TypeOK
    <2> QED
      BY <1>s, <2>1, <2>2 DEF Untouched
  <1>22. ASSUME NEW f \in Firms, NEW u \in Users, ReinstateMember(f, u) PROVE Untouched(s)
    <2>1. UNCHANGED <<firm, directory, user, account, session, flow, call>> /\ f \notin FirmsHeld(d)
      BY <1>22 DEF ReinstateMember, OfFirm, FirmFree
    <2>2. \A g \in FirmsHeld(d) : member'[g] = member[g]
      BY <1>22, <2>1 DEF ReinstateMember, TypeOK
    <2> QED
      BY <1>s, <2>1, <2>2 DEF Untouched
  <1>23. ASSUME NEW f \in Firms, NEW p \in People, NEW u \in Users, importMembers(f, p, u)
    PROVE Untouched(s)
    <2>1. UNCHANGED <<firm, directory, account, session, flow, call>>
      BY <1>23 DEF importMembers
    <2>2. session[s].user # u
      BY <1>23, <1>s DEF importMembers
    <2>3. user'[session[s].user] = user[session[s].user]
      BY <1>23, <1>s, <2>2 DEF importMembers, TypeOK
    <2>4. \A g \in Firms : member'[g][session[s].user] = member[g][session[s].user]
      BY <1>23, <1>s, <2>2 DEF importMembers, TypeOK
    <2> QED
      BY <1>s, <2>1, <2>2, <2>3, <2>4 DEF Untouched
  <1>24. ASSUME NEW u \in Users, disableUser(u) PROVE Untouched(s)
    <2>1. UNCHANGED <<firm, directory, account, member, flow, call>> /\ session[s].user # u
      BY <1>24, <1>s DEF disableUser, OfUser, UserFree
    <2>2. user'[session[s].user] = user[session[s].user]
      BY <1>24, <2>1 DEF disableUser, TypeOK
    <2>3. session'[s] = session[s]
      BY <1>24, <1>s, <2>1 DEF disableUser, EndSessions
    <2> QED
      BY <1>s, <2>1, <2>2, <2>3 DEF Untouched
  <1>25. ASSUME NEW u \in Users, enableUser(u) PROVE Untouched(s)
    <2>1. UNCHANGED <<firm, directory, session, account, member, flow, call>> /\ session[s].user # u
      BY <1>25, <1>s DEF enableUser, OfUser, UserFree
    <2>2. user'[session[s].user] = user[session[s].user]
      BY <1>25, <2>1 DEF enableUser, TypeOK
    <2> QED
      BY <1>s, <2>1, <2>2 DEF Untouched
  <1>26. ASSUME NEW u \in Users, retireUserEmail(u) PROVE Untouched(s)
    <2>1. UNCHANGED <<firm, directory, session, account, member, flow, call>> /\ session[s].user # u
      BY <1>26, <1>s DEF retireUserEmail, OfUser, UserFree
    <2>2. user'[session[s].user] = user[session[s].user]
      BY <1>26, <2>1 DEF retireUserEmail, TypeOK
    <2> QED
      BY <1>s, <2>1, <2>2 DEF Untouched
  <1>27. ASSUME NEW u \in Users, eraseUser(u) PROVE Untouched(s)
    <2>1. UNCHANGED <<firm, directory, flow, call>> /\ session[s].user # u
      BY <1>27, <1>s DEF eraseUser, OfUser, UserFree
    <2>2. user'[session[s].user] = user[session[s].user]
      BY <1>27, <2>1 DEF eraseUser, TypeOK
    <2>3. session'[s] = session[s]
      BY <1>27, <1>s, <2>1 DEF eraseUser, EndSessions
    <2>4. account'[call[s].identity] = account[call[s].identity]
      BY <1>27, <1>s, <2>1 DEF eraseUser
    <2>5. \A g \in Firms : member'[g][session[s].user] = member[g][session[s].user]
      BY <1>27, <1>s, <2>1 DEF eraseUser, TypeOK
    <2> QED
      BY <1>s, <2>1, <2>2, <2>3, <2>4, <2>5 DEF Untouched
  <1>28. CASE UNCHANGED vars
    BY <1>28 DEF Untouched, vars, worldVars
  <1> QED
    BY <1>1, <1>2, <1>3, <1>4, <1>5, <1>6, <1>7, <1>8, <1>9, <1>10, <1>11, <1>12,
       <1>13, <1>14, <1>15, <1>16, <1>17, <1>18, <1>19, <1>20, <1>21, <1>22, <1>23, <1>24,
       <1>25, <1>26, <1>27, <1>28 DEF Next

(***************************************************************************)
(* ... so that what it checked under its locks holds                       *)
(***************************************************************************)
\* A transaction under way has begun at this step, with what beforeTransaction checked, or goes
\* on as it was.
Begins(d) ==
  InTransaction(d)' =>
    /\ call'[d].identity = call[d].identity /\ call'[d].flow = call[d].flow /\ call'[d].row = call[d].row
    /\ InTransaction(d) \/ (beforeTransaction(d) /\ call'[d].at = "locked")
    /\ call'[d].at = "resolved" /\ call[d].at # "resolved" => resolve(d)
    /\ call'[d].at = "resolved" /\ call[d].at = "resolved" => call'[d] = call[d]

\* Every step begins a transaction or leaves it.
LEMMA TransactionsBegin ==
  ASSUME TypeOK, TypeOK', CallsKeepTheirPlace, [Next]_vars, NEW d \in Callbacks
  PROVE Begins(d)
  <1>0. \A c \in Callbacks : resolve(c) => At(c, {"locked"})
    BY DEF resolve
  <1>1. ASSUME NEW c \in Callbacks, NEW purpose \in {"link", "reauthenticate"}, NEW g \in Firms,
               Start(c, purpose, g)
    PROVE Begins(d)
    <2>1. UNCHANGED call
      BY <1>1 DEF Start, OfFirm, OfUser
    <2> QED
      BY <2>1 DEF Begins, InTransaction, At
  <1>2. ASSUME NEW c \in Callbacks, NEW i \in Identities, Return(c, i) PROVE Begins(d)
    <2>1. call'[c].at \in {"exchange", "refused"} /\ \A e \in Callbacks \ {c} : call'[e] = call[e]
      BY <1>2 DEF Return, TypeOK, Fresh
    <2> QED
      BY <2>1 DEF Begins, InTransaction, At
  <1>3. ASSUME NEW c \in Callbacks, NEW i \in Identities, NEW s \in Callbacks, observe(c, i, s)
    PROVE Begins(d)
    <2>1. call'[c].at \in {"exchange", "refused"} /\ \A e \in Callbacks \ {c} : call'[e] = call[e]
      BY <1>3 DEF observe, TypeOK, Fresh
    <2> QED
      BY <2>1 DEF Begins, InTransaction, At
  <1>4. ASSUME NEW c \in Callbacks, NEW s \in Callbacks, ObserveAnothers(c, s) PROVE Begins(d)
    <2>1. call'[c].at \in {"exchange", "refused"} /\ \A e \in Callbacks \ {c} : call'[e] = call[e]
      BY <1>4 DEF ObserveAnothers, TypeOK, Fresh
    <2> QED
      BY <2>1 DEF Begins, InTransaction, At
  <1>5. ASSUME NEW c \in Callbacks, beforeTransaction(c) PROVE Begins(d)
    <2>1. Goes(c) \/ UNCHANGED call
      BY <1>5, CallsGo
    <2> QED
      BY <1>0, <2>1 DEF Goes, Begins, InTransaction, At, TypeOK
  <1>6. ASSUME NEW c \in Callbacks, resolve(c) PROVE Begins(d)
    <2>1. Goes(c) \/ UNCHANGED call
      BY <1>6, CallsGo
    <2> QED
      BY <1>0, <2>1 DEF Goes, Begins, InTransaction, At, TypeOK
  <1>7. ASSUME NEW c \in Callbacks, Commit(c) PROVE Begins(d)
    <2>1. Goes(c) \/ UNCHANGED call
      BY <1>7, CallsGo
    <2> QED
      BY <1>0, <2>1 DEF Goes, Begins, InTransaction, At, TypeOK
  <1>8. ASSUME NEW c \in Callbacks, GiveUp(c) PROVE Begins(d)
    <2>1. Goes(c) \/ UNCHANGED call
      BY <1>8, CallsGo
    <2> QED
      BY <1>0, <2>1 DEF Goes, Begins, InTransaction, At, TypeOK
  <1>9. ASSUME NEW c \in Callbacks, reserveConnection(c) PROVE Begins(d)
    <2>1. Goes(c) \/ UNCHANGED call
      BY <1>9, CallsGo
    <2> QED
      BY <1>0, <2>1 DEF Goes, Begins, InTransaction, At, TypeOK
  <1>10. ASSUME NEW c \in Callbacks, InsertRequest(c) PROVE Begins(d)
    <2>1. Goes(c) \/ UNCHANGED call
      BY <1>10, CallsGo
    <2> QED
      BY <1>0, <2>1 DEF Goes, Begins, InTransaction, At, TypeOK
  <1>11. ASSUME NEW c \in Callbacks, Expire(c) PROVE Begins(d)
    <2>1. UNCHANGED call
      BY <1>11 DEF Expire, OfFirm, OfUser
    <2> QED
      BY <2>1 DEF Begins, InTransaction, At
  <1>12. ASSUME NEW c \in Callbacks, HoldAddress(c) PROVE Begins(d)
    <2>1. UNCHANGED call
      BY <1>12 DEF HoldAddress, OfFirm, OfUser
    <2> QED
      BY <2>1 DEF Begins, InTransaction, At
  <1>13. ASSUME NEW c \in Callbacks, LockConnection(c) PROVE Begins(d)
    <2>1. UNCHANGED call
      BY <1>13 DEF LockConnection, OfFirm, OfUser
    <2> QED
      BY <2>1 DEF Begins, InTransaction, At
  <1>14. ASSUME NEW c \in Callbacks, CheckConnection(c) PROVE Begins(d)
    <2>1. UNCHANGED call
      BY <1>14 DEF CheckConnection, OfFirm, OfUser
    <2> QED
      BY <2>1 DEF Begins, InTransaction, At
  <1>15. ASSUME NEW c \in Callbacks, connectDirectoryAccount(c) PROVE Begins(d)
    <2>1. UNCHANGED call
      BY <1>15 DEF connectDirectoryAccount, OfFirm, OfUser
    <2> QED
      BY <2>1 DEF Begins, InTransaction, At
  <1>16. ASSUME NEW c \in Callbacks, SignOut(c) PROVE Begins(d)
    <2>1. UNCHANGED call
      BY <1>16 DEF SignOut, OfFirm, OfUser
    <2> QED
      BY <2>1 DEF Begins, InTransaction, At
  <1>17. ASSUME NEW f \in Firms, SetFirm(f) PROVE Begins(d)
    <2>1. UNCHANGED call
      BY <1>17 DEF SetFirm, OfFirm, OfUser
    <2> QED
      BY <2>1 DEF Begins, InTransaction, At
  <1>18. ASSUME NEW f \in Firms, SetDomain(f) PROVE Begins(d)
    <2>1. UNCHANGED call
      BY <1>18 DEF SetDomain, OfFirm, OfUser
    <2> QED
      BY <2>1 DEF Begins, InTransaction, At
  <1>19. ASSUME NEW f \in Firms, putSsoProvider(f) PROVE Begins(d)
    <2>1. UNCHANGED call
      BY <1>19 DEF putSsoProvider, OfFirm, OfUser
    <2> QED
      BY <2>1 DEF Begins, InTransaction, At
  <1>20. ASSUME NEW f \in Firms, deleteSsoProvider(f) PROVE Begins(d)
    <2>1. UNCHANGED call
      BY <1>20 DEF deleteSsoProvider, OfFirm, OfUser
    <2> QED
      BY <2>1 DEF Begins, InTransaction, At
  <1>21. ASSUME NEW f \in Firms, NEW u \in Users, RemoveMember(f, u) PROVE Begins(d)
    <2>1. UNCHANGED call
      BY <1>21 DEF RemoveMember, OfFirm, OfUser
    <2> QED
      BY <2>1 DEF Begins, InTransaction, At
  <1>22. ASSUME NEW f \in Firms, NEW u \in Users, ReinstateMember(f, u) PROVE Begins(d)
    <2>1. UNCHANGED call
      BY <1>22 DEF ReinstateMember, OfFirm, OfUser
    <2> QED
      BY <2>1 DEF Begins, InTransaction, At
  <1>23. ASSUME NEW f \in Firms, NEW p \in People, NEW u \in Users, importMembers(f, p,
                u) PROVE Begins(d)
    <2>1. UNCHANGED call
      BY <1>23 DEF importMembers, OfFirm, OfUser
    <2> QED
      BY <2>1 DEF Begins, InTransaction, At
  <1>24. ASSUME NEW u \in Users, disableUser(u) PROVE Begins(d)
    <2>1. UNCHANGED call
      BY <1>24 DEF disableUser, OfFirm, OfUser
    <2> QED
      BY <2>1 DEF Begins, InTransaction, At
  <1>25. ASSUME NEW u \in Users, enableUser(u) PROVE Begins(d)
    <2>1. UNCHANGED call
      BY <1>25 DEF enableUser, OfFirm, OfUser
    <2> QED
      BY <2>1 DEF Begins, InTransaction, At
  <1>26. ASSUME NEW u \in Users, retireUserEmail(u) PROVE Begins(d)
    <2>1. UNCHANGED call
      BY <1>26 DEF retireUserEmail, OfFirm, OfUser
    <2> QED
      BY <2>1 DEF Begins, InTransaction, At
  <1>27. ASSUME NEW u \in Users, eraseUser(u) PROVE Begins(d)
    <2>1. UNCHANGED call
      BY <1>27 DEF eraseUser, OfFirm, OfUser
    <2> QED
      BY <2>1 DEF Begins, InTransaction, At
  <1>28. CASE UNCHANGED vars
    BY <1>28 DEF Begins, InTransaction, At, vars
  <1> QED
    BY <1>1, <1>2, <1>3, <1>4, <1>5, <1>6, <1>7, <1>8, <1>9, <1>10, <1>11, <1>12,
       <1>13, <1>14, <1>15, <1>16, <1>17, <1>18, <1>19, <1>20, <1>21, <1>22, <1>23, <1>24,
       <1>25, <1>26, <1>27, <1>28 DEF Next

\* Every step keeps LocksHold: what begins has checked it, and what goes on is not touched.
LEMMA LocksStep ==
  ASSUME TypeOK, TypeOK', CallsKeepTheirPlace, FlowsAreConsumedOnce, LocksHold, [Next]_vars
  PROVE LocksHold'
  <1> SUFFICES ASSUME NEW d \in Callbacks, InTransaction(d)'
               PROVE (/\ directory[FirmOf(d)].live /\ directory[FirmOf(d)].row = call[d].row
                      /\ HasFlow(d) => current(call[d].flow))'
    BY DEF LocksHold
  <1>1. /\ call'[d].identity = call[d].identity /\ call'[d].flow = call[d].flow /\ call'[d].row = call[d].row
        /\ InTransaction(d) \/ (beforeTransaction(d) /\ call'[d].at = "locked")
    BY TransactionsBegin DEF Begins
  <1>2. call[d].flow \in Callbacks \cup {Nobody}
    BY DEF TypeOK, Calls
  <1>3. CASE InTransaction(d)
    <2>1. directory'[FirmOf(d)] = directory[FirmOf(d)] /\ FirmOf(d)' = FirmOf(d)
      BY <1>1, <1>3, FirmsStand DEF FirmsKept, FirmsHeld, FirmOf
    <2>2. ASSUME HasFlow(d) PROVE current(call[d].flow)'
      <3>1. PICK s \in Callbacks : s = call[d].flow
        BY <1>2, <2>2 DEF HasFlow
      <3>2. Untouched(s) /\ current(s)
        BY <1>3, <2>2, <3>1, FlowsStand DEF LocksHold
      <3>3. current(s)'
        BY <3>2, UntouchedIsCurrent
      <3> QED
        BY <1>1, <3>1, <3>3
    <2> QED
      BY <1>1, <1>3, <2>1, <2>2 DEF LocksHold, HasFlow
  <1>4. CASE beforeTransaction(d) /\ call'[d].at = "locked"
    <2>1. /\ UNCHANGED <<worldVars, session, flow>> /\ directory[FirmOf(d)].live
          /\ directory[FirmOf(d)].row = call[d].row /\ (HasFlow(d) => current(call[d].flow))
          /\ \A e \in Callbacks \ {d} : call'[e] = call[e]
      <3>1. ~Refused(d)
        <4>1. Ended(d, "refused").at = "refused"
          BY DEF Ended, Fresh
        <4> QED
          BY <1>4, <4>1 DEF Refused, TypeOK
      <3>2. /\ directory[FirmOf(d)].live /\ directory[FirmOf(d)].row = call[d].row
            /\ HasFlow(d) => current(call[d].flow)
            /\ call' = [call EXCEPT ![d].at = "locked"]
        BY <1>4, <3>1 DEF beforeTransaction
      <3> QED
        BY <1>4, <3>2 DEF beforeTransaction, TypeOK
    <2>2. ASSUME HasFlow(d) PROVE current(call[d].flow)'
      <3>1. PICK s \in Callbacks : s = call[d].flow
        BY <1>2, <2>2 DEF HasFlow
      <3>2. s # d
        BY <1>4, <2>2, <3>1 DEF FlowsAreConsumedOnce, beforeTransaction, At
      <3>3. Untouched(s)
        BY <2>1, <3>2 DEF Untouched, worldVars
      <3>4. current(s)'
        BY <2>1, <2>2, <3>1, <3>3, UntouchedIsCurrent
      <3> QED
        BY <1>1, <3>1, <3>4
    <2> QED
      BY <1>1, <2>1, <2>2 DEF HasFlow, FirmOf, worldVars
  <1> QED
    BY <1>1, <1>3, <1>4

(***************************************************************************)
(* Requests to connect, and their addresses                                *)
(***************************************************************************)
\* A request under way was under way, or is the first of its address.
Asked(c) ==
  request'[c].at # "idle" =>
    /\ call'[c].identity = call[c].identity
    /\ \/ request[c].at # "idle"
       \/ AddressFree(AddressOf(c)) /\ \A d \in Callbacks \ {c} : request'[d] = request[d]

\* Every step asks for a connection under the address's lock or goes on with one.
LEMMA RequestsAsked ==
  ASSUME TypeOK, TypeOK', CallsKeepTheirPlace, [Next]_vars, NEW d \in Callbacks
  PROVE Asked(d)
  <1>0. \A e \in Callbacks : KeepsItsPlace(e)
    BY DEF CallsKeepTheirPlace, KeepsItsPlace
  <1>1. ASSUME NEW c \in Callbacks, NEW purpose \in {"link", "reauthenticate"}, NEW g \in Firms,
               Start(c, purpose, g)
    PROVE Asked(d)
    <2>1. UNCHANGED <<call, request>>
      BY <1>1 DEF Start, OfFirm, OfUser
    <2> QED
      BY <2>1 DEF Asked
  <1>2. ASSUME NEW c \in Callbacks, NEW i \in Identities, Return(c, i) PROVE Asked(d)
    <2>1. /\ At(c, {"new"}) /\ UNCHANGED request
          /\ \A e \in Callbacks \ {c} : call'[e] = call[e]
      BY <1>2 DEF Return, TypeOK
    <2>2. request[c].at = "idle"
      BY <1>0, <2>1 DEF KeepsItsPlace, At, NoRequest
    <2> QED
      BY <2>1, <2>2 DEF Asked
  <1>3. ASSUME NEW c \in Callbacks, NEW i \in Identities, NEW s \in Callbacks, observe(c, i, s)
    PROVE Asked(d)
    <2>1. /\ At(c, {"new"}) /\ UNCHANGED request
          /\ \A e \in Callbacks \ {c} : call'[e] = call[e]
      BY <1>3 DEF observe, TypeOK
    <2>2. request[c].at = "idle"
      BY <1>0, <2>1 DEF KeepsItsPlace, At, NoRequest
    <2> QED
      BY <2>1, <2>2 DEF Asked
  <1>4. ASSUME NEW c \in Callbacks, NEW s \in Callbacks, ObserveAnothers(c, s) PROVE Asked(d)
    <2>1. /\ At(c, {"new"}) /\ UNCHANGED request
          /\ \A e \in Callbacks \ {c} : call'[e] = call[e]
      BY <1>4 DEF ObserveAnothers, TypeOK
    <2>2. request[c].at = "idle"
      BY <1>0, <2>1 DEF KeepsItsPlace, At, NoRequest
    <2> QED
      BY <2>1, <2>2 DEF Asked
  <1>5. ASSUME NEW c \in Callbacks, beforeTransaction(c) PROVE Asked(d)
    <2>1. Goes(c) \/ UNCHANGED call
      BY <1>5, CallsGo
    <2>2. UNCHANGED request
      BY <1>5 DEF beforeTransaction
    <2> QED
      BY <2>1, <2>2 DEF Goes, Asked, TypeOK
  <1>6. ASSUME NEW c \in Callbacks, resolve(c) PROVE Asked(d)
    <2>1. Goes(c) \/ UNCHANGED call
      BY <1>6, CallsGo
    <2>2. UNCHANGED request
      BY <1>6 DEF resolve
    <2> QED
      BY <2>1, <2>2 DEF Goes, Asked, TypeOK
  <1>7. ASSUME NEW c \in Callbacks, Commit(c) PROVE Asked(d)
    <2>1. Goes(c) \/ UNCHANGED call
      BY <1>7, CallsGo
    <2>2. UNCHANGED request
      BY <1>7 DEF Commit
    <2> QED
      BY <2>1, <2>2 DEF Goes, Asked, TypeOK
  <1>8. ASSUME NEW c \in Callbacks, GiveUp(c) PROVE Asked(d)
    <2>1. Goes(c) \/ UNCHANGED call
      BY <1>8, CallsGo
    <2>2. UNCHANGED request
      BY <1>8 DEF GiveUp
    <2> QED
      BY <2>1, <2>2 DEF Goes, Asked, TypeOK
  <1>9. ASSUME NEW c \in Callbacks, reserveConnection(c) PROVE Asked(d)
    <2>1. Goes(c) \/ UNCHANGED call
      BY <1>9, CallsGo
    <2>2. \A e \in Callbacks : call'[e].identity = call[e].identity
      BY <2>1 DEF Goes, TypeOK
    <2>3. AddressFree(AddressOf(c)) /\ \A e \in Callbacks \ {c} : request'[e] = request[e]
      BY <1>9 DEF reserveConnection, TypeOK
    <2> QED
      BY <2>2, <2>3 DEF Asked
  <1>10. ASSUME NEW c \in Callbacks, InsertRequest(c) PROVE Asked(d)
    <2>1. Goes(c) \/ UNCHANGED call
      BY <1>10, CallsGo
    <2>2. request[c].at # "idle" /\ \A e \in Callbacks \ {c} : request'[e] = request[e]
      BY <1>10 DEF InsertRequest, TypeOK
    <2> QED
      BY <2>1, <2>2 DEF Goes, Asked, TypeOK
  <1>11. ASSUME NEW c \in Callbacks, Expire(c) PROVE Asked(d)
    <2>1. UNCHANGED call /\ \A e \in Callbacks \ {c} : request'[e] = request[e]
      BY <1>11 DEF Expire, TypeOK
    <2>2. request'[c].at # "idle" => request[c].at # "idle"
      BY <1>11 DEF Expire, TypeOK, NoRequest
    <2> QED
      BY <2>1, <2>2 DEF Asked
  <1>12. ASSUME NEW c \in Callbacks, HoldAddress(c) PROVE Asked(d)
    <2>1. /\ UNCHANGED call /\ AddressFree(AddressOf(c))
          /\ \A e \in Callbacks \ {c} : request'[e] = request[e]
      BY <1>12 DEF HoldAddress, TypeOK
    <2> QED
      BY <2>1 DEF Asked
  <1>13. ASSUME NEW c \in Callbacks, LockConnection(c) PROVE Asked(d)
    <2>1. UNCHANGED call /\ \A e \in Callbacks \ {c} : request'[e] = request[e]
      BY <1>13 DEF LockConnection, TypeOK
    <2>2. request'[c].at # "idle" => request[c].at # "idle"
      BY <1>13 DEF LockConnection, TypeOK, NoRequest
    <2> QED
      BY <2>1, <2>2 DEF Asked
  <1>14. ASSUME NEW c \in Callbacks, CheckConnection(c) PROVE Asked(d)
    <2>1. UNCHANGED call /\ \A e \in Callbacks \ {c} : request'[e] = request[e]
      BY <1>14 DEF CheckConnection, TypeOK
    <2>2. request'[c].at # "idle" => request[c].at # "idle"
      BY <1>14 DEF CheckConnection, TypeOK, NoRequest
    <2> QED
      BY <2>1, <2>2 DEF Asked
  <1>15. ASSUME NEW c \in Callbacks, connectDirectoryAccount(c) PROVE Asked(d)
    <2>1. UNCHANGED call /\ \A e \in Callbacks \ {c} : request'[e] = request[e]
      BY <1>15 DEF connectDirectoryAccount, TypeOK
    <2>2. request'[c].at # "idle" => request[c].at # "idle"
      BY <1>15 DEF connectDirectoryAccount, TypeOK, NoRequest
    <2> QED
      BY <2>1, <2>2 DEF Asked
  <1>16. ASSUME NEW c \in Callbacks, SignOut(c) PROVE Asked(d)
    <2>1. UNCHANGED <<call, request>>
      BY <1>16 DEF SignOut, OfFirm, OfUser
    <2> QED
      BY <2>1 DEF Asked
  <1>17. ASSUME NEW f \in Firms, SetFirm(f) PROVE Asked(d)
    <2>1. UNCHANGED <<call, request>>
      BY <1>17 DEF SetFirm, OfFirm, OfUser
    <2> QED
      BY <2>1 DEF Asked
  <1>18. ASSUME NEW f \in Firms, SetDomain(f) PROVE Asked(d)
    <2>1. UNCHANGED <<call, request>>
      BY <1>18 DEF SetDomain, OfFirm, OfUser
    <2> QED
      BY <2>1 DEF Asked
  <1>19. ASSUME NEW f \in Firms, putSsoProvider(f) PROVE Asked(d)
    <2>1. UNCHANGED <<call, request>>
      BY <1>19 DEF putSsoProvider, OfFirm, OfUser
    <2> QED
      BY <2>1 DEF Asked
  <1>20. ASSUME NEW f \in Firms, deleteSsoProvider(f) PROVE Asked(d)
    <2>1. UNCHANGED <<call, request>>
      BY <1>20 DEF deleteSsoProvider, OfFirm, OfUser
    <2> QED
      BY <2>1 DEF Asked
  <1>21. ASSUME NEW f \in Firms, NEW u \in Users, RemoveMember(f, u) PROVE Asked(d)
    <2>1. UNCHANGED <<call, request>>
      BY <1>21 DEF RemoveMember, OfFirm, OfUser
    <2> QED
      BY <2>1 DEF Asked
  <1>22. ASSUME NEW f \in Firms, NEW u \in Users, ReinstateMember(f, u) PROVE Asked(d)
    <2>1. UNCHANGED <<call, request>>
      BY <1>22 DEF ReinstateMember, OfFirm, OfUser
    <2> QED
      BY <2>1 DEF Asked
  <1>23. ASSUME NEW f \in Firms, NEW p \in People, NEW u \in Users, importMembers(f, p,
                u) PROVE Asked(d)
    <2>1. UNCHANGED <<call, request>>
      BY <1>23 DEF importMembers, OfFirm, OfUser
    <2> QED
      BY <2>1 DEF Asked
  <1>24. ASSUME NEW u \in Users, disableUser(u) PROVE Asked(d)
    <2>1. UNCHANGED <<call, request>>
      BY <1>24 DEF disableUser, OfFirm, OfUser
    <2> QED
      BY <2>1 DEF Asked
  <1>25. ASSUME NEW u \in Users, enableUser(u) PROVE Asked(d)
    <2>1. UNCHANGED <<call, request>>
      BY <1>25 DEF enableUser, OfFirm, OfUser
    <2> QED
      BY <2>1 DEF Asked
  <1>26. ASSUME NEW u \in Users, retireUserEmail(u) PROVE Asked(d)
    <2>1. UNCHANGED call
      BY <1>26 DEF retireUserEmail, OfUser
    <2>2. request'[d].at # "idle" => request[d].at # "idle"
      BY <1>26 DEF retireUserEmail, ReleaseAddress, NoRequest, TypeOK, Requests
    <2> QED
      BY <2>1, <2>2 DEF Asked
  <1>27. ASSUME NEW u \in Users, eraseUser(u) PROVE Asked(d)
    <2>1. UNCHANGED call
      BY <1>27 DEF eraseUser, OfUser
    <2>2. request'[d].at # "idle" => request[d].at # "idle"
      BY <1>27 DEF eraseUser, ReleaseAddress, NoRequest, TypeOK, Requests
    <2> QED
      BY <2>1, <2>2 DEF Asked
  <1>28. CASE UNCHANGED vars
    BY <1>28 DEF Asked, vars
  <1> QED
    BY <1>1, <1>2, <1>3, <1>4, <1>5, <1>6, <1>7, <1>8, <1>9, <1>10, <1>11, <1>12,
       <1>13, <1>14, <1>15, <1>16, <1>17, <1>18, <1>19, <1>20, <1>21, <1>22, <1>23, <1>24,
       <1>25, <1>26, <1>27, <1>28 DEF Next

\* Every step keeps OneRequestAnAddress.
LEMMA RequestsStep ==
  ASSUME TypeOK, TypeOK', CallsKeepTheirPlace, OneRequestAnAddress, [Next]_vars
  PROVE OneRequestAnAddress'
  <1>1. \A c \in Callbacks : Asked(c)
    BY RequestsAsked
  <1> QED
    BY <1>1 DEF OneRequestAnAddress, Asked, AddressOf, AddressFree

(***************************************************************************)
(* People have their own                                                   *)
(***************************************************************************)
\* What belongs to people, apart from the requests.
PeoplesThings == OneAddressAPerson /\ AccountsArePeoples /\ UnbornHaveNothing

\* Every step keeps one address to a person, accounts to people, and nothing to the unborn.
LEMMA PeopleStep ==
  ASSUME TypeOK, TypeOK', LocksHold, ResolvedHolds, CheckedHolds, PeoplesThings, [Next]_vars
  PROVE PeoplesThings'
  <1>0. OneAddressAPerson /\ AccountsArePeoples /\ UnbornHaveNothing
    BY DEF PeoplesThings
  <1>1. ASSUME NEW c \in Callbacks, NEW purpose \in {"link", "reauthenticate"}, NEW g \in Firms,
               Start(c, purpose, g)
    PROVE PeoplesThings'
    <2>1. UNCHANGED <<user, holder, account, member>>
      BY <1>1 DEF Start, OfFirm, worldVars
    <2> QED
      BY <1>0, <2>1 DEF PeoplesThings, OneAddressAPerson, AccountsArePeoples, UnbornHaveNothing, Exact
  <1>2. ASSUME NEW c \in Callbacks, NEW i \in Identities, Return(c, i) PROVE PeoplesThings'
    <2>1. UNCHANGED <<user, holder, account, member>>
      BY <1>2 DEF Return, OfFirm, worldVars
    <2> QED
      BY <1>0, <2>1 DEF PeoplesThings, OneAddressAPerson, AccountsArePeoples, UnbornHaveNothing, Exact
  <1>3. ASSUME NEW c \in Callbacks, NEW i \in Identities, NEW s \in Callbacks, observe(c, i, s)
    PROVE PeoplesThings'
    <2>1. UNCHANGED <<user, holder, account, member>>
      BY <1>3 DEF observe, OfFirm, worldVars
    <2> QED
      BY <1>0, <2>1 DEF PeoplesThings, OneAddressAPerson, AccountsArePeoples, UnbornHaveNothing, Exact
  <1>4. ASSUME NEW c \in Callbacks, NEW s \in Callbacks, ObserveAnothers(c, s) PROVE PeoplesThings'
    <2>1. UNCHANGED <<user, holder, account, member>>
      BY <1>4 DEF ObserveAnothers, OfFirm, worldVars
    <2> QED
      BY <1>0, <2>1 DEF PeoplesThings, OneAddressAPerson, AccountsArePeoples, UnbornHaveNothing, Exact
  <1>5. ASSUME NEW c \in Callbacks, beforeTransaction(c) PROVE PeoplesThings'
    <2>1. UNCHANGED <<user, holder, account, member>>
      BY <1>5 DEF beforeTransaction, OfFirm, worldVars
    <2> QED
      BY <1>0, <2>1 DEF PeoplesThings, OneAddressAPerson, AccountsArePeoples, UnbornHaveNothing, Exact
  <1>6. ASSUME NEW c \in Callbacks, resolve(c) PROVE PeoplesThings'
    <2>1. UNCHANGED <<user, holder, account, member>>
      BY <1>6 DEF resolve, OfFirm, worldVars
    <2> QED
      BY <1>0, <2>1 DEF PeoplesThings, OneAddressAPerson, AccountsArePeoples, UnbornHaveNothing, Exact
  <1>7. ASSUME NEW c \in Callbacks, Commit(c) PROVE PeoplesThings'
    <2>1. CASE UNCHANGED <<worldVars, session>>
      BY <1>0, <2>1
         DEF PeoplesThings, OneAddressAPerson, AccountsArePeoples, UnbornHaveNothing, Exact, worldVars
    <2>2. ASSUME Stands(c), NEW u \in Users, Admit(c, u) PROVE PeoplesThings'
      <3>1. PICK i \in Identities : i = call[c].identity
        BY DEF TypeOK, Calls
      <3>2. Home[i] \in Firms /\ Person[i] \in People
        BY DirectoryAssumption
      <3>3. At(c, {"resolved"})
        BY <1>7 DEF Commit
      <3>4. CASE call[c].binds = "create"
        <4>1. user[u] = "unborn" /\ holder[Person[i]] = Nobody
          BY <2>2, <3>1, <3>4 DEF Admit, Stands
        <4>2. user' = [user EXCEPT ![u] = "active"] /\ holder' = [holder EXCEPT ![Person[i]] = u]
          BY <2>2, <3>1, <3>4 DEF Admit
        <4>3. \A j \in Identities : account'[j].user = account[j].user \/ (j = i /\ account'[j].user = u)
          BY <2>2, <3>1, <3>4 DEF Admit, TypeOK
        <4>4. \A f \in Firms, w \in Users : member'[f][w] = member[f][w] \/ w = u
          BY <2>2, <3>1, <3>2 DEF Admit, provisionMembership, TypeOK
        <4>5. \A j \in Identities : account'[j] = account[j] \/ account'[j].user = u
          BY <2>2, <3>1, <3>4 DEF Admit, TypeOK
        <4>6. OneAddressAPerson'
          BY <1>0, <3>2, <4>1, <4>2, DirectoryAssumption
             DEF OneAddressAPerson, UnbornHaveNothing, TypeOK
        <4>7. AccountsArePeoples'
          BY <1>0, <4>5 DEF AccountsArePeoples, Exact
        <4>8. UnbornHaveNothing'
          BY <1>0, <3>2, <4>1, <4>2, <4>4, <4>5 DEF UnbornHaveNothing, TypeOK
        <4> QED
          BY <4>6, <4>7, <4>8 DEF PeoplesThings
      <3>5. CASE call[c].binds # "create"
        <4>1. UNCHANGED <<user, holder>> /\ u = call[c].user
          BY <2>2, <3>5 DEF Admit
        <4>2. call[c].binds = "link" => call[c].flow \in Callbacks /\ u = session[call[c].flow].user
          BY <3>3, <4>1 DEF ResolvedHolds, Linking, HasFlow, TypeOK, Calls
        <4>3. call[c].binds = "link" => user[u] = "active"
          <5>1. call[c].binds = "link" => HasFlow(c) /\ current(call[c].flow)
            BY <3>3 DEF ResolvedHolds, Linking, LocksHold, InTransaction, At
          <5> QED
            BY <4>2, <5>1 DEF current, tenantAuthentication
        <4>4. call[c].binds # "link" => account[i].user = u
          BY <2>2, <3>1, <3>3, <3>5, <4>1 DEF ResolvedHolds, Stands
        <4>5. user[u] # "unborn"
          BY <1>0, <4>3, <4>4 DEF UnbornHaveNothing
        <4>6. \A j \in Identities : account'[j] = account[j] \/ account'[j].user = u
          BY <2>2, <3>1 DEF Admit, TypeOK
        <4>7. \A f \in Firms, w \in Users : member'[f][w] = member[f][w] \/ w = u
          BY <2>2, <3>1, <3>2 DEF Admit, provisionMembership, TypeOK
        <4> QED
          BY <1>0, <4>1, <4>5, <4>6, <4>7
             DEF PeoplesThings, OneAddressAPerson, AccountsArePeoples, UnbornHaveNothing, Exact
      <3> QED
        BY <3>4, <3>5
    <2> QED
      BY <1>7, <2>1, <2>2 DEF Commit
  <1>8. ASSUME NEW c \in Callbacks, GiveUp(c) PROVE PeoplesThings'
    <2>1. UNCHANGED <<user, holder, account, member>>
      BY <1>8 DEF GiveUp, OfFirm, worldVars
    <2> QED
      BY <1>0, <2>1 DEF PeoplesThings, OneAddressAPerson, AccountsArePeoples, UnbornHaveNothing, Exact
  <1>9. ASSUME NEW c \in Callbacks, reserveConnection(c) PROVE PeoplesThings'
    <2>1. UNCHANGED <<user, holder, account, member>>
      BY <1>9 DEF reserveConnection, OfFirm, worldVars
    <2> QED
      BY <1>0, <2>1 DEF PeoplesThings, OneAddressAPerson, AccountsArePeoples, UnbornHaveNothing, Exact
  <1>10. ASSUME NEW c \in Callbacks, InsertRequest(c) PROVE PeoplesThings'
    <2>1. UNCHANGED <<user, holder, account, member>>
      BY <1>10 DEF InsertRequest, OfFirm, worldVars
    <2> QED
      BY <1>0, <2>1 DEF PeoplesThings, OneAddressAPerson, AccountsArePeoples, UnbornHaveNothing, Exact
  <1>11. ASSUME NEW c \in Callbacks, Expire(c) PROVE PeoplesThings'
    <2>1. UNCHANGED <<user, holder, account, member>>
      BY <1>11 DEF Expire, OfFirm, worldVars
    <2> QED
      BY <1>0, <2>1 DEF PeoplesThings, OneAddressAPerson, AccountsArePeoples, UnbornHaveNothing, Exact
  <1>12. ASSUME NEW c \in Callbacks, HoldAddress(c) PROVE PeoplesThings'
    <2>1. UNCHANGED <<user, holder, account, member>>
      BY <1>12 DEF HoldAddress, OfFirm, worldVars
    <2> QED
      BY <1>0, <2>1 DEF PeoplesThings, OneAddressAPerson, AccountsArePeoples, UnbornHaveNothing, Exact
  <1>13. ASSUME NEW c \in Callbacks, LockConnection(c) PROVE PeoplesThings'
    <2>1. UNCHANGED <<user, holder, account, member>>
      BY <1>13 DEF LockConnection, OfFirm, worldVars
    <2> QED
      BY <1>0, <2>1 DEF PeoplesThings, OneAddressAPerson, AccountsArePeoples, UnbornHaveNothing, Exact
  <1>14. ASSUME NEW c \in Callbacks, CheckConnection(c) PROVE PeoplesThings'
    <2>1. UNCHANGED <<user, holder, account, member>>
      BY <1>14 DEF CheckConnection, OfFirm, worldVars
    <2> QED
      BY <1>0, <2>1 DEF PeoplesThings, OneAddressAPerson, AccountsArePeoples, UnbornHaveNothing, Exact
  <1>15. ASSUME NEW c \in Callbacks, connectDirectoryAccount(c) PROVE PeoplesThings'
    <2>1. UNCHANGED <<user, holder, member>> /\ request[c].at = "checked"
      BY <1>15 DEF connectDirectoryAccount
    <2>2. request[c].seen \in Users /\ user[request[c].seen] = "active"
      BY <2>1 DEF CheckedHolds, holderAwaitingDirectory
    <2>3. \A j \in Identities : account'[j] = account[j] \/ account'[j].user = request[c].seen
      BY <1>15 DEF connectDirectoryAccount, TypeOK
    <2> QED
      BY <1>0, <2>1, <2>2, <2>3
         DEF PeoplesThings, OneAddressAPerson, AccountsArePeoples, UnbornHaveNothing, Exact
  <1>16. ASSUME NEW c \in Callbacks, SignOut(c) PROVE PeoplesThings'
    <2>1. UNCHANGED <<user, holder, account, member>>
      BY <1>16 DEF SignOut, OfFirm, worldVars
    <2> QED
      BY <1>0, <2>1 DEF PeoplesThings, OneAddressAPerson, AccountsArePeoples, UnbornHaveNothing, Exact
  <1>17. ASSUME NEW f \in Firms, SetFirm(f) PROVE PeoplesThings'
    <2>1. UNCHANGED <<user, holder, account, member>>
      BY <1>17 DEF SetFirm, OfFirm, worldVars
    <2> QED
      BY <1>0, <2>1 DEF PeoplesThings, OneAddressAPerson, AccountsArePeoples, UnbornHaveNothing, Exact
  <1>18. ASSUME NEW f \in Firms, SetDomain(f) PROVE PeoplesThings'
    <2>1. UNCHANGED <<user, holder, account, member>>
      BY <1>18 DEF SetDomain, OfFirm, worldVars
    <2> QED
      BY <1>0, <2>1 DEF PeoplesThings, OneAddressAPerson, AccountsArePeoples, UnbornHaveNothing, Exact
  <1>19. ASSUME NEW f \in Firms, putSsoProvider(f) PROVE PeoplesThings'
    <2>1. UNCHANGED <<user, holder, account, member>>
      BY <1>19 DEF putSsoProvider, OfFirm, worldVars
    <2> QED
      BY <1>0, <2>1 DEF PeoplesThings, OneAddressAPerson, AccountsArePeoples, UnbornHaveNothing, Exact
  <1>20. ASSUME NEW f \in Firms, deleteSsoProvider(f) PROVE PeoplesThings'
    <2>1. UNCHANGED <<user, holder, account, member>>
      BY <1>20 DEF deleteSsoProvider, OfFirm, worldVars
    <2> QED
      BY <1>0, <2>1 DEF PeoplesThings, OneAddressAPerson, AccountsArePeoples, UnbornHaveNothing, Exact
  <1>21. ASSUME NEW f \in Firms, NEW u \in Users, RemoveMember(f, u) PROVE PeoplesThings'
    <2>1. UNCHANGED <<user, holder, account>> /\ member[f][u] # "none"
      BY <1>21 DEF RemoveMember
    <2>2. \A g \in Firms, w \in Users : member'[g][w] = member[g][w] \/ w = u
      BY <1>21 DEF RemoveMember, TypeOK
    <2> QED
      BY <1>0, <2>1, <2>2
         DEF PeoplesThings, OneAddressAPerson, AccountsArePeoples, UnbornHaveNothing, Exact
  <1>22. ASSUME NEW f \in Firms, NEW u \in Users, ReinstateMember(f, u) PROVE PeoplesThings'
    <2>1. UNCHANGED <<user, holder, account>> /\ member[f][u] # "none"
      BY <1>22 DEF ReinstateMember
    <2>2. \A g \in Firms, w \in Users : member'[g][w] = member[g][w] \/ w = u
      BY <1>22 DEF ReinstateMember, TypeOK
    <2> QED
      BY <1>0, <2>1, <2>2
         DEF PeoplesThings, OneAddressAPerson, AccountsArePeoples, UnbornHaveNothing, Exact
  <1>23. ASSUME NEW f \in Firms, NEW p \in People, NEW u \in Users, importMembers(f, p, u)
    PROVE PeoplesThings'
    <2>1. UNCHANGED account /\ \A g \in Firms, w \in Users : member'[g][w] = member[g][w] \/ w = u
      BY <1>23 DEF importMembers, TypeOK
    <2>2. CASE user[u] = "unborn"
      <3>1. user' = [user EXCEPT ![u] = "active"] /\ holder' = [holder EXCEPT ![p] = u] /\ holder[p] = Nobody
        BY <1>23, <2>2 DEF importMembers
      <3> QED
        BY <1>0, <2>1, <2>2, <3>1, DirectoryAssumption
           DEF PeoplesThings, OneAddressAPerson, AccountsArePeoples, UnbornHaveNothing, Exact, TypeOK
    <2>3. CASE user[u] # "unborn"
      <3>1. UNCHANGED <<user, holder>>
        BY <1>23, <2>3 DEF importMembers
      <3> QED
        BY <1>0, <2>1, <2>3, <3>1
           DEF PeoplesThings, OneAddressAPerson, AccountsArePeoples, UnbornHaveNothing, Exact
    <2> QED
      BY <2>2, <2>3
  <1>24. ASSUME NEW u \in Users, disableUser(u) PROVE PeoplesThings'
    <2>1. user[u] # "unborn" /\ UNCHANGED <<holder, account, member>>
      BY <1>24 DEF disableUser, OfUser
    <2>2. \A w \in Users : user'[w] = "unborn" => user[w] = "unborn"
      BY <1>24, <2>1 DEF disableUser, TypeOK
    <2>6. OneAddressAPerson'
      BY <1>0, <2>1, <2>2, DirectoryAssumption DEF OneAddressAPerson, TypeOK
    <2>7. AccountsArePeoples'
      BY <1>0, <2>1, <2>2 DEF AccountsArePeoples, Exact
    <2>8. UnbornHaveNothing'
      BY <1>0, <2>1, <2>2, DirectoryAssumption DEF UnbornHaveNothing
    <2> QED
      BY <2>6, <2>7, <2>8 DEF PeoplesThings
  <1>25. ASSUME NEW u \in Users, enableUser(u) PROVE PeoplesThings'
    <2>1. user[u] # "unborn" /\ UNCHANGED <<holder, account, member>>
      BY <1>25 DEF enableUser, OfUser
    <2>2. \A w \in Users : user'[w] = "unborn" => user[w] = "unborn"
      BY <1>25, <2>1 DEF enableUser, TypeOK
    <2>6. OneAddressAPerson'
      BY <1>0, <2>1, <2>2, DirectoryAssumption DEF OneAddressAPerson, TypeOK
    <2>7. AccountsArePeoples'
      BY <1>0, <2>1, <2>2 DEF AccountsArePeoples, Exact
    <2>8. UnbornHaveNothing'
      BY <1>0, <2>1, <2>2, DirectoryAssumption DEF UnbornHaveNothing
    <2> QED
      BY <2>6, <2>7, <2>8 DEF PeoplesThings
  <1>26. ASSUME NEW u \in Users, retireUserEmail(u) PROVE PeoplesThings'
    <2>1. user[u] # "unborn" /\ UNCHANGED <<account, member>>
      BY <1>26 DEF retireUserEmail, OfUser
    <2>2. \A w \in Users : user'[w] = "unborn" => user[w] = "unborn"
      BY <1>26, <2>1 DEF retireUserEmail, TypeOK
    <2>3. \A p \in People : holder'[p] = holder[p] \/ holder'[p] = Nobody
      BY <1>26 DEF retireUserEmail, ReleaseAddress, TypeOK
    <2>6. OneAddressAPerson'
      BY <1>0, <2>1, <2>2, <2>3, DirectoryAssumption DEF OneAddressAPerson, TypeOK
    <2>7. AccountsArePeoples'
      BY <1>0, <2>1, <2>2, <2>3 DEF AccountsArePeoples, Exact
    <2>8. UnbornHaveNothing'
      BY <1>0, <2>1, <2>2, <2>3, DirectoryAssumption DEF UnbornHaveNothing
    <2> QED
      BY <2>6, <2>7, <2>8 DEF PeoplesThings
  <1>27. ASSUME NEW u \in Users, eraseUser(u) PROVE PeoplesThings'
    <2>1. user[u] # "unborn"
      BY <1>27 DEF eraseUser, OfUser
    <2>2. \A w \in Users : user'[w] = "unborn" => user[w] = "unborn"
      BY <1>27, <2>1 DEF eraseUser, TypeOK
    <2>3. \A p \in People : holder'[p] = holder[p] \/ holder'[p] = Nobody
      BY <1>27 DEF eraseUser, ReleaseAddress, TypeOK
    <2>4. \A i \in Identities : account'[i].user = account[i].user /\ (account[i] = NoAccount => account'[i] = NoAccount)
      <3>1. SUFFICES ASSUME NEW i \in Identities
                     PROVE account'[i].user = account[i].user /\ (account[i] = NoAccount => account'[i] = NoAccount)
        OBVIOUS
      <3>2. account[i] \in Accounts /\ NoAccount.user = Nobody
        BY DEF TypeOK, NoAccount
      <3>3. account'[i] = IF account[i].user = u THEN [account[i] EXCEPT !.live = FALSE] ELSE account[i]
        BY <1>27 DEF eraseUser
      <3> QED
        BY <3>2, <3>3, DirectoryAssumption DEF Accounts
    <2>5. \A f \in Firms, w \in Users : member'[f][w] = member[f][w] \/ w = u
      BY <1>27 DEF eraseUser, TypeOK
    <2>6. OneAddressAPerson'
      BY <1>0, <2>1, <2>2, <2>3, <2>4, <2>5, DirectoryAssumption DEF OneAddressAPerson, TypeOK
    <2>7. AccountsArePeoples'
      BY <1>0, <2>1, <2>2, <2>3, <2>4, <2>5 DEF AccountsArePeoples, Exact
    <2>8. UnbornHaveNothing'
      BY <1>0, <2>1, <2>2, <2>3, <2>4, <2>5, DirectoryAssumption DEF UnbornHaveNothing
    <2> QED
      BY <2>6, <2>7, <2>8 DEF PeoplesThings
  <1>28. CASE UNCHANGED vars
    BY <1>0, <1>28
       DEF PeoplesThings, OneAddressAPerson, AccountsArePeoples, UnbornHaveNothing, Exact, vars,
           worldVars
  <1> QED
    BY <1>1, <1>2, <1>3, <1>4, <1>5, <1>6, <1>7, <1>8, <1>9, <1>10, <1>11, <1>12,
       <1>13, <1>14, <1>15, <1>16, <1>17, <1>18, <1>19, <1>20, <1>21, <1>22, <1>23, <1>24,
       <1>25, <1>26, <1>27, <1>28 DEF Next

(***************************************************************************)
(* What a transaction resolved holds                                       *)
(***************************************************************************)
\* An account there is never changes hands, row or back to life.
Kept(i) ==
  Exact(i) => /\ account'[i].user = account[i].user /\ account'[i].row = account[i].row
              /\ account'[i].live => account[i].live

\* No step changes an account but to end it.
LEMMA IdentitiesKept ==
  ASSUME TypeOK, NEW i \in Identities, [Next]_vars
  PROVE Kept(i)
  <1>1. ASSUME NEW c \in Callbacks, NEW purpose \in {"link", "reauthenticate"}, NEW g \in Firms,
               Start(c, purpose, g)
    PROVE Kept(i)
    <2>1. UNCHANGED <<account>>
      BY <1>1 DEF Start, OfFirm, OfUser, worldVars
    <2> QED
      BY <2>1 DEF Kept
  <1>2. ASSUME NEW c \in Callbacks, NEW j \in Identities, Return(c, j) PROVE Kept(i)
    <2>1. UNCHANGED <<account>>
      BY <1>2 DEF Return, OfFirm, OfUser, worldVars
    <2> QED
      BY <2>1 DEF Kept
  <1>3. ASSUME NEW c \in Callbacks, NEW j \in Identities, NEW s \in Callbacks, observe(c, j, s)
    PROVE Kept(i)
    <2>1. UNCHANGED <<account>>
      BY <1>3 DEF observe, OfFirm, OfUser, worldVars
    <2> QED
      BY <2>1 DEF Kept
  <1>4. ASSUME NEW c \in Callbacks, NEW s \in Callbacks, ObserveAnothers(c, s) PROVE Kept(i)
    <2>1. UNCHANGED <<account>>
      BY <1>4 DEF ObserveAnothers, OfFirm, OfUser, worldVars
    <2> QED
      BY <2>1 DEF Kept
  <1>5. ASSUME NEW c \in Callbacks, beforeTransaction(c) PROVE Kept(i)
    <2>1. UNCHANGED <<account>>
      BY <1>5 DEF beforeTransaction, OfFirm, OfUser, worldVars
    <2> QED
      BY <2>1 DEF Kept
  <1>6. ASSUME NEW c \in Callbacks, resolve(c) PROVE Kept(i)
    <2>1. UNCHANGED <<account>>
      BY <1>6 DEF resolve, OfFirm, OfUser, worldVars
    <2> QED
      BY <2>1 DEF Kept
  <1>7. ASSUME NEW c \in Callbacks, Commit(c) PROVE Kept(i)
    <2>1. UNCHANGED account \/ \E u \in Users : Stands(c) /\ Admit(c, u)
      BY <1>7 DEF Commit, worldVars
    <2> QED
      BY <2>1, AccountsStay DEF Kept
  <1>8. ASSUME NEW c \in Callbacks, GiveUp(c) PROVE Kept(i)
    <2>1. UNCHANGED <<account>>
      BY <1>8 DEF GiveUp, OfFirm, OfUser, worldVars
    <2> QED
      BY <2>1 DEF Kept
  <1>9. ASSUME NEW c \in Callbacks, reserveConnection(c) PROVE Kept(i)
    <2>1. UNCHANGED <<account>>
      BY <1>9 DEF reserveConnection, OfFirm, OfUser, worldVars
    <2> QED
      BY <2>1 DEF Kept
  <1>10. ASSUME NEW c \in Callbacks, InsertRequest(c) PROVE Kept(i)
    <2>1. UNCHANGED <<account>>
      BY <1>10 DEF InsertRequest, OfFirm, OfUser, worldVars
    <2> QED
      BY <2>1 DEF Kept
  <1>11. ASSUME NEW c \in Callbacks, Expire(c) PROVE Kept(i)
    <2>1. UNCHANGED <<account>>
      BY <1>11 DEF Expire, OfFirm, OfUser, worldVars
    <2> QED
      BY <2>1 DEF Kept
  <1>12. ASSUME NEW c \in Callbacks, HoldAddress(c) PROVE Kept(i)
    <2>1. UNCHANGED <<account>>
      BY <1>12 DEF HoldAddress, OfFirm, OfUser, worldVars
    <2> QED
      BY <2>1 DEF Kept
  <1>13. ASSUME NEW c \in Callbacks, LockConnection(c) PROVE Kept(i)
    <2>1. UNCHANGED <<account>>
      BY <1>13 DEF LockConnection, OfFirm, OfUser, worldVars
    <2> QED
      BY <2>1 DEF Kept
  <1>14. ASSUME NEW c \in Callbacks, CheckConnection(c) PROVE Kept(i)
    <2>1. UNCHANGED <<account>>
      BY <1>14 DEF CheckConnection, OfFirm, OfUser, worldVars
    <2> QED
      BY <2>1 DEF Kept
  <1>15. ASSUME NEW c \in Callbacks, connectDirectoryAccount(c) PROVE Kept(i)
    <2>1. Exact(i) => account'[i] = account[i]
      BY <1>15 DEF connectDirectoryAccount, SameKeys, TypeOK
    <2> QED
      BY <2>1 DEF Kept
  <1>16. ASSUME NEW c \in Callbacks, SignOut(c) PROVE Kept(i)
    <2>1. UNCHANGED <<account>>
      BY <1>16 DEF SignOut, OfFirm, OfUser, worldVars
    <2> QED
      BY <2>1 DEF Kept
  <1>17. ASSUME NEW f \in Firms, SetFirm(f) PROVE Kept(i)
    <2>1. UNCHANGED <<account>>
      BY <1>17 DEF SetFirm, OfFirm, OfUser, worldVars
    <2> QED
      BY <2>1 DEF Kept
  <1>18. ASSUME NEW f \in Firms, SetDomain(f) PROVE Kept(i)
    <2>1. UNCHANGED <<account>>
      BY <1>18 DEF SetDomain, OfFirm, OfUser, worldVars
    <2> QED
      BY <2>1 DEF Kept
  <1>19. ASSUME NEW f \in Firms, putSsoProvider(f) PROVE Kept(i)
    <2>1. UNCHANGED <<account>>
      BY <1>19 DEF putSsoProvider, OfFirm, OfUser, worldVars
    <2> QED
      BY <2>1 DEF Kept
  <1>20. ASSUME NEW f \in Firms, deleteSsoProvider(f) PROVE Kept(i)
    <2>1. UNCHANGED <<account>>
      BY <1>20 DEF deleteSsoProvider, OfFirm, OfUser, worldVars
    <2> QED
      BY <2>1 DEF Kept
  <1>21. ASSUME NEW f \in Firms, NEW u \in Users, RemoveMember(f, u) PROVE Kept(i)
    <2>1. UNCHANGED <<account>>
      BY <1>21 DEF RemoveMember, OfFirm, OfUser, worldVars
    <2> QED
      BY <2>1 DEF Kept
  <1>22. ASSUME NEW f \in Firms, NEW u \in Users, ReinstateMember(f, u) PROVE Kept(i)
    <2>1. UNCHANGED <<account>>
      BY <1>22 DEF ReinstateMember, OfFirm, OfUser, worldVars
    <2> QED
      BY <2>1 DEF Kept
  <1>23. ASSUME NEW f \in Firms, NEW p \in People, NEW u \in Users, importMembers(f, p, u) PROVE Kept(i)
    <2>1. UNCHANGED <<account>>
      BY <1>23 DEF importMembers, OfFirm, OfUser, worldVars
    <2> QED
      BY <2>1 DEF Kept
  <1>24. ASSUME NEW u \in Users, disableUser(u) PROVE Kept(i)
    <2>1. UNCHANGED <<account>>
      BY <1>24 DEF disableUser, OfFirm, OfUser, worldVars
    <2> QED
      BY <2>1 DEF Kept
  <1>25. ASSUME NEW u \in Users, enableUser(u) PROVE Kept(i)
    <2>1. UNCHANGED <<account>>
      BY <1>25 DEF enableUser, OfFirm, OfUser, worldVars
    <2> QED
      BY <2>1 DEF Kept
  <1>26. ASSUME NEW u \in Users, retireUserEmail(u) PROVE Kept(i)
    <2>1. UNCHANGED <<account>>
      BY <1>26 DEF retireUserEmail, OfFirm, OfUser, worldVars
    <2> QED
      BY <2>1 DEF Kept
  <1>27. ASSUME NEW u \in Users, eraseUser(u) PROVE Kept(i)
    <2>1. account[i] \in Accounts
      BY DEF TypeOK
    <2>2. account'[i] = IF account[i].user = u THEN [account[i] EXCEPT !.live = FALSE] ELSE account[i]
      BY <1>27 DEF eraseUser
    <2> QED
      BY <2>1, <2>2 DEF Kept, Accounts
  <1>28. CASE UNCHANGED vars
    BY <1>28 DEF Kept, vars, worldVars
  <1> QED
    BY <1>1, <1>2, <1>3, <1>4, <1>5, <1>6, <1>7, <1>8, <1>9, <1>10, <1>11, <1>12,
       <1>13, <1>14, <1>15, <1>16, <1>17, <1>18, <1>19, <1>20, <1>21, <1>22, <1>23, <1>24,
       <1>25, <1>26, <1>27, <1>28 DEF Next

\* Who is removed from a firm is removed under its lock, or erased.
Removed(f, u) ==
  member'[f][u] = "revoked" => member[f][u] = "revoked" \/ FirmFree(f) \/ eraseUser(u)

\* Every removal is one of these two.
LEMMA MembersRemoved ==
  ASSUME TypeOK, NEW g \in Firms, NEW w \in Users, [Next]_vars
  PROVE Removed(g, w)
  <1>1. ASSUME NEW c \in Callbacks, NEW purpose \in {"link", "reauthenticate"}, NEW f \in Firms,
               Start(c, purpose, f)
    PROVE Removed(g, w)
    <2>1. UNCHANGED <<member>>
      BY <1>1 DEF Start, OfFirm, OfUser, worldVars
    <2> QED
      BY <2>1 DEF Removed
  <1>2. ASSUME NEW c \in Callbacks, NEW i \in Identities, Return(c, i) PROVE Removed(g, w)
    <2>1. UNCHANGED <<member>>
      BY <1>2 DEF Return, OfFirm, OfUser, worldVars
    <2> QED
      BY <2>1 DEF Removed
  <1>3. ASSUME NEW c \in Callbacks, NEW i \in Identities, NEW s \in Callbacks, observe(c, i, s)
    PROVE Removed(g, w)
    <2>1. UNCHANGED <<member>>
      BY <1>3 DEF observe, OfFirm, OfUser, worldVars
    <2> QED
      BY <2>1 DEF Removed
  <1>4. ASSUME NEW c \in Callbacks, NEW s \in Callbacks, ObserveAnothers(c, s) PROVE Removed(g, w)
    <2>1. UNCHANGED <<member>>
      BY <1>4 DEF ObserveAnothers, OfFirm, OfUser, worldVars
    <2> QED
      BY <2>1 DEF Removed
  <1>5. ASSUME NEW c \in Callbacks, beforeTransaction(c) PROVE Removed(g, w)
    <2>1. UNCHANGED <<member>>
      BY <1>5 DEF beforeTransaction, OfFirm, OfUser, worldVars
    <2> QED
      BY <2>1 DEF Removed
  <1>6. ASSUME NEW c \in Callbacks, resolve(c) PROVE Removed(g, w)
    <2>1. UNCHANGED <<member>>
      BY <1>6 DEF resolve, OfFirm, OfUser, worldVars
    <2> QED
      BY <2>1 DEF Removed
  <1>7. ASSUME NEW c \in Callbacks, Commit(c) PROVE Removed(g, w)
    <2>1. CASE UNCHANGED member
      BY <2>1 DEF Removed
    <2>2. ASSUME NEW u \in Users, Admit(c, u) PROVE Removed(g, w)
      <3>1. Home[call[c].identity] \in Firms
        BY DirectoryAssumption DEF TypeOK, Calls
      <3> QED
        BY <2>2, <3>1 DEF Admit, provisionMembership, Removed, TypeOK
    <2> QED
      BY <1>7, <2>1, <2>2 DEF Commit, worldVars
  <1>8. ASSUME NEW c \in Callbacks, GiveUp(c) PROVE Removed(g, w)
    <2>1. UNCHANGED <<member>>
      BY <1>8 DEF GiveUp, OfFirm, OfUser, worldVars
    <2> QED
      BY <2>1 DEF Removed
  <1>9. ASSUME NEW c \in Callbacks, reserveConnection(c) PROVE Removed(g, w)
    <2>1. UNCHANGED <<member>>
      BY <1>9 DEF reserveConnection, OfFirm, OfUser, worldVars
    <2> QED
      BY <2>1 DEF Removed
  <1>10. ASSUME NEW c \in Callbacks, InsertRequest(c) PROVE Removed(g, w)
    <2>1. UNCHANGED <<member>>
      BY <1>10 DEF InsertRequest, OfFirm, OfUser, worldVars
    <2> QED
      BY <2>1 DEF Removed
  <1>11. ASSUME NEW c \in Callbacks, Expire(c) PROVE Removed(g, w)
    <2>1. UNCHANGED <<member>>
      BY <1>11 DEF Expire, OfFirm, OfUser, worldVars
    <2> QED
      BY <2>1 DEF Removed
  <1>12. ASSUME NEW c \in Callbacks, HoldAddress(c) PROVE Removed(g, w)
    <2>1. UNCHANGED <<member>>
      BY <1>12 DEF HoldAddress, OfFirm, OfUser, worldVars
    <2> QED
      BY <2>1 DEF Removed
  <1>13. ASSUME NEW c \in Callbacks, LockConnection(c) PROVE Removed(g, w)
    <2>1. UNCHANGED <<member>>
      BY <1>13 DEF LockConnection, OfFirm, OfUser, worldVars
    <2> QED
      BY <2>1 DEF Removed
  <1>14. ASSUME NEW c \in Callbacks, CheckConnection(c) PROVE Removed(g, w)
    <2>1. UNCHANGED <<member>>
      BY <1>14 DEF CheckConnection, OfFirm, OfUser, worldVars
    <2> QED
      BY <2>1 DEF Removed
  <1>15. ASSUME NEW c \in Callbacks, connectDirectoryAccount(c) PROVE Removed(g, w)
    <2>1. UNCHANGED <<member>>
      BY <1>15 DEF connectDirectoryAccount, OfFirm, OfUser, worldVars
    <2> QED
      BY <2>1 DEF Removed
  <1>16. ASSUME NEW c \in Callbacks, SignOut(c) PROVE Removed(g, w)
    <2>1. UNCHANGED <<member>>
      BY <1>16 DEF SignOut, OfFirm, OfUser, worldVars
    <2> QED
      BY <2>1 DEF Removed
  <1>17. ASSUME NEW f \in Firms, SetFirm(f) PROVE Removed(g, w)
    <2>1. UNCHANGED <<member>>
      BY <1>17 DEF SetFirm, OfFirm, OfUser, worldVars
    <2> QED
      BY <2>1 DEF Removed
  <1>18. ASSUME NEW f \in Firms, SetDomain(f) PROVE Removed(g, w)
    <2>1. UNCHANGED <<member>>
      BY <1>18 DEF SetDomain, OfFirm, OfUser, worldVars
    <2> QED
      BY <2>1 DEF Removed
  <1>19. ASSUME NEW f \in Firms, putSsoProvider(f) PROVE Removed(g, w)
    <2>1. UNCHANGED <<member>>
      BY <1>19 DEF putSsoProvider, OfFirm, OfUser, worldVars
    <2> QED
      BY <2>1 DEF Removed
  <1>20. ASSUME NEW f \in Firms, deleteSsoProvider(f) PROVE Removed(g, w)
    <2>1. UNCHANGED <<member>>
      BY <1>20 DEF deleteSsoProvider, OfFirm, OfUser, worldVars
    <2> QED
      BY <2>1 DEF Removed
  <1>21. ASSUME NEW f \in Firms, NEW u \in Users, RemoveMember(f, u) PROVE Removed(g, w)
    BY <1>21 DEF RemoveMember, OfFirm, Removed, TypeOK
  <1>22. ASSUME NEW f \in Firms, NEW u \in Users, ReinstateMember(f, u) PROVE Removed(g, w)
    BY <1>22 DEF ReinstateMember, Removed, TypeOK
  <1>23. ASSUME NEW f \in Firms, NEW p \in People, NEW u \in Users, importMembers(f, p, u)
    PROVE Removed(g, w)
    BY <1>23 DEF importMembers, Removed, TypeOK
  <1>24. ASSUME NEW u \in Users, disableUser(u) PROVE Removed(g, w)
    <2>1. UNCHANGED <<member>>
      BY <1>24 DEF disableUser, OfFirm, OfUser, worldVars
    <2> QED
      BY <2>1 DEF Removed
  <1>25. ASSUME NEW u \in Users, enableUser(u) PROVE Removed(g, w)
    <2>1. UNCHANGED <<member>>
      BY <1>25 DEF enableUser, OfFirm, OfUser, worldVars
    <2> QED
      BY <2>1 DEF Removed
  <1>26. ASSUME NEW u \in Users, retireUserEmail(u) PROVE Removed(g, w)
    <2>1. UNCHANGED <<member>>
      BY <1>26 DEF retireUserEmail, OfFirm, OfUser, worldVars
    <2> QED
      BY <2>1 DEF Removed
  <1>27. ASSUME NEW u \in Users, eraseUser(u) PROVE Removed(g, w)
    <2>1. w # u => member'[g][w] = member[g][w]
      BY <1>27 DEF eraseUser, TypeOK
    <2> QED
      BY <1>27, <2>1 DEF Removed
  <1>28. CASE UNCHANGED vars
    BY <1>28 DEF Removed, vars, worldVars
  <1> QED
    BY <1>1, <1>2, <1>3, <1>4, <1>5, <1>6, <1>7, <1>8, <1>9, <1>10, <1>11, <1>12,
       <1>13, <1>14, <1>15, <1>16, <1>17, <1>18, <1>19, <1>20, <1>21, <1>22, <1>23, <1>24,
       <1>25, <1>26, <1>27, <1>28 DEF Next

\* Every step keeps ResolvedHolds: the firm is locked, and the account it found only ends.
LEMMA ResolvedStep ==
  ASSUME TypeOK, TypeOK', CallsKeepTheirPlace, FlowsAreConsumedOnce, LocksHold, ResolvedHolds,
         AccountsArePeoples, [Next]_vars
  PROVE ResolvedHolds'
  <1> DEFINE Resolved(c) ==
        LET a == account[call[c].identity] IN
        /\ firm[FirmOf(c)] /\ domain[FirmOf(c)] /\ Verified(c)
        /\ call[c].binds \in {"known", "link", "create"}
        /\ call[c].binds = "known" =>
             /\ ~Linking(c) /\ a.user = call[c].user /\ a.user \in Users
             /\ a.live => ~membershipRevoked(FirmOf(c), a.user)
        /\ call[c].binds = "link" => Linking(c) /\ call[c].user = session[call[c].flow].user
        /\ call[c].binds = "create" => ~HasFlow(c)
  <1> SUFFICES ASSUME NEW d \in Callbacks, At(d, {"resolved"})' PROVE Resolved(d)'
    BY DEF ResolvedHolds
  <1>1. /\ call'[d].identity = call[d].identity /\ call'[d].flow = call[d].flow
        /\ InTransaction(d)
        /\ resolve(d) \/ (At(d, {"resolved"}) /\ call'[d] = call[d])
    BY TransactionsBegin DEF Begins, InTransaction, At, resolve, beforeTransaction
  <1>2. call[d].flow \in Callbacks \cup {Nobody} /\ call[d].identity \in Identities
    BY DEF TypeOK, Calls
  <1>3. PICK i \in Identities : i = call[d].identity
    BY <1>2
  <1>4. FirmOf(d) = Home[i] /\ FirmOf(d)' = Home[i] /\ Home[i] \in Firms /\ Home[i] \in FirmsHeld(d)
    BY <1>1, <1>3, DirectoryAssumption DEF FirmOf, FirmsHeld
  <1>5. firm'[Home[i]] = firm[Home[i]] /\ domain'[Home[i]] = domain[Home[i]]
    BY <1>1, <1>4, FirmsStand DEF FirmsKept
  <1>6. HasFlow(d) <=> HasFlow(d)'
    BY <1>1 DEF HasFlow
  <1>7. ASSUME HasFlow(d)
        PROVE /\ flow'[call'[d].flow] = flow[call[d].flow] /\ session'[call'[d].flow] = session[call[d].flow]
              /\ call'[call'[d].flow] = call[call[d].flow]
    <2>1. PICK s \in Callbacks : s = call[d].flow
      BY <1>2, <1>7 DEF HasFlow
    <2>2. Untouched(s)
      BY <1>1, <1>7, <2>1, FlowsStand
    <2> QED
      BY <1>1, <2>1, <2>2 DEF Untouched
  <1>8. (Verified(d) <=> Verified(d)') /\ (Linking(d) <=> Linking(d)')
    BY <1>1, <1>4, <1>6, <1>7 DEF Verified, Linking, Flow, HasFlow
  <1>9. CASE At(d, {"resolved"}) /\ call'[d] = call[d]
    <2>1. Resolved(d)
      BY <1>9 DEF ResolvedHolds
    <2>2. ASSUME call[d].binds = "known"
          PROVE /\ account'[i].user = account[i].user
                /\ account'[i].live => ~membershipRevoked(Home[i], account[i].user)'
      <3>1. account[i].user \in Users /\ Exact(i)
        <4>1. account[i].user \in Users
          BY <1>3, <2>1, <2>2
        <4> QED
          BY <4>1, DirectoryAssumption DEF Exact, NoAccount
      <3>2. Kept(i)
        BY IdentitiesKept
      <3>3. Removed(Home[i], account[i].user) /\ ~FirmFree(Home[i])
        BY <1>1, <1>4, <3>1, MembersRemoved DEF FirmFree
      <3>4. account[i].live => member[Home[i]][account[i].user] # "revoked"
        BY <1>3, <1>4, <2>1, <2>2 DEF membershipRevoked
      <3>5. eraseUser(account[i].user) => ~account'[i].live
        BY DEF eraseUser, TypeOK, Accounts
      <3> QED
        BY <3>1, <3>2, <3>3, <3>4, <3>5 DEF Kept, Removed, membershipRevoked
    <2> QED
      BY <1>3, <1>4, <1>5, <1>6, <1>7, <1>8, <1>9, <2>1, <2>2 DEF Linking
  <1>10. CASE resolve(d)
    <2> DEFINE found == IF Verified(d) THEN resolveFederatedUser(d) ELSE "refused"
               owner == CASE found = "known" -> account[call[d].identity].user
                          [] found = "link" -> session[call[d].flow].user
                          [] OTHER -> Nobody
               place == IF found = "conflict" THEN "noted" ELSE "resolved"
    <2>1. UNCHANGED <<worldVars, session, flow>>
      BY <1>10 DEF resolve
    <2>2. found # "refused" /\ call' = [call EXCEPT ![d] = [call[d] EXCEPT !.at = place, !.binds = found,
                                   !.user = owner, !.revision = directory[FirmOf(d)].revision]]
      <3>1. ~Refused(d)
        <4>1. Ended(d, "refused").at = "refused"
          BY DEF Ended, Fresh
        <4> QED
          BY <4>1 DEF Refused, TypeOK, At
      <3> QED
        BY <1>10, <3>1 DEF resolve
    <2>3. Verified(d)
      BY <2>2
    <2>4. found = resolveFederatedUser(d)
      BY <2>3
    <2> HIDE DEF found
    <2>5. call'[d].at = place /\ call'[d].binds = found /\ call'[d].user = owner
      BY <2>2 DEF TypeOK, Calls
    <2>6. found # "conflict"
      BY <2>5 DEF At
    <2>7. /\ firm[Home[i]] /\ domain[Home[i]] /\ found \in {"known", "link", "create"}
          /\ found = "known" => /\ Exact(i) /\ ~Linking(d)
                                /\ account[i].live /\ ~membershipRevoked(Home[i], account[i].user)
          /\ found = "link" => Linking(d)
          /\ found = "create" => ~Exact(i) /\ ~Linking(d)
      <3> DEFINE known == /\ account[i].live /\ user[account[i].user] = "active"
                          /\ ~membershipRevoked(Home[i], account[i].user)
                          /\ account[i].row = directory[Home[i]].row
      <3>1. found = IF ~firm[Home[i]] \/ ~domain[Home[i]] THEN "refused"
                    ELSE IF Exact(i) THEN IF known /\ ~Linking(d) THEN "known" ELSE "refused"
                    ELSE IF SameKeys(i) # {} THEN "refused"
                    ELSE IF Linking(d) THEN "link"
                    ELSE IF holder[Person[i]] = Nobody THEN "create" ELSE "conflict"
        BY <1>3, <2>4 DEF resolveFederatedUser
      <3>2. found # "refused" /\ found # "conflict"
        BY <2>2, <2>6
      <3>3. known => account[i].live /\ ~membershipRevoked(Home[i], account[i].user)
        OBVIOUS
      <3> HIDE DEF known
      <3> QED
        BY ONLY <3>1, <3>2, <3>3
    <2>8. found = "create" => ~HasFlow(d)
      <3>1. SUFFICES ASSUME found = "create", HasFlow(d) PROVE FALSE
        OBVIOUS
      <3>2. PICK s \in Callbacks : s = call[d].flow
        BY <1>2, <3>1 DEF HasFlow
      <3>3. i = call[s].identity
        BY <1>3, <2>3, <2>7, <3>1, <3>2 DEF Verified
      <3>4. At(s, {"in"}) /\ account[i].user \in Users
        BY <3>1, <3>2, <3>3 DEF FlowsAreConsumedOnce, CallsKeepTheirPlace
      <3> QED
        BY <2>7, <3>1, <3>4, DirectoryAssumption DEF Exact, NoAccount
    <2>9. found = "known" => account[i].user \in Users
      BY <2>7 DEF AccountsArePeoples
    <2>10. found = "known" => owner = account[i].user
      BY <1>3
    <2>11. found = "link" => owner = session[call[d].flow].user
      OBVIOUS
    <2> HIDE DEF owner, place
    <2>12. account' = account /\ member' = member /\ call'[d].identity = i
      BY <1>1, <1>3, <2>1 DEF worldVars
    <2>13. found = "link" => HasFlow(d)
      BY <2>7 DEF Linking
    <2> QED
      BY <1>1, <1>4, <1>5, <1>6, <1>7, <1>8, <2>3, <2>5, <2>7, <2>8, <2>9, <2>10, <2>11, <2>12, <2>13
      DEF membershipRevoked
  <1> QED
    BY <1>1, <1>9, <1>10

(***************************************************************************)
(* What a connection checked holds                                         *)
(***************************************************************************)
\* A connection that has been checked was checked at this step, or is as it was.
Checks(d) ==
  request'[d].at = "checked" =>
    /\ call'[d].identity = call[d].identity
    /\ \/ CheckConnection(d)
       \/ /\ request[d].at = "checked" /\ request'[d].row = request[d].row
          /\ request'[d].revision = request[d].revision /\ request'[d].seen = request[d].seen

\* Every step checks a connection or leaves what it checked.
LEMMA ConnectionsCheck ==
  ASSUME TypeOK, TypeOK', CallsKeepTheirPlace, NEW d \in Callbacks, [Next]_vars
  PROVE Checks(d)
  <1>0. \A e \in Callbacks : KeepsItsPlace(e)
    BY DEF CallsKeepTheirPlace, KeepsItsPlace
  <1>1. ASSUME NEW c \in Callbacks, NEW purpose \in {"link", "reauthenticate"}, NEW g \in Firms,
               Start(c, purpose, g)
    PROVE Checks(d)
    <2>1. UNCHANGED <<call, request>>
      BY <1>1 DEF Start, OfFirm, OfUser, worldVars
    <2> QED
      BY <2>1 DEF Checks
  <1>2. ASSUME NEW c \in Callbacks, NEW i \in Identities, Return(c, i) PROVE Checks(d)
    <2>1. /\ At(c, {"new"}) /\ UNCHANGED request
          /\ \A e \in Callbacks \ {c} : call'[e] = call[e]
      BY <1>2 DEF Return, TypeOK
    <2>2. request[c].at # "checked"
      BY <1>0, <2>1 DEF KeepsItsPlace, At, NoRequest
    <2> QED
      BY <2>1, <2>2 DEF Checks
  <1>3. ASSUME NEW c \in Callbacks, NEW i \in Identities, NEW s \in Callbacks, observe(c, i, s)
    PROVE Checks(d)
    <2>1. /\ At(c, {"new"}) /\ UNCHANGED request
          /\ \A e \in Callbacks \ {c} : call'[e] = call[e]
      BY <1>3 DEF observe, TypeOK
    <2>2. request[c].at # "checked"
      BY <1>0, <2>1 DEF KeepsItsPlace, At, NoRequest
    <2> QED
      BY <2>1, <2>2 DEF Checks
  <1>4. ASSUME NEW c \in Callbacks, NEW s \in Callbacks, ObserveAnothers(c, s) PROVE Checks(d)
    <2>1. /\ At(c, {"new"}) /\ UNCHANGED request
          /\ \A e \in Callbacks \ {c} : call'[e] = call[e]
      BY <1>4 DEF ObserveAnothers, TypeOK
    <2>2. request[c].at # "checked"
      BY <1>0, <2>1 DEF KeepsItsPlace, At, NoRequest
    <2> QED
      BY <2>1, <2>2 DEF Checks
  <1>5. ASSUME NEW c \in Callbacks, beforeTransaction(c) PROVE Checks(d)
    <2>1. Goes(c) \/ UNCHANGED call
      BY <1>5, CallsGo
    <2>2. UNCHANGED request
      BY <1>5 DEF beforeTransaction
    <2> QED
      BY <2>1, <2>2 DEF Goes, Checks, TypeOK
  <1>6. ASSUME NEW c \in Callbacks, resolve(c) PROVE Checks(d)
    <2>1. Goes(c) \/ UNCHANGED call
      BY <1>6, CallsGo
    <2>2. UNCHANGED request
      BY <1>6 DEF resolve
    <2> QED
      BY <2>1, <2>2 DEF Goes, Checks, TypeOK
  <1>7. ASSUME NEW c \in Callbacks, Commit(c) PROVE Checks(d)
    <2>1. Goes(c) \/ UNCHANGED call
      BY <1>7, CallsGo
    <2>2. UNCHANGED request
      BY <1>7 DEF Commit
    <2> QED
      BY <2>1, <2>2 DEF Goes, Checks, TypeOK
  <1>8. ASSUME NEW c \in Callbacks, GiveUp(c) PROVE Checks(d)
    <2>1. Goes(c) \/ UNCHANGED call
      BY <1>8, CallsGo
    <2>2. UNCHANGED request
      BY <1>8 DEF GiveUp
    <2> QED
      BY <2>1, <2>2 DEF Goes, Checks, TypeOK
  <1>9. ASSUME NEW c \in Callbacks, reserveConnection(c) PROVE Checks(d)
    <2>1. Goes(c) \/ UNCHANGED call
      BY <1>9, CallsGo
    <2>2. \A e \in Callbacks : call'[e].identity = call[e].identity
      BY <2>1 DEF Goes, TypeOK
    <2>3. \A e \in Callbacks \ {c} : request'[e] = request[e]
      BY <1>9 DEF reserveConnection, TypeOK
    <2>4. request'[c].at # "checked"
      <3>1. [request[c] EXCEPT !.at = "asking"].at = "asking"
        BY DEF TypeOK, Requests
      <3> QED
        BY <1>9, <3>1 DEF reserveConnection, TypeOK
    <2> QED
      BY <2>2, <2>3, <2>4 DEF Checks
  <1>10. ASSUME NEW c \in Callbacks, InsertRequest(c) PROVE Checks(d)
    <2>1. Goes(c) \/ UNCHANGED call
      BY <1>10, CallsGo
    <2>2. \A e \in Callbacks : call'[e].identity = call[e].identity
      BY <2>1 DEF Goes, TypeOK
    <2>3. \A e \in Callbacks \ {c} : request'[e] = request[e]
      BY <1>10 DEF InsertRequest, TypeOK
    <2>4. request'[c].at # "checked"
      <3>1. NoRequest.at = "idle"
            /\ [NoRequest EXCEPT !.status = "sent", !.row = call[c].row, !.revision = call[c].revision].at = "idle"
        BY DEF NoRequest
      <3> QED
        BY <1>10, <3>1 DEF InsertRequest, TypeOK
    <2> QED
      BY <2>2, <2>3, <2>4 DEF Checks
  <1>11. ASSUME NEW c \in Callbacks, Expire(c) PROVE Checks(d)
    <2>1. UNCHANGED call /\ \A e \in Callbacks \ {c} : request'[e] = request[e]
      BY <1>11 DEF Expire, TypeOK
    <2>2. request'[c].at # "checked"
      BY <1>11 DEF Expire, TypeOK, Requests, NoRequest, Connecting
    <2> QED
      BY <2>1, <2>2 DEF Checks
  <1>12. ASSUME NEW c \in Callbacks, HoldAddress(c) PROVE Checks(d)
    <2>1. UNCHANGED call /\ \A e \in Callbacks \ {c} : request'[e] = request[e]
      BY <1>12 DEF HoldAddress, TypeOK
    <2>2. request'[c].at # "checked"
      BY <1>12 DEF HoldAddress, TypeOK, Requests, NoRequest, Connecting
    <2> QED
      BY <2>1, <2>2 DEF Checks
  <1>13. ASSUME NEW c \in Callbacks, LockConnection(c) PROVE Checks(d)
    <2>1. UNCHANGED call /\ \A e \in Callbacks \ {c} : request'[e] = request[e]
      BY <1>13 DEF LockConnection, TypeOK
    <2>2. request'[c].at # "checked"
      BY <1>13 DEF LockConnection, TypeOK, Requests, NoRequest, Connecting
    <2> QED
      BY <2>1, <2>2 DEF Checks
  <1>14. ASSUME NEW c \in Callbacks, CheckConnection(c) PROVE Checks(d)
    <2>1. UNCHANGED call /\ \A e \in Callbacks \ {c} : request'[e] = request[e]
      BY <1>14 DEF CheckConnection, TypeOK
    <2> QED
      BY <1>14, <2>1 DEF Checks
  <1>15. ASSUME NEW c \in Callbacks, connectDirectoryAccount(c) PROVE Checks(d)
    <2>1. UNCHANGED call /\ \A e \in Callbacks \ {c} : request'[e] = request[e]
      BY <1>15 DEF connectDirectoryAccount, TypeOK
    <2>2. request'[c].at # "checked"
      BY <1>15 DEF connectDirectoryAccount, TypeOK, Requests, NoRequest, Connecting
    <2> QED
      BY <2>1, <2>2 DEF Checks
  <1>16. ASSUME NEW c \in Callbacks, SignOut(c) PROVE Checks(d)
    <2>1. UNCHANGED <<call, request>>
      BY <1>16 DEF SignOut, OfFirm, OfUser, worldVars
    <2> QED
      BY <2>1 DEF Checks
  <1>17. ASSUME NEW f \in Firms, SetFirm(f) PROVE Checks(d)
    <2>1. UNCHANGED <<call, request>>
      BY <1>17 DEF SetFirm, OfFirm, OfUser, worldVars
    <2> QED
      BY <2>1 DEF Checks
  <1>18. ASSUME NEW f \in Firms, SetDomain(f) PROVE Checks(d)
    <2>1. UNCHANGED <<call, request>>
      BY <1>18 DEF SetDomain, OfFirm, OfUser, worldVars
    <2> QED
      BY <2>1 DEF Checks
  <1>19. ASSUME NEW f \in Firms, putSsoProvider(f) PROVE Checks(d)
    <2>1. UNCHANGED <<call, request>>
      BY <1>19 DEF putSsoProvider, OfFirm, OfUser, worldVars
    <2> QED
      BY <2>1 DEF Checks
  <1>20. ASSUME NEW f \in Firms, deleteSsoProvider(f) PROVE Checks(d)
    <2>1. UNCHANGED <<call, request>>
      BY <1>20 DEF deleteSsoProvider, OfFirm, OfUser, worldVars
    <2> QED
      BY <2>1 DEF Checks
  <1>21. ASSUME NEW f \in Firms, NEW u \in Users, RemoveMember(f, u) PROVE Checks(d)
    <2>1. UNCHANGED <<call, request>>
      BY <1>21 DEF RemoveMember, OfFirm, OfUser, worldVars
    <2> QED
      BY <2>1 DEF Checks
  <1>22. ASSUME NEW f \in Firms, NEW u \in Users, ReinstateMember(f, u) PROVE Checks(d)
    <2>1. UNCHANGED <<call, request>>
      BY <1>22 DEF ReinstateMember, OfFirm, OfUser, worldVars
    <2> QED
      BY <2>1 DEF Checks
  <1>23. ASSUME NEW f \in Firms, NEW p \in People, NEW u \in Users, importMembers(f, p,
                u) PROVE Checks(d)
    <2>1. UNCHANGED <<call, request>>
      BY <1>23 DEF importMembers, OfFirm, OfUser, worldVars
    <2> QED
      BY <2>1 DEF Checks
  <1>24. ASSUME NEW u \in Users, disableUser(u) PROVE Checks(d)
    <2>1. UNCHANGED <<call, request>>
      BY <1>24 DEF disableUser, OfFirm, OfUser, worldVars
    <2> QED
      BY <2>1 DEF Checks
  <1>25. ASSUME NEW u \in Users, enableUser(u) PROVE Checks(d)
    <2>1. UNCHANGED <<call, request>>
      BY <1>25 DEF enableUser, OfFirm, OfUser, worldVars
    <2> QED
      BY <2>1 DEF Checks
  <1>26. ASSUME NEW u \in Users, retireUserEmail(u) PROVE Checks(d)
    <2>1. UNCHANGED call
      BY <1>26 DEF retireUserEmail, OfUser
    <2>2. request'[d] \in {request[d], NoRequest, [request[d] EXCEPT !.status = "none"]}
      BY <1>26 DEF retireUserEmail, ReleaseAddress
    <2> QED
      BY <2>1, <2>2 DEF Checks, TypeOK, Requests, NoRequest
  <1>27. ASSUME NEW u \in Users, eraseUser(u) PROVE Checks(d)
    <2>1. UNCHANGED call
      BY <1>27 DEF eraseUser, OfUser
    <2>2. request'[d] \in {request[d], NoRequest, [request[d] EXCEPT !.status = "none"]}
      BY <1>27 DEF eraseUser, ReleaseAddress
    <2> QED
      BY <2>1, <2>2 DEF Checks, TypeOK, Requests, NoRequest
  <1>28. CASE UNCHANGED vars
    BY <1>28 DEF Checks, vars, worldVars
  <1> QED
    BY <1>1, <1>2, <1>3, <1>4, <1>5, <1>6, <1>7, <1>8, <1>9, <1>10, <1>11, <1>12,
       <1>13, <1>14, <1>15, <1>16, <1>17, <1>18, <1>19, <1>20, <1>21, <1>22, <1>23, <1>24,
       <1>25, <1>26, <1>27, <1>28 DEF Next

\* What a connection checked of its firm and of the person it shares is as it was.
CheckStands(d) ==
  LET f == FirmOf(d)
      u == request[d].seen
  IN /\ directory'[f] = directory[f] /\ firm'[f] = firm[f] /\ domain'[f] = domain[f]
     /\ holder'[AddressOf(d)] = u /\ user'[u] = "active" /\ member'[f][u] = "effective"
     /\ \A i \in Identities : account'[i].user # u

\* No step changes what a connection under way has checked: the person is shared, the firm is
\* locked, the address is of one request, and no transaction binds that person meanwhile.
LEMMA ChecksStand ==
  ASSUME TypeOK, TypeOK', CallsKeepTheirPlace, FlowsAreConsumedOnce, ResolvedHolds, CheckedHolds,
         PeopleAreOnes, NEW d \in Callbacks, request[d].at = "checked", request'[d].at = "checked", [Next]_vars
  PROVE CheckStands(d)
  <1>b. OneRequestAnAddress /\ OneAddressAPerson
    BY DEF PeopleAreOnes
  <1>a. PICK w : w = request[d].seen
    OBVIOUS
  <1>0. /\ w = request[d].seen /\ w \in Users /\ FirmOf(d) \in Firms /\ AddressOf(d) \in People
        /\ holder[AddressOf(d)] = w /\ user[w] = "active" /\ member[FirmOf(d)][w] = "effective"
        /\ \A i \in Identities : account[i].user # w
        /\ request[d].at = "checked" /\ Connecting(d)
        /\ OneRequestAnAddress /\ OneAddressAPerson
    <2>1. FirmOf(d) \in Firms /\ AddressOf(d) \in People
      BY DirectoryAssumption DEF FirmOf, AddressOf, TypeOK, Calls
    <2>2. w \in Users /\ holder[AddressOf(d)] = w /\ holderAwaitingDirectory(FirmOf(d), AddressOf(d))
      BY <1>a DEF CheckedHolds
    <2> QED
      BY <1>b, <1>a, <2>1, <2>2 DEF holderAwaitingDirectory, Connecting
  <1>1. ASSUME NEW c \in Callbacks, NEW purpose \in {"link", "reauthenticate"}, NEW g \in Firms,
               Start(c, purpose, g)
    PROVE CheckStands(d)
    <2>1. UNCHANGED worldVars
      BY <1>1 DEF Start
    <2> QED
      BY <1>0, <2>1 DEF CheckStands, worldVars
  <1>2. ASSUME NEW c \in Callbacks, NEW i \in Identities, Return(c, i) PROVE CheckStands(d)
    <2>1. UNCHANGED worldVars
      BY <1>2 DEF Return
    <2> QED
      BY <1>0, <2>1 DEF CheckStands, worldVars
  <1>3. ASSUME NEW c \in Callbacks, NEW i \in Identities, NEW s \in Callbacks, observe(c, i, s)
    PROVE CheckStands(d)
    <2>1. UNCHANGED worldVars
      BY <1>3 DEF observe
    <2> QED
      BY <1>0, <2>1 DEF CheckStands, worldVars
  <1>4. ASSUME NEW c \in Callbacks, NEW s \in Callbacks, ObserveAnothers(c, s) PROVE CheckStands(d)
    <2>1. UNCHANGED worldVars
      BY <1>4 DEF ObserveAnothers
    <2> QED
      BY <1>0, <2>1 DEF CheckStands, worldVars
  <1>5. ASSUME NEW c \in Callbacks, beforeTransaction(c) PROVE CheckStands(d)
    <2>1. UNCHANGED worldVars
      BY <1>5 DEF beforeTransaction
    <2> QED
      BY <1>0, <2>1 DEF CheckStands, worldVars
  <1>6. ASSUME NEW c \in Callbacks, resolve(c) PROVE CheckStands(d)
    <2>1. UNCHANGED worldVars
      BY <1>6 DEF resolve
    <2> QED
      BY <1>0, <2>1 DEF CheckStands, worldVars
  <1>7. ASSUME NEW c \in Callbacks, Commit(c) PROVE CheckStands(d)
    <2>1. CASE UNCHANGED worldVars
      BY <1>0, <2>1 DEF CheckStands, worldVars
    <2>2. ASSUME Stands(c), NEW u \in Users, Admit(c, u) PROVE CheckStands(d)
      <3>1. PICK i \in Identities : i = call[c].identity
        BY DEF TypeOK, Calls
      <3>2. Home[i] \in Firms /\ Person[i] \in People /\ At(c, {"resolved"})
        BY <1>7, DirectoryAssumption DEF Commit
      <3>3. UNCHANGED <<directory, firm, domain>>
        BY <2>2 DEF Admit
      <3>4. CASE call[c].binds = "create"
        <4>1. u # w /\ user' = [user EXCEPT ![u] = "active"] /\ holder' = [holder EXCEPT ![Person[i]] = u]
              /\ holder[Person[i]] = Nobody
          BY <1>0, <2>2, <3>1, <3>4 DEF Admit, Stands
        <4>2. holder'[AddressOf(d)] = w /\ user'[w] = "active"
          BY <1>0, <4>1, DirectoryAssumption DEF TypeOK
        <4>3. \A j \in Identities : account'[j] = account[j] \/ account'[j].user = u
          BY <2>2, <3>1 DEF Admit, TypeOK
        <4>4. member'[FirmOf(d)][w] = "effective"
          BY <1>0, <2>2, <3>1, <3>2 DEF Admit, provisionMembership, TypeOK
        <4> QED
          BY <1>0, <3>3, <4>1, <4>2, <4>3, <4>4 DEF CheckStands
      <3>5. CASE call[c].binds # "create"
        <4>1. UNCHANGED <<user, holder>> /\ u = call[c].user
          BY <2>2, <3>5 DEF Admit
        <4>2. call[c].binds \in {"known", "link"}
          BY <3>2, <3>5 DEF ResolvedHolds
        <4>3. call[c].binds = "known" => account' = account
          BY <2>2 DEF Admit
        <4>4. ASSUME call[c].binds = "link" PROVE u # w
          <5>1. PICK s \in Callbacks : s = call[c].flow /\ HasFlow(c)
            BY <3>2, <4>4 DEF ResolvedHolds, Linking, HasFlow, TypeOK, Calls
          <5>2. u = session[s].user
            BY <3>2, <4>1, <4>4, <5>1 DEF ResolvedHolds
          <5>3. account[call[s].identity].user = session[s].user /\ call[s].identity \in Identities
            BY <5>1 DEF FlowsAreConsumedOnce, CallsKeepTheirPlace, TypeOK, Calls
          <5> QED
            BY <1>0, <5>2, <5>3
        <4>5. \A j \in Identities : account'[j] = account[j] \/ account'[j].user = u
          BY <2>2, <3>1 DEF Admit, TypeOK
        <4>6. member'[FirmOf(d)][w] = "effective"
          BY <1>0, <2>2, <3>1, <3>2 DEF Admit, provisionMembership, TypeOK
        <4> QED
          BY <1>0, <3>3, <4>1, <4>2, <4>3, <4>4, <4>5, <4>6 DEF CheckStands
      <3> QED
        BY <3>4, <3>5
    <2> QED
      BY <1>7, <2>1, <2>2 DEF Commit
  <1>8. ASSUME NEW c \in Callbacks, GiveUp(c) PROVE CheckStands(d)
    <2>1. UNCHANGED worldVars
      BY <1>8 DEF GiveUp
    <2> QED
      BY <1>0, <2>1 DEF CheckStands, worldVars
  <1>9. ASSUME NEW c \in Callbacks, reserveConnection(c) PROVE CheckStands(d)
    <2>1. UNCHANGED worldVars
      BY <1>9 DEF reserveConnection
    <2> QED
      BY <1>0, <2>1 DEF CheckStands, worldVars
  <1>10. ASSUME NEW c \in Callbacks, InsertRequest(c) PROVE CheckStands(d)
    <2>1. UNCHANGED worldVars
      BY <1>10 DEF InsertRequest
    <2> QED
      BY <1>0, <2>1 DEF CheckStands, worldVars
  <1>11. ASSUME NEW c \in Callbacks, Expire(c) PROVE CheckStands(d)
    <2>1. UNCHANGED worldVars
      BY <1>11 DEF Expire
    <2> QED
      BY <1>0, <2>1 DEF CheckStands, worldVars
  <1>12. ASSUME NEW c \in Callbacks, HoldAddress(c) PROVE CheckStands(d)
    <2>1. UNCHANGED worldVars
      BY <1>12 DEF HoldAddress
    <2> QED
      BY <1>0, <2>1 DEF CheckStands, worldVars
  <1>13. ASSUME NEW c \in Callbacks, LockConnection(c) PROVE CheckStands(d)
    <2>1. UNCHANGED worldVars
      BY <1>13 DEF LockConnection
    <2> QED
      BY <1>0, <2>1 DEF CheckStands, worldVars
  <1>14. ASSUME NEW c \in Callbacks, CheckConnection(c) PROVE CheckStands(d)
    <2>1. UNCHANGED worldVars
      BY <1>14 DEF CheckConnection
    <2> QED
      BY <1>0, <2>1 DEF CheckStands, worldVars
  <1>15. ASSUME NEW c \in Callbacks, connectDirectoryAccount(c) PROVE CheckStands(d)
    <2>1. UNCHANGED <<firm, domain, directory, user, holder, member>> /\ request[c].at = "checked"
      BY <1>15 DEF connectDirectoryAccount
    <2>2. \A j \in Identities : account'[j] = account[j] \/ account'[j].user = request[c].seen
      BY <1>15 DEF connectDirectoryAccount, TypeOK
    <2>3. CASE c # d
      <3>1. AddressOf(c) # AddressOf(d)
        BY <1>0, <2>1, <2>3 DEF OneRequestAnAddress
      <3>2. holder[AddressOf(c)] = request[c].seen /\ request[c].seen \in Users /\ AddressOf(c) \in People
        BY <2>1, DirectoryAssumption DEF CheckedHolds, AddressOf, TypeOK, Calls
      <3>3. request[c].seen # w
        BY <1>0, <3>1, <3>2, DirectoryAssumption DEF OneAddressAPerson
      <3> QED
        BY <1>0, <2>1, <2>2, <3>3 DEF CheckStands
    <2>4. CASE c = d
      BY <1>15, <2>4 DEF CheckStands, connectDirectoryAccount, NoRequest, TypeOK
    <2> QED
      BY <2>3, <2>4
  <1>16. ASSUME NEW c \in Callbacks, SignOut(c) PROVE CheckStands(d)
    <2>1. UNCHANGED worldVars
      BY <1>16 DEF SignOut
    <2> QED
      BY <1>0, <2>1 DEF CheckStands, worldVars
  <1>17. ASSUME NEW f \in Firms, SetFirm(f) PROVE CheckStands(d)
    <2>1. UNCHANGED <<domain, directory, user, holder, account, member>> /\ FirmOf(d) # f
      BY <1>17, <1>0 DEF SetFirm, OfFirm, FirmFree
    <2>2. firm'[FirmOf(d)] = firm[FirmOf(d)]
      BY <1>17, <1>0, <2>1 DEF SetFirm, TypeOK
    <2> QED
      BY <1>0, <2>1, <2>2 DEF CheckStands
  <1>18. ASSUME NEW f \in Firms, SetDomain(f) PROVE CheckStands(d)
    <2>1. UNCHANGED <<firm, directory, user, holder, account, member>> /\ FirmOf(d) # f
      BY <1>18, <1>0 DEF SetDomain, OfFirm, FirmFree
    <2>2. domain'[FirmOf(d)] = domain[FirmOf(d)]
      BY <1>18, <1>0, <2>1 DEF SetDomain, TypeOK
    <2> QED
      BY <1>0, <2>1, <2>2 DEF CheckStands
  <1>19. ASSUME NEW f \in Firms, putSsoProvider(f) PROVE CheckStands(d)
    <2>1. UNCHANGED <<firm, domain, user, holder, account, member>> /\ FirmOf(d) # f
      BY <1>19, <1>0 DEF putSsoProvider, OfFirm, FirmFree
    <2>2. directory'[FirmOf(d)] = directory[FirmOf(d)]
      BY <1>19, <1>0, <2>1 DEF putSsoProvider, TypeOK
    <2> QED
      BY <1>0, <2>1, <2>2 DEF CheckStands
  <1>20. ASSUME NEW f \in Firms, deleteSsoProvider(f) PROVE CheckStands(d)
    <2>1. UNCHANGED <<firm, domain, user, holder, account, member>> /\ FirmOf(d) # f
      BY <1>20, <1>0 DEF deleteSsoProvider, OfFirm, FirmFree
    <2>2. directory'[FirmOf(d)] = directory[FirmOf(d)]
      BY <1>20, <1>0, <2>1 DEF deleteSsoProvider, TypeOK
    <2> QED
      BY <1>0, <2>1, <2>2 DEF CheckStands
  <1>21. ASSUME NEW f \in Firms, NEW u \in Users, RemoveMember(f, u) PROVE CheckStands(d)
    <2>1. UNCHANGED <<firm, domain, directory, user, holder, account>> /\ FirmOf(d) # f
      BY <1>21, <1>0 DEF RemoveMember, OfFirm, FirmFree
    <2>2. member'[FirmOf(d)] = member[FirmOf(d)]
      BY <1>21, <1>0, <2>1 DEF RemoveMember, TypeOK
    <2> QED
      BY <1>0, <2>1, <2>2 DEF CheckStands
  <1>22. ASSUME NEW f \in Firms, NEW u \in Users, ReinstateMember(f, u) PROVE CheckStands(d)
    <2>1. UNCHANGED <<firm, domain, directory, user, holder, account>> /\ FirmOf(d) # f
      BY <1>22, <1>0 DEF ReinstateMember, OfFirm, FirmFree
    <2>2. member'[FirmOf(d)] = member[FirmOf(d)]
      BY <1>22, <1>0, <2>1 DEF ReinstateMember, TypeOK
    <2> QED
      BY <1>0, <2>1, <2>2 DEF CheckStands
  <1>23. ASSUME NEW f \in Firms, NEW p \in People, NEW u \in Users, importMembers(f, p, u)
    PROVE CheckStands(d)
    <2>1. UNCHANGED <<firm, domain, directory, account>> /\ p # AddressOf(d)
      BY <1>23, <1>0 DEF importMembers, AddressFree
    <2>2. u # w
      BY <1>23, <1>0, <2>1, DirectoryAssumption DEF importMembers, OneAddressAPerson
    <2>3. user'[w] = user[w] /\ holder'[AddressOf(d)] = holder[AddressOf(d)]
      BY <1>23, <1>0, <2>1, <2>2 DEF importMembers, TypeOK
    <2>4. member'[FirmOf(d)][w] = member[FirmOf(d)][w]
      BY <1>23, <1>0, <2>2 DEF importMembers, TypeOK
    <2> QED
      BY <1>0, <2>1, <2>2, <2>3, <2>4 DEF CheckStands
  <1>24. ASSUME NEW u \in Users, disableUser(u) PROVE CheckStands(d)
    <2>1. UNCHANGED <<firm, domain, directory, holder, account, member>> /\ u # w
      BY <1>24, <1>0 DEF disableUser, OfUser, UserFree
    <2>2. user'[w] = user[w]
      BY <1>24, <1>0, <2>1 DEF disableUser, TypeOK
    <2> QED
      BY <1>0, <2>1, <2>2 DEF CheckStands
  <1>25. ASSUME NEW u \in Users, enableUser(u) PROVE CheckStands(d)
    <2>1. UNCHANGED <<firm, domain, directory, holder, account, member>> /\ u # w
      BY <1>25, <1>0 DEF enableUser, OfUser, UserFree
    <2>2. user'[w] = user[w]
      BY <1>25, <1>0, <2>1 DEF enableUser, TypeOK
    <2> QED
      BY <1>0, <2>1, <2>2 DEF CheckStands
  <1>26. ASSUME NEW u \in Users, retireUserEmail(u) PROVE CheckStands(d)
    <2>1. UNCHANGED <<firm, domain, directory, account, member>> /\ u # w
      BY <1>26, <1>0 DEF retireUserEmail, OfUser, UserFree
    <2>2. user'[w] = user[w]
      BY <1>26, <1>0, <2>1 DEF retireUserEmail, TypeOK
    <2>3. holder'[AddressOf(d)] = holder[AddressOf(d)]
      BY <1>26, <1>0, <2>1 DEF retireUserEmail, ReleaseAddress, TypeOK
    <2> QED
      BY <1>0, <2>1, <2>2, <2>3 DEF CheckStands
  <1>27. ASSUME NEW u \in Users, eraseUser(u) PROVE CheckStands(d)
    <2>1. UNCHANGED <<firm, domain, directory>> /\ u # w
      BY <1>27, <1>0 DEF eraseUser, OfUser, UserFree
    <2>2. user'[w] = user[w]
      BY <1>27, <1>0, <2>1 DEF eraseUser, TypeOK
    <2>3. holder'[AddressOf(d)] = holder[AddressOf(d)]
      BY <1>27, <1>0, <2>1 DEF eraseUser, ReleaseAddress, TypeOK
    <2>4. \A i \in Identities : account'[i].user = account[i].user
      BY <1>27 DEF eraseUser, TypeOK, Accounts
    <2>5. member'[FirmOf(d)][w] = member[FirmOf(d)][w]
      BY <1>27, <1>0, <2>1 DEF eraseUser, TypeOK
    <2> QED
      BY <1>0, <2>1, <2>2, <2>3, <2>4, <2>5 DEF CheckStands
  <1>28. CASE UNCHANGED vars
    BY <1>0, <1>28 DEF CheckStands, vars, worldVars
  <1> QED
    BY <1>1, <1>2, <1>3, <1>4, <1>5, <1>6, <1>7, <1>8, <1>9, <1>10, <1>11, <1>12,
       <1>13, <1>14, <1>15, <1>16, <1>17, <1>18, <1>19, <1>20, <1>21, <1>22, <1>23, <1>24,
       <1>25, <1>26, <1>27, <1>28 DEF Next

\* Every step keeps CheckedHolds.
LEMMA CheckedStep ==
  ASSUME TypeOK, TypeOK', CallsKeepTheirPlace, FlowsAreConsumedOnce, ResolvedHolds, CheckedHolds,
         PeopleAreOnes, [Next]_vars
  PROVE CheckedHolds'
  <1> DEFINE Checked(c) ==
        LET f == FirmOf(c)
            u == request[c].seen
        IN /\ directory[f] = [row |-> request[c].row, revision |-> request[c].revision, live |-> TRUE]
           /\ firm[f] /\ domain[f]
           /\ u \in Users /\ holder[AddressOf(c)] = u /\ holderAwaitingDirectory(f, AddressOf(c))
  <1> SUFFICES ASSUME NEW d \in Callbacks, request'[d].at = "checked" PROVE Checked(d)'
    BY DEF CheckedHolds
  <1>1. Checks(d)
    BY ConnectionsCheck
  <1>2. FirmOf(d)' = FirmOf(d) /\ AddressOf(d)' = AddressOf(d)
    BY <1>1 DEF Checks, FirmOf, AddressOf
  <1>3. CASE /\ request[d].at = "checked" /\ request'[d].row = request[d].row
             /\ request'[d].revision = request[d].revision /\ request'[d].seen = request[d].seen
    <2>1. Checked(d) /\ CheckStands(d)
      BY <1>3, ChecksStand DEF CheckedHolds
    <2> QED
      BY <1>2, <1>3, <2>1, DirectoryAssumption DEF CheckStands, holderAwaitingDirectory
  <1>4. CASE CheckConnection(d)
    <2>1. UNCHANGED worldVars
      BY <1>4 DEF CheckConnection
    <2>2. /\ directory[FirmOf(d)] = [row |-> request[d].row, revision |-> request[d].revision, live |-> TRUE]
          /\ firm[FirmOf(d)] /\ domain[FirmOf(d)]
          /\ request[d].seen # Nobody /\ holder[AddressOf(d)] = request[d].seen
          /\ holderAwaitingDirectory(FirmOf(d), AddressOf(d))
          /\ request' = [request EXCEPT ![d] = [request[d] EXCEPT !.at = "checked"]]
      <3>1. NoRequest.at = "idle" /\ (request' = [request EXCEPT ![d] = NoRequest] => request'[d] = NoRequest)
        BY DEF NoRequest, TypeOK
      <3> QED
        BY <1>4, <3>1 DEF CheckConnection
    <2>3. request'[d].row = request[d].row /\ request'[d].revision = request[d].revision
          /\ request'[d].seen = request[d].seen /\ request[d].seen \in Users \cup {Nobody}
      BY <2>2 DEF TypeOK, Requests
    <2> QED
      BY <1>2, <2>1, <2>2, <2>3 DEF worldVars, holderAwaitingDirectory
  <1> QED
    BY <1>1, <1>3, <1>4 DEF Checks

(***************************************************************************)
(* The erased are gone, and flows serve their sessions                     *)
(***************************************************************************)
\* ErasedPeopleAreGone, of one person.
Gone(u) ==
  user[u] = "erased" =>
    /\ \A c \in Callbacks : session[c].user = u => ~session[c].live
    /\ \A i \in Identities : account[i].user = u => ~account[i].live
    /\ \A p \in People : holder[p] # u

\* Every step keeps the erased without anything: a sign-in of an erased person finds the account
\* ended, a link holds its person, and a connection shares its own.
LEMMA GoneStep ==
  ASSUME TypeOK, TypeOK', CallsKeepTheirPlace, LocksHold, ResolvedHolds, CheckedHolds,
         ErasedPeopleAreGone, NEW w \in Users, [Next]_vars
  PROVE Gone(w)'
  <1>0. Gone(w)
    BY DEF ErasedPeopleAreGone, Gone
  <1>1. ASSUME NEW c \in Callbacks, NEW purpose \in {"link", "reauthenticate"}, NEW g \in Firms,
               Start(c, purpose, g)
    PROVE Gone(w)'
    <2>1. UNCHANGED <<user, session, account, holder>>
      BY <1>1 DEF Start, OfFirm, OfUser, worldVars
    <2> QED
      BY <1>0, <2>1 DEF Gone
  <1>2. ASSUME NEW c \in Callbacks, NEW i \in Identities, Return(c, i) PROVE Gone(w)'
    <2>1. UNCHANGED <<user, session, account, holder>>
      BY <1>2 DEF Return, OfFirm, OfUser, worldVars
    <2> QED
      BY <1>0, <2>1 DEF Gone
  <1>3. ASSUME NEW c \in Callbacks, NEW i \in Identities, NEW s \in Callbacks, observe(c, i, s)
    PROVE Gone(w)'
    <2>1. UNCHANGED <<user, session, account, holder>>
      BY <1>3 DEF observe, OfFirm, OfUser, worldVars
    <2> QED
      BY <1>0, <2>1 DEF Gone
  <1>4. ASSUME NEW c \in Callbacks, NEW s \in Callbacks, ObserveAnothers(c, s) PROVE Gone(w)'
    <2>1. UNCHANGED <<user, session, account, holder>>
      BY <1>4 DEF ObserveAnothers, OfFirm, OfUser, worldVars
    <2> QED
      BY <1>0, <2>1 DEF Gone
  <1>5. ASSUME NEW c \in Callbacks, beforeTransaction(c) PROVE Gone(w)'
    <2>1. UNCHANGED <<user, session, account, holder>>
      BY <1>5 DEF beforeTransaction, OfFirm, OfUser, worldVars
    <2> QED
      BY <1>0, <2>1 DEF Gone
  <1>6. ASSUME NEW c \in Callbacks, resolve(c) PROVE Gone(w)'
    <2>1. UNCHANGED <<user, session, account, holder>>
      BY <1>6 DEF resolve, OfFirm, OfUser, worldVars
    <2> QED
      BY <1>0, <2>1 DEF Gone
  <1>7. ASSUME NEW c \in Callbacks, Commit(c) PROVE Gone(w)'
    <2>1. CASE UNCHANGED <<worldVars, session>>
      BY <1>0, <2>1 DEF Gone, worldVars
    <2>2. ASSUME Stands(c), NEW u \in Users, Admit(c, u) PROVE Gone(w)'
      <3>1. PICK i \in Identities : i = call[c].identity
        BY DEF TypeOK, Calls
      <3>2. At(c, {"resolved"}) /\ Person[i] \in People
        BY <1>7, DirectoryAssumption DEF Commit
      <3>3. user[u] # "erased"
        <4>1. CASE call[c].binds = "create"
          BY <2>2, <4>1 DEF Admit
        <4>2. CASE call[c].binds = "known"
          <5>1. account[i].live /\ account[i].user = u
            BY <2>2, <3>1, <4>2 DEF Admit, Stands
          <5> QED
            BY <5>1 DEF ErasedPeopleAreGone
        <4>3. CASE call[c].binds = "link"
          <5>1. u = session[call[c].flow].user /\ HasFlow(c)
            BY <2>2, <3>2, <4>3 DEF Admit, ResolvedHolds, Linking
          <5>2. user[u] = "active"
            BY <3>2, <5>1 DEF LocksHold, InTransaction, At, current, tenantAuthentication
          <5> QED
            BY <5>2
        <4> QED
          BY <3>2, <4>1, <4>2, <4>3 DEF ResolvedHolds
      <3>4. user'[u] # "erased" /\ \A v \in Users : v # u => user'[v] = user[v]
        BY <2>2, <3>3 DEF Admit, TypeOK
      <3>5. \A e \in Callbacks : session'[e] = session[e] \/ session'[e].user = u
        BY <2>2 DEF Admit, TypeOK
      <3>6. \A j \in Identities : account'[j] = account[j] \/ account'[j].user = u
        BY <2>2, <3>1 DEF Admit, TypeOK
      <3>7. \A p \in People : holder'[p] = holder[p] \/ holder'[p] = u
        BY <2>2, <3>1, <3>2 DEF Admit, TypeOK
      <3> QED
        BY <1>0, <3>4, <3>5, <3>6, <3>7 DEF Gone
    <2> QED
      BY <1>7, <2>1, <2>2 DEF Commit
  <1>8. ASSUME NEW c \in Callbacks, GiveUp(c) PROVE Gone(w)'
    <2>1. UNCHANGED <<user, session, account, holder>>
      BY <1>8 DEF GiveUp, OfFirm, OfUser, worldVars
    <2> QED
      BY <1>0, <2>1 DEF Gone
  <1>9. ASSUME NEW c \in Callbacks, reserveConnection(c) PROVE Gone(w)'
    <2>1. UNCHANGED <<user, session, account, holder>>
      BY <1>9 DEF reserveConnection, OfFirm, OfUser, worldVars
    <2> QED
      BY <1>0, <2>1 DEF Gone
  <1>10. ASSUME NEW c \in Callbacks, InsertRequest(c) PROVE Gone(w)'
    <2>1. UNCHANGED <<user, session, account, holder>>
      BY <1>10 DEF InsertRequest, OfFirm, OfUser, worldVars
    <2> QED
      BY <1>0, <2>1 DEF Gone
  <1>11. ASSUME NEW c \in Callbacks, Expire(c) PROVE Gone(w)'
    <2>1. UNCHANGED <<user, session, account, holder>>
      BY <1>11 DEF Expire, OfFirm, OfUser, worldVars
    <2> QED
      BY <1>0, <2>1 DEF Gone
  <1>12. ASSUME NEW c \in Callbacks, HoldAddress(c) PROVE Gone(w)'
    <2>1. UNCHANGED <<user, session, account, holder>>
      BY <1>12 DEF HoldAddress, OfFirm, OfUser, worldVars
    <2> QED
      BY <1>0, <2>1 DEF Gone
  <1>13. ASSUME NEW c \in Callbacks, LockConnection(c) PROVE Gone(w)'
    <2>1. UNCHANGED <<user, session, account, holder>>
      BY <1>13 DEF LockConnection, OfFirm, OfUser, worldVars
    <2> QED
      BY <1>0, <2>1 DEF Gone
  <1>14. ASSUME NEW c \in Callbacks, CheckConnection(c) PROVE Gone(w)'
    <2>1. UNCHANGED <<user, session, account, holder>>
      BY <1>14 DEF CheckConnection, OfFirm, OfUser, worldVars
    <2> QED
      BY <1>0, <2>1 DEF Gone
  <1>15. ASSUME NEW c \in Callbacks, connectDirectoryAccount(c) PROVE Gone(w)'
    <2>1. UNCHANGED <<user, session, holder>> /\ request[c].at = "checked"
      BY <1>15 DEF connectDirectoryAccount
    <2>2. user[request[c].seen] = "active"
      BY <2>1 DEF CheckedHolds, holderAwaitingDirectory
    <2>3. \A j \in Identities : account'[j] = account[j] \/ account'[j].user = request[c].seen
      BY <1>15 DEF connectDirectoryAccount, TypeOK
    <2> QED
      BY <1>0, <2>1, <2>2, <2>3 DEF Gone
  <1>16. ASSUME NEW c \in Callbacks, SignOut(c) PROVE Gone(w)'
    <2>1. UNCHANGED <<user, account, holder>>
      BY <1>16 DEF SignOut, worldVars
    <2>2. \A e \in Callbacks : session'[e].user = session[e].user /\ (session'[e].live => session[e].live)
      BY <1>16 DEF SignOut, TypeOK, Sessions
    <2> QED
      BY <1>0, <2>1, <2>2 DEF Gone
  <1>17. ASSUME NEW f \in Firms, SetFirm(f) PROVE Gone(w)'
    <2>1. UNCHANGED <<user, session, account, holder>>
      BY <1>17 DEF SetFirm, OfFirm, OfUser, worldVars
    <2> QED
      BY <1>0, <2>1 DEF Gone
  <1>18. ASSUME NEW f \in Firms, SetDomain(f) PROVE Gone(w)'
    <2>1. UNCHANGED <<user, session, account, holder>>
      BY <1>18 DEF SetDomain, OfFirm, OfUser, worldVars
    <2> QED
      BY <1>0, <2>1 DEF Gone
  <1>19. ASSUME NEW f \in Firms, putSsoProvider(f) PROVE Gone(w)'
    <2>1. UNCHANGED <<user, session, account, holder>>
      BY <1>19 DEF putSsoProvider, OfFirm, OfUser, worldVars
    <2> QED
      BY <1>0, <2>1 DEF Gone
  <1>20. ASSUME NEW f \in Firms, deleteSsoProvider(f) PROVE Gone(w)'
    <2>1. UNCHANGED <<user, session, account, holder>>
      BY <1>20 DEF deleteSsoProvider, OfFirm, OfUser, worldVars
    <2> QED
      BY <1>0, <2>1 DEF Gone
  <1>21. ASSUME NEW f \in Firms, NEW u \in Users, RemoveMember(f, u) PROVE Gone(w)'
    <2>1. UNCHANGED <<user, session, account, holder>>
      BY <1>21 DEF RemoveMember, OfFirm, OfUser, worldVars
    <2> QED
      BY <1>0, <2>1 DEF Gone
  <1>22. ASSUME NEW f \in Firms, NEW u \in Users, ReinstateMember(f, u) PROVE Gone(w)'
    <2>1. UNCHANGED <<user, session, account, holder>>
      BY <1>22 DEF ReinstateMember, OfFirm, OfUser, worldVars
    <2> QED
      BY <1>0, <2>1 DEF Gone
  <1>23. ASSUME NEW f \in Firms, NEW p \in People, NEW u \in Users, importMembers(f, p,
                u) PROVE Gone(w)'
    <2>1. UNCHANGED <<session, account>> /\ user'[u] # "erased"
      BY <1>23 DEF importMembers, TypeOK
    <2>2. \A v \in Users : v # u => user'[v] = user[v]
      BY <1>23 DEF importMembers, TypeOK
    <2>3. \A q \in People : holder'[q] = holder[q] \/ holder'[q] = u
      BY <1>23 DEF importMembers, TypeOK
    <2> QED
      BY <1>0, <2>1, <2>2, <2>3 DEF Gone
  <1>24. ASSUME NEW u \in Users, disableUser(u) PROVE Gone(w)'
    <2>1. UNCHANGED <<account, holder>> /\ (user'[w] = "erased" => user[w] = "erased")
      BY <1>24 DEF disableUser, OfUser, TypeOK
    <2>2. \A e \in Callbacks : session'[e].user = session[e].user /\ (session'[e].live => session[e].live)
      BY <1>24, SessionsEnd DEF disableUser
    <2> QED
      BY <1>0, <2>1, <2>2, DirectoryAssumption DEF Gone
  <1>25. ASSUME NEW u \in Users, enableUser(u) PROVE Gone(w)'
    <2>1. UNCHANGED <<session, account, holder>> /\ (user'[w] = "erased" => user[w] = "erased")
      BY <1>25 DEF enableUser, OfUser, TypeOK
    <2> QED
      BY <1>0, <2>1, DirectoryAssumption DEF Gone
  <1>26. ASSUME NEW u \in Users, retireUserEmail(u) PROVE Gone(w)'
    <2>1. UNCHANGED <<session, account>> /\ (user'[w] = "erased" => user[w] = "erased")
      BY <1>26 DEF retireUserEmail, OfUser, TypeOK
    <2>3. \A p \in People : holder'[p] = holder[p] \/ holder'[p] = Nobody
      BY <1>26 DEF retireUserEmail, ReleaseAddress
    <2> QED
      BY <1>0, <2>1, <2>3, DirectoryAssumption DEF Gone
  <1>27. ASSUME NEW u \in Users, eraseUser(u) PROVE Gone(w)'
    <2>1. \A v \in Users : v # u => user'[v] = user[v]
      BY <1>27 DEF eraseUser, TypeOK
    <2>2. \A e \in Callbacks : /\ session'[e].user = session[e].user
                               /\ session'[e].live => session[e].live /\ session[e].user # u
      BY <1>27, SessionsEnd DEF eraseUser
    <2>3. \A p \in People : holder'[p] # u /\ (holder'[p] = holder[p] \/ holder'[p] = Nobody)
      BY <1>27, DirectoryAssumption DEF eraseUser, ReleaseAddress
    <2>4. \A i \in Identities : /\ account'[i].user = account[i].user
                                /\ account'[i].live => account[i].live /\ account[i].user # u
      BY <1>27 DEF eraseUser, TypeOK, Accounts
    <2> QED
      BY <1>0, <2>1, <2>2, <2>3, <2>4, DirectoryAssumption DEF Gone
  <1>28. CASE UNCHANGED vars
    BY <1>0, <1>28 DEF Gone, vars, worldVars
  <1> QED
    BY <1>1, <1>2, <1>3, <1>4, <1>5, <1>6, <1>7, <1>8, <1>9, <1>10, <1>11, <1>12,
       <1>13, <1>14, <1>15, <1>16, <1>17, <1>18, <1>19, <1>20, <1>21, <1>22, <1>23, <1>24,
       <1>25, <1>26, <1>27, <1>28 DEF Next

\* A callback that ended in a session stays that session's, and its person's.
Stays(c) == At(c, {"in"}) => call'[c] = call[c] /\ session'[c].user = session[c].user

\* No step changes who a callback signed in, or for what.
LEMMA EndedStays ==
  ASSUME TypeOK, TypeOK', CallsKeepTheirPlace, NEW d \in Callbacks, [Next]_vars
  PROVE Stays(d)
  <1>1. ASSUME NEW c \in Callbacks, NEW purpose \in {"link", "reauthenticate"}, NEW g \in Firms,
               Start(c, purpose, g)
    PROVE Stays(d)
    <2>1. UNCHANGED <<call, session>>
      BY <1>1 DEF Start, OfFirm, OfUser, worldVars
    <2> QED
      BY <2>1 DEF Stays
  <1>2. ASSUME NEW c \in Callbacks, NEW i \in Identities, Return(c, i) PROVE Stays(d)
    <2>1. At(c, {"new"}) /\ UNCHANGED session
      BY <1>2 DEF Return
    <2>2. \A e \in Callbacks \ {c} : call'[e] = call[e]
      BY <1>2 DEF Return, TypeOK
    <2> QED
      BY <2>1, <2>2 DEF Stays, At
  <1>3. ASSUME NEW c \in Callbacks, NEW i \in Identities, NEW s \in Callbacks, observe(c, i, s)
    PROVE Stays(d)
    <2>1. At(c, {"new"}) /\ UNCHANGED session
      BY <1>3 DEF observe
    <2>2. \A e \in Callbacks \ {c} : call'[e] = call[e]
      BY <1>3 DEF observe, TypeOK
    <2> QED
      BY <2>1, <2>2 DEF Stays, At
  <1>4. ASSUME NEW c \in Callbacks, NEW s \in Callbacks, ObserveAnothers(c, s) PROVE Stays(d)
    <2>1. At(c, {"new"}) /\ UNCHANGED session
      BY <1>4 DEF ObserveAnothers
    <2>2. \A e \in Callbacks \ {c} : call'[e] = call[e]
      BY <1>4 DEF ObserveAnothers, TypeOK
    <2> QED
      BY <2>1, <2>2 DEF Stays, At
  <1>5. ASSUME NEW c \in Callbacks, beforeTransaction(c) PROVE Stays(d)
    <2>1. Goes(c) \/ UNCHANGED call
      BY <1>5, CallsGo
    <2>2. UNCHANGED session
      BY <1>5 DEF beforeTransaction
    <2> QED
      BY <2>1, <2>2 DEF Stays, At, Goes, TypeOK
  <1>6. ASSUME NEW c \in Callbacks, resolve(c) PROVE Stays(d)
    <2>1. Goes(c) \/ UNCHANGED call
      BY <1>6, CallsGo
    <2>2. UNCHANGED session
      BY <1>6 DEF resolve
    <2> QED
      BY <2>1, <2>2 DEF Stays, At, Goes, TypeOK
  <1>7. ASSUME NEW c \in Callbacks, Commit(c) PROVE Stays(d)
    <2>1. (Goes(c) \/ UNCHANGED call) /\ At(c, {"resolved"})
      BY <1>7, CallsGo DEF Commit
    <2>2. \A e \in Callbacks \ {c} : session'[e] = session[e]
      BY <1>7 DEF Commit, Admit, TypeOK
    <2> QED
      BY <2>1, <2>2 DEF Stays, At, Goes, TypeOK
  <1>8. ASSUME NEW c \in Callbacks, GiveUp(c) PROVE Stays(d)
    <2>1. Goes(c) \/ UNCHANGED call
      BY <1>8, CallsGo
    <2>2. UNCHANGED session
      BY <1>8 DEF GiveUp
    <2> QED
      BY <2>1, <2>2 DEF Stays, At, Goes, TypeOK
  <1>9. ASSUME NEW c \in Callbacks, reserveConnection(c) PROVE Stays(d)
    <2>1. Goes(c) \/ UNCHANGED call
      BY <1>9, CallsGo
    <2>2. UNCHANGED session
      BY <1>9 DEF reserveConnection
    <2> QED
      BY <2>1, <2>2 DEF Stays, At, Goes, TypeOK
  <1>10. ASSUME NEW c \in Callbacks, InsertRequest(c) PROVE Stays(d)
    <2>1. Goes(c) \/ UNCHANGED call
      BY <1>10, CallsGo
    <2>2. UNCHANGED session
      BY <1>10 DEF InsertRequest
    <2> QED
      BY <2>1, <2>2 DEF Stays, At, Goes, TypeOK
  <1>11. ASSUME NEW c \in Callbacks, Expire(c) PROVE Stays(d)
    <2>1. UNCHANGED <<call, session>>
      BY <1>11 DEF Expire, OfFirm, OfUser, worldVars
    <2> QED
      BY <2>1 DEF Stays
  <1>12. ASSUME NEW c \in Callbacks, HoldAddress(c) PROVE Stays(d)
    <2>1. UNCHANGED <<call, session>>
      BY <1>12 DEF HoldAddress, OfFirm, OfUser, worldVars
    <2> QED
      BY <2>1 DEF Stays
  <1>13. ASSUME NEW c \in Callbacks, LockConnection(c) PROVE Stays(d)
    <2>1. UNCHANGED <<call, session>>
      BY <1>13 DEF LockConnection, OfFirm, OfUser, worldVars
    <2> QED
      BY <2>1 DEF Stays
  <1>14. ASSUME NEW c \in Callbacks, CheckConnection(c) PROVE Stays(d)
    <2>1. UNCHANGED <<call, session>>
      BY <1>14 DEF CheckConnection, OfFirm, OfUser, worldVars
    <2> QED
      BY <2>1 DEF Stays
  <1>15. ASSUME NEW c \in Callbacks, connectDirectoryAccount(c) PROVE Stays(d)
    <2>1. UNCHANGED <<call, session>>
      BY <1>15 DEF connectDirectoryAccount, OfFirm, OfUser, worldVars
    <2> QED
      BY <2>1 DEF Stays
  <1>16. ASSUME NEW c \in Callbacks, SignOut(c) PROVE Stays(d)
    <2>1. UNCHANGED call /\ session'[d].user = session[d].user
      BY <1>16 DEF SignOut, TypeOK, Sessions
    <2> QED
      BY <2>1 DEF Stays
  <1>17. ASSUME NEW f \in Firms, SetFirm(f) PROVE Stays(d)
    <2>1. UNCHANGED <<call, session>>
      BY <1>17 DEF SetFirm, OfFirm, OfUser, worldVars
    <2> QED
      BY <2>1 DEF Stays
  <1>18. ASSUME NEW f \in Firms, SetDomain(f) PROVE Stays(d)
    <2>1. UNCHANGED <<call, session>>
      BY <1>18 DEF SetDomain, OfFirm, OfUser, worldVars
    <2> QED
      BY <2>1 DEF Stays
  <1>19. ASSUME NEW f \in Firms, putSsoProvider(f) PROVE Stays(d)
    <2>1. UNCHANGED <<call, session>>
      BY <1>19 DEF putSsoProvider, OfFirm, OfUser, worldVars
    <2> QED
      BY <2>1 DEF Stays
  <1>20. ASSUME NEW f \in Firms, deleteSsoProvider(f) PROVE Stays(d)
    <2>1. UNCHANGED <<call, session>>
      BY <1>20 DEF deleteSsoProvider, OfFirm, OfUser, worldVars
    <2> QED
      BY <2>1 DEF Stays
  <1>21. ASSUME NEW f \in Firms, NEW u \in Users, RemoveMember(f, u) PROVE Stays(d)
    <2>1. UNCHANGED <<call, session>>
      BY <1>21 DEF RemoveMember, OfFirm, OfUser, worldVars
    <2> QED
      BY <2>1 DEF Stays
  <1>22. ASSUME NEW f \in Firms, NEW u \in Users, ReinstateMember(f, u) PROVE Stays(d)
    <2>1. UNCHANGED <<call, session>>
      BY <1>22 DEF ReinstateMember, OfFirm, OfUser, worldVars
    <2> QED
      BY <2>1 DEF Stays
  <1>23. ASSUME NEW f \in Firms, NEW p \in People, NEW u \in Users, importMembers(f, p,
                u) PROVE Stays(d)
    <2>1. UNCHANGED <<call, session>>
      BY <1>23 DEF importMembers, OfFirm, OfUser, worldVars
    <2> QED
      BY <2>1 DEF Stays
  <1>24. ASSUME NEW u \in Users, disableUser(u) PROVE Stays(d)
    <2>1. UNCHANGED call /\ session'[d].user = session[d].user
      BY <1>24, SessionsEnd DEF disableUser, OfUser
    <2> QED
      BY <2>1 DEF Stays
  <1>25. ASSUME NEW u \in Users, enableUser(u) PROVE Stays(d)
    <2>1. UNCHANGED <<call, session>>
      BY <1>25 DEF enableUser, OfFirm, OfUser, worldVars
    <2> QED
      BY <2>1 DEF Stays
  <1>26. ASSUME NEW u \in Users, retireUserEmail(u) PROVE Stays(d)
    <2>1. UNCHANGED <<call, session>>
      BY <1>26 DEF retireUserEmail, OfFirm, OfUser, worldVars
    <2> QED
      BY <2>1 DEF Stays
  <1>27. ASSUME NEW u \in Users, eraseUser(u) PROVE Stays(d)
    <2>1. UNCHANGED call /\ session'[d].user = session[d].user
      BY <1>27, SessionsEnd DEF eraseUser, OfUser
    <2> QED
      BY <2>1 DEF Stays
  <1>28. CASE UNCHANGED vars
    BY <1>28 DEF Stays, vars, worldVars
  <1> QED
    BY <1>1, <1>2, <1>3, <1>4, <1>5, <1>6, <1>7, <1>8, <1>9, <1>10, <1>11, <1>12,
       <1>13, <1>14, <1>15, <1>16, <1>17, <1>18, <1>19, <1>20, <1>21, <1>22, <1>23, <1>24,
       <1>25, <1>26, <1>27, <1>28 DEF Next

\* A flow that was consumed asks what it asked.
Asks(s) == flow[s].status = "consumed" => flow'[s].purpose = flow[s].purpose

\* No step changes what a consumed flow asks.
LEMMA FlowsAsk ==
  ASSUME TypeOK, NEW r \in Callbacks, [Next]_vars
  PROVE Asks(r)
  <1>1. ASSUME NEW c \in Callbacks, NEW purpose \in {"link", "reauthenticate"}, NEW g \in Firms,
               Start(c, purpose, g)
    PROVE Asks(r)
    BY <1>1 DEF Start, Asks, NoFlow, TypeOK
  <1>2. ASSUME NEW c \in Callbacks, NEW i \in Identities, Return(c, i) PROVE Asks(r)
    <2>1. UNCHANGED <<flow>>
      BY <1>2 DEF Return, OfFirm, OfUser, worldVars
    <2> QED
      BY <2>1 DEF Asks
  <1>3. ASSUME NEW c \in Callbacks, NEW i \in Identities, NEW s \in Callbacks, observe(c, i, s)
    PROVE Asks(r)
    BY <1>3 DEF observe, Asks, TypeOK, Flows
  <1>4. ASSUME NEW c \in Callbacks, NEW s \in Callbacks, ObserveAnothers(c, s) PROVE Asks(r)
    BY <1>4 DEF ObserveAnothers, Asks, TypeOK, Flows
  <1>5. ASSUME NEW c \in Callbacks, beforeTransaction(c) PROVE Asks(r)
    <2>1. UNCHANGED <<flow>>
      BY <1>5 DEF beforeTransaction, OfFirm, OfUser, worldVars
    <2> QED
      BY <2>1 DEF Asks
  <1>6. ASSUME NEW c \in Callbacks, resolve(c) PROVE Asks(r)
    <2>1. UNCHANGED <<flow>>
      BY <1>6 DEF resolve, OfFirm, OfUser, worldVars
    <2> QED
      BY <2>1 DEF Asks
  <1>7. ASSUME NEW c \in Callbacks, Commit(c) PROVE Asks(r)
    <2>1. UNCHANGED <<flow>>
      BY <1>7 DEF Commit, OfFirm, OfUser, worldVars
    <2> QED
      BY <2>1 DEF Asks
  <1>8. ASSUME NEW c \in Callbacks, GiveUp(c) PROVE Asks(r)
    <2>1. UNCHANGED <<flow>>
      BY <1>8 DEF GiveUp, OfFirm, OfUser, worldVars
    <2> QED
      BY <2>1 DEF Asks
  <1>9. ASSUME NEW c \in Callbacks, reserveConnection(c) PROVE Asks(r)
    <2>1. UNCHANGED <<flow>>
      BY <1>9 DEF reserveConnection, OfFirm, OfUser, worldVars
    <2> QED
      BY <2>1 DEF Asks
  <1>10. ASSUME NEW c \in Callbacks, InsertRequest(c) PROVE Asks(r)
    <2>1. UNCHANGED <<flow>>
      BY <1>10 DEF InsertRequest, OfFirm, OfUser, worldVars
    <2> QED
      BY <2>1 DEF Asks
  <1>11. ASSUME NEW c \in Callbacks, Expire(c) PROVE Asks(r)
    <2>1. UNCHANGED <<flow>>
      BY <1>11 DEF Expire, OfFirm, OfUser, worldVars
    <2> QED
      BY <2>1 DEF Asks
  <1>12. ASSUME NEW c \in Callbacks, HoldAddress(c) PROVE Asks(r)
    <2>1. UNCHANGED <<flow>>
      BY <1>12 DEF HoldAddress, OfFirm, OfUser, worldVars
    <2> QED
      BY <2>1 DEF Asks
  <1>13. ASSUME NEW c \in Callbacks, LockConnection(c) PROVE Asks(r)
    <2>1. UNCHANGED <<flow>>
      BY <1>13 DEF LockConnection, OfFirm, OfUser, worldVars
    <2> QED
      BY <2>1 DEF Asks
  <1>14. ASSUME NEW c \in Callbacks, CheckConnection(c) PROVE Asks(r)
    <2>1. UNCHANGED <<flow>>
      BY <1>14 DEF CheckConnection, OfFirm, OfUser, worldVars
    <2> QED
      BY <2>1 DEF Asks
  <1>15. ASSUME NEW c \in Callbacks, connectDirectoryAccount(c) PROVE Asks(r)
    <2>1. UNCHANGED <<flow>>
      BY <1>15 DEF connectDirectoryAccount, OfFirm, OfUser, worldVars
    <2> QED
      BY <2>1 DEF Asks
  <1>16. ASSUME NEW c \in Callbacks, SignOut(c) PROVE Asks(r)
    <2>1. UNCHANGED <<flow>>
      BY <1>16 DEF SignOut, OfFirm, OfUser, worldVars
    <2> QED
      BY <2>1 DEF Asks
  <1>17. ASSUME NEW f \in Firms, SetFirm(f) PROVE Asks(r)
    <2>1. UNCHANGED <<flow>>
      BY <1>17 DEF SetFirm, OfFirm, OfUser, worldVars
    <2> QED
      BY <2>1 DEF Asks
  <1>18. ASSUME NEW f \in Firms, SetDomain(f) PROVE Asks(r)
    <2>1. UNCHANGED <<flow>>
      BY <1>18 DEF SetDomain, OfFirm, OfUser, worldVars
    <2> QED
      BY <2>1 DEF Asks
  <1>19. ASSUME NEW f \in Firms, putSsoProvider(f) PROVE Asks(r)
    <2>1. UNCHANGED <<flow>>
      BY <1>19 DEF putSsoProvider, OfFirm, OfUser, worldVars
    <2> QED
      BY <2>1 DEF Asks
  <1>20. ASSUME NEW f \in Firms, deleteSsoProvider(f) PROVE Asks(r)
    <2>1. UNCHANGED <<flow>>
      BY <1>20 DEF deleteSsoProvider, OfFirm, OfUser, worldVars
    <2> QED
      BY <2>1 DEF Asks
  <1>21. ASSUME NEW f \in Firms, NEW u \in Users, RemoveMember(f, u) PROVE Asks(r)
    <2>1. UNCHANGED <<flow>>
      BY <1>21 DEF RemoveMember, OfFirm, OfUser, worldVars
    <2> QED
      BY <2>1 DEF Asks
  <1>22. ASSUME NEW f \in Firms, NEW u \in Users, ReinstateMember(f, u) PROVE Asks(r)
    <2>1. UNCHANGED <<flow>>
      BY <1>22 DEF ReinstateMember, OfFirm, OfUser, worldVars
    <2> QED
      BY <2>1 DEF Asks
  <1>23. ASSUME NEW f \in Firms, NEW p \in People, NEW u \in Users, importMembers(f, p, u) PROVE Asks(r)
    <2>1. UNCHANGED <<flow>>
      BY <1>23 DEF importMembers, OfFirm, OfUser, worldVars
    <2> QED
      BY <2>1 DEF Asks
  <1>24. ASSUME NEW u \in Users, disableUser(u) PROVE Asks(r)
    <2>1. UNCHANGED <<flow>>
      BY <1>24 DEF disableUser, OfFirm, OfUser, worldVars
    <2> QED
      BY <2>1 DEF Asks
  <1>25. ASSUME NEW u \in Users, enableUser(u) PROVE Asks(r)
    <2>1. UNCHANGED <<flow>>
      BY <1>25 DEF enableUser, OfFirm, OfUser, worldVars
    <2> QED
      BY <2>1 DEF Asks
  <1>26. ASSUME NEW u \in Users, retireUserEmail(u) PROVE Asks(r)
    <2>1. UNCHANGED <<flow>>
      BY <1>26 DEF retireUserEmail, OfFirm, OfUser, worldVars
    <2> QED
      BY <2>1 DEF Asks
  <1>27. ASSUME NEW u \in Users, eraseUser(u) PROVE Asks(r)
    <2>1. UNCHANGED <<flow>>
      BY <1>27 DEF eraseUser, OfFirm, OfUser, worldVars
    <2> QED
      BY <2>1 DEF Asks
  <1>28. CASE UNCHANGED vars
    BY <1>28 DEF Asks, vars, worldVars
  <1> QED
    BY <1>1, <1>2, <1>3, <1>4, <1>5, <1>6, <1>7, <1>8, <1>9, <1>10, <1>11, <1>12,
       <1>13, <1>14, <1>15, <1>16, <1>17, <1>18, <1>19, <1>20, <1>21, <1>22, <1>23, <1>24,
       <1>25, <1>26, <1>27, <1>28 DEF Next

\* A callback ends in a session by committing what still stands.
Ends(c) ==
  At(c, {"in"})' /\ ~At(c, {"in"}) =>
    /\ At(c, {"resolved"}) /\ Stands(c)
    /\ \E u \in Users : Admit(c, u)
    /\ UNCHANGED <<flow, request, moves>>

\* Only Commit ends a callback in a session.
LEMMA CallbacksEnd ==
  ASSUME TypeOK, TypeOK', CallsKeepTheirPlace, NEW d \in Callbacks, [Next]_vars
  PROVE Ends(d)
  <1>1. ASSUME NEW c \in Callbacks, NEW purpose \in {"link", "reauthenticate"}, NEW g \in Firms,
               Start(c, purpose, g)
    PROVE Ends(d)
    <2>1. UNCHANGED <<call>>
      BY <1>1 DEF Start, OfFirm, OfUser, worldVars
    <2> QED
      BY <2>1 DEF Ends, At
  <1>2. ASSUME NEW c \in Callbacks, NEW i \in Identities, Return(c, i) PROVE Ends(d)
    <2>1. call'[c].at # "in" /\ \A e \in Callbacks \ {c} : call'[e] = call[e]
      BY <1>2 DEF Return, TypeOK, Fresh
    <2> QED
      BY <2>1 DEF Ends, At
  <1>3. ASSUME NEW c \in Callbacks, NEW i \in Identities, NEW s \in Callbacks, observe(c, i, s)
    PROVE Ends(d)
    <2>1. call'[c].at # "in" /\ \A e \in Callbacks \ {c} : call'[e] = call[e]
      BY <1>3 DEF observe, TypeOK, Fresh
    <2> QED
      BY <2>1 DEF Ends, At
  <1>4. ASSUME NEW c \in Callbacks, NEW s \in Callbacks, ObserveAnothers(c, s) PROVE Ends(d)
    <2>1. call'[c].at # "in" /\ \A e \in Callbacks \ {c} : call'[e] = call[e]
      BY <1>4 DEF ObserveAnothers, TypeOK, Fresh
    <2> QED
      BY <2>1 DEF Ends, At
  <1>5. ASSUME NEW c \in Callbacks, beforeTransaction(c) PROVE Ends(d)
    <2>1. Goes(c) \/ UNCHANGED call
      BY <1>5, CallsGo
    <2>2. UNCHANGED session
      BY <1>5 DEF beforeTransaction
    <2>3. \A e \in Callbacks : session[e] # NoSession <=> At(e, {"in"})
      BY DEF CallsKeepTheirPlace
    <2> QED
      BY <2>1, <2>2, <2>3 DEF Ends, At, Goes, TypeOK
  <1>6. ASSUME NEW c \in Callbacks, resolve(c) PROVE Ends(d)
    <2>1. Goes(c) \/ UNCHANGED call
      BY <1>6, CallsGo
    <2>2. UNCHANGED session
      BY <1>6 DEF resolve
    <2>3. \A e \in Callbacks : session[e] # NoSession <=> At(e, {"in"})
      BY DEF CallsKeepTheirPlace
    <2> QED
      BY <2>1, <2>2, <2>3 DEF Ends, At, Goes, TypeOK
  <1>7. ASSUME NEW c \in Callbacks, Commit(c) PROVE Ends(d)
    <2>1. At(c, {"resolved"}) /\ UNCHANGED <<flow, request, moves>>
      BY <1>7 DEF Commit
    <2>2. CASE Stands(c)
      <3>1. PICK u \in Users : Admit(c, u)
        BY <1>7, <2>2 DEF Commit
      <3>2. \A e \in Callbacks \ {c} : call'[e] = call[e]
        BY <3>1 DEF Admit, TypeOK
      <3> QED
        BY <2>1, <2>2, <3>1, <3>2 DEF Ends, At
    <2>3. CASE ~Stands(c)
      <3>1. call' = [call EXCEPT ![c] = Ended(c, "refused")]
        BY <1>7, <2>3 DEF Commit, Refused
      <3>2. Ended(c, "refused").at = "refused"
        BY DEF Ended, Fresh
      <3> QED
        BY <2>1, <3>1, <3>2 DEF Ends, At, TypeOK
    <2> QED
      BY <2>2, <2>3
  <1>8. ASSUME NEW c \in Callbacks, GiveUp(c) PROVE Ends(d)
    <2>1. Goes(c) \/ UNCHANGED call
      BY <1>8, CallsGo
    <2>2. UNCHANGED session
      BY <1>8 DEF GiveUp
    <2>3. \A e \in Callbacks : session[e] # NoSession <=> At(e, {"in"})
      BY DEF CallsKeepTheirPlace
    <2> QED
      BY <2>1, <2>2, <2>3 DEF Ends, At, Goes, TypeOK
  <1>9. ASSUME NEW c \in Callbacks, reserveConnection(c) PROVE Ends(d)
    <2>1. Goes(c) \/ UNCHANGED call
      BY <1>9, CallsGo
    <2>2. UNCHANGED session
      BY <1>9 DEF reserveConnection
    <2>3. \A e \in Callbacks : session[e] # NoSession <=> At(e, {"in"})
      BY DEF CallsKeepTheirPlace
    <2> QED
      BY <2>1, <2>2, <2>3 DEF Ends, At, Goes, TypeOK
  <1>10. ASSUME NEW c \in Callbacks, InsertRequest(c) PROVE Ends(d)
    <2>1. Goes(c) \/ UNCHANGED call
      BY <1>10, CallsGo
    <2>2. UNCHANGED session
      BY <1>10 DEF InsertRequest
    <2>3. \A e \in Callbacks : session[e] # NoSession <=> At(e, {"in"})
      BY DEF CallsKeepTheirPlace
    <2> QED
      BY <2>1, <2>2, <2>3 DEF Ends, At, Goes, TypeOK
  <1>11. ASSUME NEW c \in Callbacks, Expire(c) PROVE Ends(d)
    <2>1. UNCHANGED <<call>>
      BY <1>11 DEF Expire, OfFirm, OfUser, worldVars
    <2> QED
      BY <2>1 DEF Ends, At
  <1>12. ASSUME NEW c \in Callbacks, HoldAddress(c) PROVE Ends(d)
    <2>1. UNCHANGED <<call>>
      BY <1>12 DEF HoldAddress, OfFirm, OfUser, worldVars
    <2> QED
      BY <2>1 DEF Ends, At
  <1>13. ASSUME NEW c \in Callbacks, LockConnection(c) PROVE Ends(d)
    <2>1. UNCHANGED <<call>>
      BY <1>13 DEF LockConnection, OfFirm, OfUser, worldVars
    <2> QED
      BY <2>1 DEF Ends, At
  <1>14. ASSUME NEW c \in Callbacks, CheckConnection(c) PROVE Ends(d)
    <2>1. UNCHANGED <<call>>
      BY <1>14 DEF CheckConnection, OfFirm, OfUser, worldVars
    <2> QED
      BY <2>1 DEF Ends, At
  <1>15. ASSUME NEW c \in Callbacks, connectDirectoryAccount(c) PROVE Ends(d)
    <2>1. UNCHANGED <<call>>
      BY <1>15 DEF connectDirectoryAccount, OfFirm, OfUser, worldVars
    <2> QED
      BY <2>1 DEF Ends, At
  <1>16. ASSUME NEW c \in Callbacks, SignOut(c) PROVE Ends(d)
    <2>1. UNCHANGED <<call>>
      BY <1>16 DEF SignOut, OfFirm, OfUser, worldVars
    <2> QED
      BY <2>1 DEF Ends, At
  <1>17. ASSUME NEW f \in Firms, SetFirm(f) PROVE Ends(d)
    <2>1. UNCHANGED <<call>>
      BY <1>17 DEF SetFirm, OfFirm, OfUser, worldVars
    <2> QED
      BY <2>1 DEF Ends, At
  <1>18. ASSUME NEW f \in Firms, SetDomain(f) PROVE Ends(d)
    <2>1. UNCHANGED <<call>>
      BY <1>18 DEF SetDomain, OfFirm, OfUser, worldVars
    <2> QED
      BY <2>1 DEF Ends, At
  <1>19. ASSUME NEW f \in Firms, putSsoProvider(f) PROVE Ends(d)
    <2>1. UNCHANGED <<call>>
      BY <1>19 DEF putSsoProvider, OfFirm, OfUser, worldVars
    <2> QED
      BY <2>1 DEF Ends, At
  <1>20. ASSUME NEW f \in Firms, deleteSsoProvider(f) PROVE Ends(d)
    <2>1. UNCHANGED <<call>>
      BY <1>20 DEF deleteSsoProvider, OfFirm, OfUser, worldVars
    <2> QED
      BY <2>1 DEF Ends, At
  <1>21. ASSUME NEW f \in Firms, NEW u \in Users, RemoveMember(f, u) PROVE Ends(d)
    <2>1. UNCHANGED <<call>>
      BY <1>21 DEF RemoveMember, OfFirm, OfUser, worldVars
    <2> QED
      BY <2>1 DEF Ends, At
  <1>22. ASSUME NEW f \in Firms, NEW u \in Users, ReinstateMember(f, u) PROVE Ends(d)
    <2>1. UNCHANGED <<call>>
      BY <1>22 DEF ReinstateMember, OfFirm, OfUser, worldVars
    <2> QED
      BY <2>1 DEF Ends, At
  <1>23. ASSUME NEW f \in Firms, NEW p \in People, NEW u \in Users, importMembers(f, p, u) PROVE Ends(d)
    <2>1. UNCHANGED <<call>>
      BY <1>23 DEF importMembers, OfFirm, OfUser, worldVars
    <2> QED
      BY <2>1 DEF Ends, At
  <1>24. ASSUME NEW u \in Users, disableUser(u) PROVE Ends(d)
    <2>1. UNCHANGED <<call>>
      BY <1>24 DEF disableUser, OfFirm, OfUser, worldVars
    <2> QED
      BY <2>1 DEF Ends, At
  <1>25. ASSUME NEW u \in Users, enableUser(u) PROVE Ends(d)
    <2>1. UNCHANGED <<call>>
      BY <1>25 DEF enableUser, OfFirm, OfUser, worldVars
    <2> QED
      BY <2>1 DEF Ends, At
  <1>26. ASSUME NEW u \in Users, retireUserEmail(u) PROVE Ends(d)
    <2>1. UNCHANGED <<call>>
      BY <1>26 DEF retireUserEmail, OfFirm, OfUser, worldVars
    <2> QED
      BY <2>1 DEF Ends, At
  <1>27. ASSUME NEW u \in Users, eraseUser(u) PROVE Ends(d)
    <2>1. UNCHANGED <<call>>
      BY <1>27 DEF eraseUser, OfFirm, OfUser, worldVars
    <2> QED
      BY <2>1 DEF Ends, At
  <1>28. CASE UNCHANGED vars
    BY <1>28 DEF Ends, At, vars, worldVars
  <1> QED
    BY <1>1, <1>2, <1>3, <1>4, <1>5, <1>6, <1>7, <1>8, <1>9, <1>10, <1>11, <1>12,
       <1>13, <1>14, <1>15, <1>16, <1>17, <1>18, <1>19, <1>20, <1>21, <1>22, <1>23, <1>24,
       <1>25, <1>26, <1>27, <1>28 DEF Next

\* Every step keeps FlowsServeTheirSession: who a transaction under a flow resolved is its
\* session's person, whether it links or finds the same identity again.
LEMMA ServeStep ==
  ASSUME TypeOK, TypeOK', CallsKeepTheirPlace, FlowsAreConsumedOnce, FlowsAreConsumedOnce',
         ResolvedHolds,
         FlowsServeTheirSession, [Next]_vars
  PROVE FlowsServeTheirSession'
  <1> SUFFICES ASSUME NEW c \in Callbacks, HasFlow(c)', NEW s \in Callbacks, s = call'[c].flow, At(c,
                      {"in"})'
               PROVE /\ session'[c].user = session'[s].user
                     /\ flow'[s].purpose = "reauthenticate" => call'[c].identity = call'[s].identity
    <2>1. \A c \in Callbacks : HasFlow(c)' => call'[c].flow \in Callbacks
      BY DEF TypeOK, Calls, HasFlow
    <2> QED
      BY <2>1 DEF FlowsServeTheirSession, FlowsAreConsumedOnce, HasFlow, Flow, At
  <1>1. CASE At(c, {"in"})
    <2>1. call'[c] = call[c] /\ session'[c].user = session[c].user /\ HasFlow(c)
      BY <1>1, EndedStays DEF Stays, HasFlow
    <2>2. At(s, {"in"}) /\ flow[s].status = "consumed"
      BY <2>1 DEF FlowsAreConsumedOnce
    <2>3. call'[s] = call[s] /\ session'[s].user = session[s].user /\ flow'[s].purpose = flow[s].purpose
      BY <2>2, EndedStays, FlowsAsk DEF Stays, Asks
    <2>4. session[c].user = session[s].user /\ (flow[s].purpose = "reauthenticate" => call[c].identity = call[s].identity)
      BY <1>1, <2>1 DEF FlowsServeTheirSession, Flow
    <2> QED
      BY <2>1, <2>3, <2>4
  <1>2. CASE ~At(c, {"in"})
    <2>1. At(c, {"resolved"}) /\ Stands(c) /\ flow' = flow
      BY <1>2, CallbacksEnd DEF Ends
    <2>2. PICK u \in Users : Admit(c, u)
      BY <1>2, CallbacksEnd DEF Ends
    <2>3. Ended(c, "in").flow = call[c].flow /\ Ended(c, "in").identity = call[c].identity
      BY DEF Ended, Fresh
    <2>4. /\ call'[c].flow = call[c].flow /\ call'[c].identity = call[c].identity /\ session'[c].user = u
          /\ \A e \in Callbacks \ {c} : call'[e] = call[e] /\ session'[e] = session[e]
      BY <2>2, <2>3 DEF Admit, TypeOK
    <2>5. HasFlow(c) /\ s = call[c].flow
      BY <2>4 DEF HasFlow
    <2>6. At(s, {"in"}) /\ flow[s].status = "consumed" /\ s # c
      BY <1>2, <2>5 DEF FlowsAreConsumedOnce
    <2>7. call[c].binds \in {"known", "link"} /\ Verified(c)
      BY <2>1, <2>5 DEF ResolvedHolds
    <2>8. CASE call[c].binds = "link"
      <3>1. u = session[s].user /\ flow[s].purpose = "link"
        BY <2>1, <2>2, <2>5, <2>8 DEF Admit, ResolvedHolds, Linking, Flow
      <3> QED
        BY <2>1, <2>4, <2>6, <3>1
    <2>9. CASE call[c].binds = "known"
      <3>1. ~Linking(c) /\ account[call[c].identity].user = u
        BY <2>1, <2>2, <2>9 DEF Admit, ResolvedHolds
      <3>2. call[c].identity = call[s].identity
        BY <2>5, <2>7, <3>1 DEF Verified
      <3>3. account[call[s].identity].user = session[s].user
        BY <2>6 DEF CallsKeepTheirPlace
      <3> QED
        BY <2>4, <2>6, <3>1, <3>2, <3>3
    <2> QED
      BY <2>7, <2>8, <2>9
  <1> QED
    BY <1>1, <1>2

(***************************************************************************)
(* The theorems                                                            *)
(***************************************************************************)
\* What is bound is bound by a callback that ends or by a mailbox, to keys that nothing has.
BoundBy(i) ==
  Binds(i) =>
    /\ SameKeys(i) = {}
    /\ \E c \in Callbacks :
         \/ /\ At(c, {"resolved"}) /\ call[c].identity = i /\ call[c].binds # "known"
            /\ Stands(c) /\ \E u \in Users : Admit(c, u) /\ account'[i].user = u
         \/ /\ request[c].at = "checked" /\ call[c].identity = i
            /\ account'[i].user = request[c].seen

\* Every step that binds an identity is one of these two.
LEMMA BindingsStep ==
  ASSUME TypeOK, NEW j \in Identities, [Next]_vars
  PROVE BoundBy(j)
  <1>1. ASSUME NEW c \in Callbacks, NEW purpose \in {"link", "reauthenticate"}, NEW g \in Firms,
               Start(c, purpose, g)
    PROVE BoundBy(j)
    <2>1. UNCHANGED <<account>>
      BY <1>1 DEF Start, OfFirm, OfUser, worldVars
    <2> QED
      BY <2>1 DEF BoundBy, Binds, Exact
  <1>2. ASSUME NEW c \in Callbacks, NEW i \in Identities, Return(c, i) PROVE BoundBy(j)
    <2>1. UNCHANGED <<account>>
      BY <1>2 DEF Return, OfFirm, OfUser, worldVars
    <2> QED
      BY <2>1 DEF BoundBy, Binds, Exact
  <1>3. ASSUME NEW c \in Callbacks, NEW i \in Identities, NEW s \in Callbacks, observe(c, i, s)
    PROVE BoundBy(j)
    <2>1. UNCHANGED <<account>>
      BY <1>3 DEF observe, OfFirm, OfUser, worldVars
    <2> QED
      BY <2>1 DEF BoundBy, Binds, Exact
  <1>4. ASSUME NEW c \in Callbacks, NEW s \in Callbacks, ObserveAnothers(c, s) PROVE BoundBy(j)
    <2>1. UNCHANGED <<account>>
      BY <1>4 DEF ObserveAnothers, OfFirm, OfUser, worldVars
    <2> QED
      BY <2>1 DEF BoundBy, Binds, Exact
  <1>5. ASSUME NEW c \in Callbacks, beforeTransaction(c) PROVE BoundBy(j)
    <2>1. UNCHANGED <<account>>
      BY <1>5 DEF beforeTransaction, OfFirm, OfUser, worldVars
    <2> QED
      BY <2>1 DEF BoundBy, Binds, Exact
  <1>6. ASSUME NEW c \in Callbacks, resolve(c) PROVE BoundBy(j)
    <2>1. UNCHANGED <<account>>
      BY <1>6 DEF resolve, OfFirm, OfUser, worldVars
    <2> QED
      BY <2>1 DEF BoundBy, Binds, Exact
  <1>7. ASSUME NEW c \in Callbacks, Commit(c) PROVE BoundBy(j)
    <2>1. CASE UNCHANGED account
      BY <2>1 DEF BoundBy, Binds, Exact
    <2>2. ASSUME Stands(c), NEW u \in Users, Admit(c, u) PROVE BoundBy(j)
      <3>1. SUFFICES ASSUME Binds(j)
                     PROVE /\ SameKeys(j) = {} /\ call[c].identity = j /\ call[c].binds # "known"
                           /\ account'[j].user = u
        BY <1>7, <2>2 DEF BoundBy, Commit
      <3>2. call[c].binds # "known"
        BY <2>2, <3>1 DEF Admit, Binds, Exact
      <3>3. call[c].identity = j /\ account'[j].user = u
        BY <2>2, <3>1, <3>2 DEF Admit, Binds, Exact, TypeOK
      <3> QED
        BY <2>2, <3>2, <3>3 DEF Stands
    <2> QED
      BY <1>7, <2>1, <2>2 DEF Commit, worldVars
  <1>8. ASSUME NEW c \in Callbacks, GiveUp(c) PROVE BoundBy(j)
    <2>1. UNCHANGED <<account>>
      BY <1>8 DEF GiveUp, OfFirm, OfUser, worldVars
    <2> QED
      BY <2>1 DEF BoundBy, Binds, Exact
  <1>9. ASSUME NEW c \in Callbacks, reserveConnection(c) PROVE BoundBy(j)
    <2>1. UNCHANGED <<account>>
      BY <1>9 DEF reserveConnection, OfFirm, OfUser, worldVars
    <2> QED
      BY <2>1 DEF BoundBy, Binds, Exact
  <1>10. ASSUME NEW c \in Callbacks, InsertRequest(c) PROVE BoundBy(j)
    <2>1. UNCHANGED <<account>>
      BY <1>10 DEF InsertRequest, OfFirm, OfUser, worldVars
    <2> QED
      BY <2>1 DEF BoundBy, Binds, Exact
  <1>11. ASSUME NEW c \in Callbacks, Expire(c) PROVE BoundBy(j)
    <2>1. UNCHANGED <<account>>
      BY <1>11 DEF Expire, OfFirm, OfUser, worldVars
    <2> QED
      BY <2>1 DEF BoundBy, Binds, Exact
  <1>12. ASSUME NEW c \in Callbacks, HoldAddress(c) PROVE BoundBy(j)
    <2>1. UNCHANGED <<account>>
      BY <1>12 DEF HoldAddress, OfFirm, OfUser, worldVars
    <2> QED
      BY <2>1 DEF BoundBy, Binds, Exact
  <1>13. ASSUME NEW c \in Callbacks, LockConnection(c) PROVE BoundBy(j)
    <2>1. UNCHANGED <<account>>
      BY <1>13 DEF LockConnection, OfFirm, OfUser, worldVars
    <2> QED
      BY <2>1 DEF BoundBy, Binds, Exact
  <1>14. ASSUME NEW c \in Callbacks, CheckConnection(c) PROVE BoundBy(j)
    <2>1. UNCHANGED <<account>>
      BY <1>14 DEF CheckConnection, OfFirm, OfUser, worldVars
    <2> QED
      BY <2>1 DEF BoundBy, Binds, Exact
  <1>15. ASSUME NEW c \in Callbacks, connectDirectoryAccount(c) PROVE BoundBy(j)
    <2>1. SUFFICES ASSUME Binds(j)
                   PROVE /\ SameKeys(j) = {} /\ request[c].at = "checked" /\ call[c].identity = j
                         /\ account'[j].user = request[c].seen
      BY DEF BoundBy
    <2>2. SameKeys(call[c].identity) = {}
      BY <1>15, <2>1 DEF connectDirectoryAccount, Binds, Exact
    <2>3. call[c].identity = j
      BY <1>15, <2>1, <2>2 DEF connectDirectoryAccount, Binds, Exact, TypeOK
    <2> QED
      BY <1>15, <2>2, <2>3 DEF connectDirectoryAccount, TypeOK
  <1>16. ASSUME NEW c \in Callbacks, SignOut(c) PROVE BoundBy(j)
    <2>1. UNCHANGED <<account>>
      BY <1>16 DEF SignOut, OfFirm, OfUser, worldVars
    <2> QED
      BY <2>1 DEF BoundBy, Binds, Exact
  <1>17. ASSUME NEW f \in Firms, SetFirm(f) PROVE BoundBy(j)
    <2>1. UNCHANGED <<account>>
      BY <1>17 DEF SetFirm, OfFirm, OfUser, worldVars
    <2> QED
      BY <2>1 DEF BoundBy, Binds, Exact
  <1>18. ASSUME NEW f \in Firms, SetDomain(f) PROVE BoundBy(j)
    <2>1. UNCHANGED <<account>>
      BY <1>18 DEF SetDomain, OfFirm, OfUser, worldVars
    <2> QED
      BY <2>1 DEF BoundBy, Binds, Exact
  <1>19. ASSUME NEW f \in Firms, putSsoProvider(f) PROVE BoundBy(j)
    <2>1. UNCHANGED <<account>>
      BY <1>19 DEF putSsoProvider, OfFirm, OfUser, worldVars
    <2> QED
      BY <2>1 DEF BoundBy, Binds, Exact
  <1>20. ASSUME NEW f \in Firms, deleteSsoProvider(f) PROVE BoundBy(j)
    <2>1. UNCHANGED <<account>>
      BY <1>20 DEF deleteSsoProvider, OfFirm, OfUser, worldVars
    <2> QED
      BY <2>1 DEF BoundBy, Binds, Exact
  <1>21. ASSUME NEW f \in Firms, NEW u \in Users, RemoveMember(f, u) PROVE BoundBy(j)
    <2>1. UNCHANGED <<account>>
      BY <1>21 DEF RemoveMember, OfFirm, OfUser, worldVars
    <2> QED
      BY <2>1 DEF BoundBy, Binds, Exact
  <1>22. ASSUME NEW f \in Firms, NEW u \in Users, ReinstateMember(f, u) PROVE BoundBy(j)
    <2>1. UNCHANGED <<account>>
      BY <1>22 DEF ReinstateMember, OfFirm, OfUser, worldVars
    <2> QED
      BY <2>1 DEF BoundBy, Binds, Exact
  <1>23. ASSUME NEW f \in Firms, NEW p \in People, NEW u \in Users, importMembers(f, p, u)
    PROVE BoundBy(j)
    <2>1. UNCHANGED <<account>>
      BY <1>23 DEF importMembers, OfFirm, OfUser, worldVars
    <2> QED
      BY <2>1 DEF BoundBy, Binds, Exact
  <1>24. ASSUME NEW u \in Users, disableUser(u) PROVE BoundBy(j)
    <2>1. UNCHANGED <<account>>
      BY <1>24 DEF disableUser, OfFirm, OfUser, worldVars
    <2> QED
      BY <2>1 DEF BoundBy, Binds, Exact
  <1>25. ASSUME NEW u \in Users, enableUser(u) PROVE BoundBy(j)
    <2>1. UNCHANGED <<account>>
      BY <1>25 DEF enableUser, OfFirm, OfUser, worldVars
    <2> QED
      BY <2>1 DEF BoundBy, Binds, Exact
  <1>26. ASSUME NEW u \in Users, retireUserEmail(u) PROVE BoundBy(j)
    <2>1. UNCHANGED <<account>>
      BY <1>26 DEF retireUserEmail, OfFirm, OfUser, worldVars
    <2> QED
      BY <2>1 DEF BoundBy, Binds, Exact
  <1>27. ASSUME NEW u \in Users, eraseUser(u) PROVE BoundBy(j)
    <2>1. account[j] = NoAccount => account'[j] = NoAccount
      BY <1>27, DirectoryAssumption DEF eraseUser, NoAccount
    <2> QED
      BY <2>1 DEF BoundBy, Binds, Exact
  <1>28. CASE UNCHANGED vars
    BY <1>28 DEF BoundBy, Binds, Exact, vars, worldVars
  <1> QED
    BY <1>1, <1>2, <1>3, <1>4, <1>5, <1>6, <1>7, <1>8, <1>9, <1>10, <1>11, <1>12,
       <1>13, <1>14, <1>15, <1>16, <1>17, <1>18, <1>19, <1>20, <1>21, <1>22, <1>23, <1>24,
       <1>25, <1>26, <1>27, <1>28 DEF Next

\* At first the invariant holds.
LEMMA InvInit == Init => Inv
  <1> SUFFICES ASSUME Init PROVE Inv
    OBVIOUS
  <1>1. TypeOK
    <2>1. 1 \in Revisions /\ 0 \in 0 .. MaxMoves
      BY DirectoryAssumption DEF Revisions
    <2> QED
      BY <2>1, StandIns DEF Init, TypeOK
  <1>2. RevisionsAreCounted
    BY DEF Init, RevisionsAreCounted
  <1>3. \A c \in Callbacks : call[c].at = "new" /\ ~HasFlow(c) /\ request[c] = NoRequest /\ request[c].at = "idle"
    BY DEF Init, Fresh, HasFlow, NoRequest
  <1>4. CallsKeepTheirPlace
    BY <1>3 DEF Init, CallsKeepTheirPlace, At
  <1>5. FlowsAreConsumedOnce /\ FlowsServeTheirSession
    BY <1>3 DEF Init, FlowsAreConsumedOnce, FlowsServeTheirSession, NoFlow
  <1>6. LocksHold /\ ResolvedHolds /\ CheckedHolds
    BY <1>3 DEF LocksHold, ResolvedHolds, CheckedHolds, InTransaction, At
  <1>7. PeopleAreOnes /\ ErasedPeopleAreGone
    BY <1>3, DirectoryAssumption
    DEF Init, PeopleAreOnes, OneRequestAnAddress, OneAddressAPerson, AccountsArePeoples, Exact,
        UnbornHaveNothing, ErasedPeopleAreGone, NoAccount
  <1> QED
    BY <1>1, <1>2, <1>4, <1>5, <1>6, <1>7 DEF Inv, SessionsAreTheirs

\* Every step keeps the invariant.
LEMMA InvStep == Inv /\ [Next]_vars => Inv'
  <1> SUFFICES ASSUME Inv, [Next]_vars PROVE Inv'
    OBVIOUS
  <1>0. /\ TypeOK /\ RevisionsAreCounted /\ CallsKeepTheirPlace /\ FlowsAreConsumedOnce
        /\ LocksHold /\ ResolvedHolds /\ CheckedHolds /\ PeopleAreOnes
        /\ FlowsServeTheirSession /\ ErasedPeopleAreGone
        /\ OneRequestAnAddress /\ OneAddressAPerson /\ AccountsArePeoples /\ UnbornHaveNothing
    BY DEF Inv, SessionsAreTheirs, PeopleAreOnes
  <1>1. TypeOK' /\ RevisionsAreCounted'
    BY <1>0, TypeStep, CountStep
  <1>2. CallsKeepTheirPlace'
    BY <1>0, <1>1, PlaceStep
  <1>3. FlowsAreConsumedOnce'
    BY <1>0, <1>1, ConsumedStep
  <1>4. LocksHold'
    BY <1>0, <1>1, LocksStep
  <1>5. ResolvedHolds'
    BY <1>0, <1>1, ResolvedStep
  <1>6. CheckedHolds'
    BY <1>0, <1>1, CheckedStep
  <1>7. OneRequestAnAddress'
    BY <1>0, <1>1, RequestsStep
  <1>8. PeoplesThings'
    BY <1>0, <1>1, PeopleStep DEF PeoplesThings
  <1>9. FlowsServeTheirSession'
    BY <1>0, <1>1, <1>3, ServeStep
  <1>10. ErasedPeopleAreGone'
    BY <1>0, <1>1, GoneStep DEF ErasedPeopleAreGone, Gone
  <1> QED
    BY <1>1, <1>2, <1>3, <1>4, <1>5, <1>6, <1>7, <1>8, <1>9, <1>10
    DEF Inv, SessionsAreTheirs, PeopleAreOnes, PeoplesThings

\* The inductive invariant holds at every moment, for any firms, people, identities and callbacks.
THEOREM SignInInvariant == Spec => []Inv
  BY InvInit, InvStep, PTL DEF Spec

\* Every variable has its type at every moment, and revisions are bounded by the commands made.
THEOREM SignInTypeCorrect == Spec => []TypeOK
  <1>1. Inv => TypeOK
    BY DEF Inv
  <1> QED
    BY <1>1, SignInInvariant, PTL

\* A flow serves one callback, for the person whose session started it, and the same identity if
\* it proves who they are again; and nothing of an erased person can be used, though a sign-in
\* does not lock the person it signs in.
THEOREM SessionsServeTheirOwn == Spec => []SessionsAreTheirs
  <1>1. Inv => SessionsAreTheirs
    BY DEF Inv
  <1> QED
    BY <1>1, SignInInvariant, PTL

\* No step moves an identity, revives it, or binds a directory's user twice.
LEMMA StayStep ==
  ASSUME Inv, [Next]_vars, NEW i \in Identities
  PROVE IF Exact(i)
        THEN /\ account'[i].user = account[i].user /\ account'[i].row = account[i].row
             /\ account'[i].live => account[i].live
        ELSE account'[i] # NoAccount =>
               \A j \in Identities : Home[j] = Home[i] /\ Person[j] = Person[i] => ~Exact(j)
  <1>1. Kept(i) /\ BoundBy(i)
    BY IdentitiesKept, BindingsStep DEF Inv
  <1> QED
    BY <1>1 DEF Kept, BoundBy, Binds, SameKeys

\* A step that links an identity does it for a session that authenticates its person then.
LEMMA LinkStep ==
  ASSUME Inv, [Next]_vars, NEW i \in Identities, NEW c \in Callbacks,
         Binds(i), Links(c, i), call'[c].at = "in"
  PROVE LET s == call[c].flow IN
        /\ account'[i].user = session[s].user
        /\ tenantAuthentication(s, FALSE)
        /\ directory[FirmOf(s)].revision = flow[s].revision
        /\ Home[i] = flow[s].target /\ firm[Home[i]] /\ domain[Home[i]]
        /\ directory[Home[i]] = [row |-> flow[s].goal, revision |-> flow[s].aim, live |-> TRUE]
        /\ member[Home[i]][session[s].user] # "revoked"
  <1>0. TypeOK /\ CallsKeepTheirPlace /\ LocksHold /\ ResolvedHolds
    BY DEF Inv
  <1>1. /\ At(c, {"resolved"}) /\ call[c].identity = i /\ call[c].binds = "link"
    BY DEF Links
  <1>2. PICK u \in Users : Admit(c, u)
    <2>1. TypeOK'
      BY InvStep DEF Inv
    <2>2. Ends(c)
      BY <1>0, <2>1, CallbacksEnd
    <2> QED
      BY <1>1, <2>2 DEF Ends, At
  <1>3. /\ firm[Home[i]] /\ domain[Home[i]] /\ Verified(c) /\ HasFlow(c) /\ flow[call[c].flow].purpose = "link"
        /\ call[c].user = session[call[c].flow].user
    BY <1>0, <1>1 DEF ResolvedHolds, FirmOf, Linking, Flow
  <1>4. account'[i].user = session[call[c].flow].user
    BY <1>0, <1>1, <1>2, <1>3 DEF Admit, TypeOK
  <1>5. current(call[c].flow)
    BY <1>0, <1>1, <1>3 DEF LocksHold, InTransaction, At
  <1>6. Home[i] = flow[call[c].flow].target
    BY <1>1, <1>3 DEF Verified, FirmOf, Flow
  <1> QED
    BY <1>3, <1>4, <1>5, <1>6 DEF current, tenantAuthentication, membershipRevoked

\* A step that binds an identity to a person who existed links it, or proves their mailbox.
LEMMA ReachStep ==
  ASSUME Inv, [Next]_vars, NEW i \in Identities, Binds(i), user[account'[i].user] # "unborn"
  PROVE LET u == account'[i].user IN
        \/ \E c \in Callbacks : Links(c, i) /\ call'[c].at = "in"
        \/ /\ holder[Person[i]] = u /\ user[u] = "active" /\ member[Home[i]][u] = "effective"
           /\ firm[Home[i]] /\ domain[Home[i]]
           /\ \A j \in Identities : account[j].user # u
           /\ \E c \in Callbacks :
                /\ Connecting(c) /\ call[c].identity = i
                /\ directory[Home[i]] =
                     [row |-> request[c].row, revision |-> request[c].revision, live |-> TRUE]
  <1>0. TypeOK /\ ResolvedHolds /\ CheckedHolds /\ BoundBy(i)
    BY BindingsStep DEF Inv
  <1>1. PICK c \in Callbacks :
          \/ /\ At(c, {"resolved"}) /\ call[c].identity = i /\ call[c].binds # "known"
             /\ Stands(c) /\ \E u \in Users : Admit(c, u) /\ account'[i].user = u
          \/ /\ request[c].at = "checked" /\ call[c].identity = i
             /\ account'[i].user = request[c].seen
    BY <1>0 DEF BoundBy
  <1>2. CASE /\ At(c, {"resolved"}) /\ call[c].identity = i /\ call[c].binds # "known"
             /\ Stands(c) /\ \E u \in Users : Admit(c, u) /\ account'[i].user = u
    <2>1. PICK u \in Users : Admit(c, u) /\ account'[i].user = u
      BY <1>2
    <2>2. call[c].binds # "create"
      BY <2>1 DEF Admit
    <2>3. Links(c, i)
      BY <1>0, <1>2, <2>2 DEF ResolvedHolds, Links
    <2>4. call'[c].at = "in"
      <3>1. Ended(c, "in").at = "in"
        BY DEF Ended, Fresh
      <3> QED
        BY <1>0, <2>1, <3>1 DEF Admit, TypeOK
    <2> QED
      BY <2>3, <2>4
  <1>3. CASE /\ request[c].at = "checked" /\ call[c].identity = i
             /\ account'[i].user = request[c].seen
    BY <1>0, <1>3 DEF CheckedHolds, holderAwaitingDirectory, FirmOf, AddressOf, Connecting
  <1> QED
    BY <1>1, <1>2, <1>3

\* No identity is bound to a person who existed but by their own session or their own mailbox,
\* and it is bound once, whatever sign-ins, links, mailbox proofs and commands race for it.
THEOREM EveryBindingIsProved == Spec => BindingsAreProved
  <1>1. Inv /\ [Next]_vars =>
          [\A i \in Identities :
             IF Exact(i)
             THEN /\ account'[i].user = account[i].user /\ account'[i].row = account[i].row
                  /\ account'[i].live => account[i].live
             ELSE account'[i] # NoAccount =>
                    \A j \in Identities : Home[j] = Home[i] /\ Person[j] = Person[i] => ~Exact(j)]_vars
    BY StayStep
  <1>2. Inv /\ [Next]_vars =>
          [\A i \in Identities, c \in Callbacks : Binds(i) /\ Links(c, i) /\ call'[c].at = "in" =>
             LET s == call[c].flow IN
             /\ account'[i].user = session[s].user
             /\ tenantAuthentication(s, FALSE)
             /\ directory[FirmOf(s)].revision = flow[s].revision
             /\ Home[i] = flow[s].target /\ firm[Home[i]] /\ domain[Home[i]]
             /\ directory[Home[i]] = [row |-> flow[s].goal, revision |-> flow[s].aim, live |-> TRUE]
             /\ member[Home[i]][session[s].user] # "revoked"]_vars
    BY LinkStep
  <1>3. Inv /\ [Next]_vars =>
          [\A i \in Identities : Binds(i) /\ user[account'[i].user] # "unborn" =>
             LET u == account'[i].user IN
             \/ \E c \in Callbacks : Links(c, i) /\ call'[c].at = "in"
             \/ /\ holder[Person[i]] = u /\ user[u] = "active" /\ member[Home[i]][u] = "effective"
                /\ firm[Home[i]] /\ domain[Home[i]]
                /\ \A j \in Identities : account[j].user # u
                /\ \E c \in Callbacks :
                     /\ Connecting(c) /\ call[c].identity = i
                     /\ directory[Home[i]] =
                          [row |-> request[c].row, revision |-> request[c].revision, live |-> TRUE]]_vars
    BY ReachStep
  <1>4. Spec => IdentitiesStay
    BY <1>1, SignInInvariant, PTL DEF Spec, IdentitiesStay
  <1>5. Spec => LinksAreProved
    BY <1>2, SignInInvariant, PTL DEF Spec, LinksAreProved
  <1>6. Spec => ConnectionsReachHolders
    BY <1>3, SignInInvariant, PTL DEF Spec, ConnectionsReachHolders
  <1> QED
    BY <1>4, <1>5, <1>6 DEF BindingsAreProved

\* A step that makes a session makes it of what stands.
LEMMA SessionStep ==
  ASSUME Inv, [Next]_vars, NEW c \in Callbacks, session'[c] # NoSession, session[c] = NoSession
  PROVE LET x == session'[c]
            f == FirmOf(c)
            a == account'[call[c].identity]
        IN /\ a.live /\ a.user = x.user
           /\ directory[f] = [row |-> call[c].row, revision |-> x.revision, live |-> TRUE]
           /\ firm[f] /\ domain[f] /\ member'[f][x.user] = "effective"
           /\ user'[x.user] # "erased"
  <1>0. TypeOK /\ CallsKeepTheirPlace /\ LocksHold /\ ResolvedHolds /\ ErasedPeopleAreGone /\ UnbornHaveNothing
        /\ TypeOK' /\ CallsKeepTheirPlace'
    BY InvStep DEF Inv, SessionsAreTheirs, PeopleAreOnes
  <1>1. At(c, {"in"})' /\ ~At(c, {"in"})
    BY <1>0 DEF CallsKeepTheirPlace
  <1>2. At(c, {"resolved"}) /\ Stands(c) /\ \E u \in Users : Admit(c, u)
    BY <1>0, <1>1, CallbacksEnd DEF Ends
  <1>3. PICK u \in Users : Admit(c, u)
    BY <1>2
  <1>4. PICK i \in Identities : i = call[c].identity
    BY <1>0 DEF TypeOK, Calls
  <1>5. FirmOf(c) = Home[i] /\ Home[i] \in Firms
    BY <1>4, DirectoryAssumption DEF FirmOf
  <1>6. session'[c] = [user |-> u, row |-> directory[Home[i]].row, revision |-> directory[Home[i]].revision,
                       live |-> TRUE]
    BY <1>0, <1>3, <1>4 DEF Admit, TypeOK
  <1>7. directory[Home[i]] = [row |-> call[c].row, revision |-> directory[Home[i]].revision, live |-> TRUE]
    <2>1. directory[Home[i]] \in [row : Revisions, revision : Revisions, live : BOOLEAN]
      BY <1>0, <1>5 DEF TypeOK
    <2>2. directory[Home[i]].live /\ directory[Home[i]].row = call[c].row
      BY <1>0, <1>2, <1>5 DEF LocksHold, InTransaction, At
    <2> QED
      BY <2>1, <2>2
  <1>8. /\ firm[Home[i]] /\ domain[Home[i]] /\ Verified(c) /\ call[c].binds \in {"known", "link", "create"}
    BY <1>0, <1>2, <1>5 DEF ResolvedHolds
  <1>9. account'[i].live /\ account'[i].user = u
    <2>1. CASE call[c].binds = "known"
      BY <1>2, <1>3, <1>4, <2>1 DEF Admit, Stands
    <2>2. CASE call[c].binds # "known"
      BY <1>0, <1>3, <1>4, <2>2 DEF Admit, TypeOK
    <2> QED
      BY <2>1, <2>2
  <1>10. member'[Home[i]][u] = IF member[Home[i]][u] = "none" THEN "effective" ELSE member[Home[i]][u]
    BY <1>0, <1>3, <1>4, <1>5 DEF Admit, provisionMembership, TypeOK
  <1>11. member[Home[i]][u] # "revoked" /\ user'[u] # "erased"
    <2>1. CASE call[c].binds = "known"
      <3>1. account[i].live /\ account[i].user = u /\ ~membershipRevoked(Home[i], u)
        BY <1>0, <1>2, <1>3, <1>4, <1>5, <2>1 DEF Admit, Stands, ResolvedHolds
      <3>2. user[u] # "erased" /\ user' = user
        BY <1>0, <1>3, <2>1, <3>1 DEF ErasedPeopleAreGone, Admit
      <3> QED
        BY <3>1, <3>2 DEF membershipRevoked
    <2>2. CASE call[c].binds = "link"
      <3>1. u = session[call[c].flow].user /\ HasFlow(c) /\ user' = user
        BY <1>0, <1>2, <1>3, <2>2 DEF Admit, ResolvedHolds, Linking
      <3>2. current(call[c].flow) /\ Home[i] = flow[call[c].flow].target
        BY <1>0, <1>2, <1>5, <1>8, <3>1 DEF LocksHold, InTransaction, At, Verified, Flow
      <3> QED
        BY <3>1, <3>2 DEF current, tenantAuthentication, membershipRevoked
    <2>3. CASE call[c].binds = "create"
      <3>1. user[u] = "unborn" /\ user' = [user EXCEPT ![u] = "active"]
        BY <1>3, <2>3 DEF Admit
      <3> QED
        BY <1>0, <1>5, <3>1 DEF UnbornHaveNothing, TypeOK
    <2> QED
      BY <1>8, <2>1, <2>2, <2>3
  <1>12. member'[Home[i]][u] = "effective"
    <2>1. member[Home[i]][u] \in {"none", "effective", "revoked"}
      BY <1>0, <1>5 DEF TypeOK
    <2> QED
      BY <1>10, <1>11, <2>1
  <1> QED
    BY <1>4, <1>5, <1>6, <1>7, <1>8, <1>9, <1>11, <1>12

\* A session is made only while its account, provider, firm, domain and membership stand: what
\* beforeTransaction and resolve read is so when Commit inserts the session.
THEOREM SessionsStand == Spec => SessionsStandWhenMade
  <1>1. Inv /\ [Next]_vars =>
          [\A c \in Callbacks : session'[c] # NoSession /\ session[c] = NoSession =>
             LET x == session'[c]
                 f == FirmOf(c)
                 a == account'[call[c].identity]
             IN /\ a.live /\ a.user = x.user
                /\ directory[f] = [row |-> call[c].row, revision |-> x.revision, live |-> TRUE]
                /\ firm[f] /\ domain[f] /\ member'[f][x.user] = "effective"
                /\ user'[x.user] # "erased"]_vars
    BY SessionStep
  <1> QED
    BY <1>1, SignInInvariant, PTL DEF Spec, SessionsStandWhenMade

==============================================================================
