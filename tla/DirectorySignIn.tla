--------------------------- MODULE DirectorySignIn ---------------------------
(***************************************************************************)
(* Signing in through an organisation's directory (apps/id/src/auth,       *)
(* services/federation.ts): a callback binds or finds an account, under a  *)
(* flow started by a session (link another identity, reauthenticate) or    *)
(* under none, and ends in a session; an identity refused because its      *)
(* address is somebody's is connected by proving the mailbox.              *)
(*                                                                         *)
(* A callback reads its directory's configuration, talks to the directory  *)
(* with no lock held, and then runs one transaction.  Locks follow from    *)
(* where a transaction is; a command is one step that waits for them.      *)
(* What the wait for a lock or an await lets in is a step of its own.      *)
(*                                                                         *)
(* An identity is an issuer and subject; Home is the firm whose directory  *)
(* and domain it belongs to, Person the directory's own id of its user,    *)
(* which is also the address it asserts.  Every check of time (a flow's    *)
(* five minutes, a recent proof), of claims and of the directory's answer  *)
(* may fail at any moment: GiveUp.  Left out: windows of membership,       *)
(* a directory that changes its issuer, an issuer that two firms share     *)
(* (an identity has one Home), accounts by magic link, sends and codes     *)
(* (MagicLink).                                                            *)
(***************************************************************************)
EXTENDS Naturals, FiniteSets

CONSTANTS
  Firms, Users, Callbacks,
  Identities,   \* what directories assert
  People,       \* the directories' own users, one address each
  Home, Person, \* of each identity
  Nobody,       \* no user, no callback
  MaxMoves      \* bound: how many commands are made

ASSUME DirectoryAssumption ==
  /\ Identities # {} /\ Home \in [Identities -> Firms] /\ Person \in [Identities -> People]
  /\ Nobody \notin Users \cup Callbacks /\ MaxMoves \in Nat

VARIABLES
  firm,       \* whether each firm is active
  domain,     \* whether it holds the domain of its people
  directory,  \* its provider: which row, at what revision, live or deleted
  user,       \* each user's state
  holder,     \* the user who holds each address
  account,    \* each identity's account
  member,     \* each user's membership of each firm
  session,    \* the session each callback ended in
  flow,       \* the flow each session has started
  call,       \* each callback
  request,    \* each refused callback's request to connect
  moves

worldVars == <<firm, domain, directory, user, holder, account, member>>
vars == <<worldVars, session, flow, call, request, moves>>

NoAccount == [user |-> Nobody, row |-> 0, live |-> FALSE]
NoSession == [user |-> Nobody, row |-> 0, revision |-> 0, live |-> FALSE]
NoFlow == [purpose |-> "none", status |-> "none", row |-> 0, revision |-> 0,
           target |-> CHOOSE f \in Firms : TRUE, goal |-> 0, aim |-> 0]
NoRequest == [status |-> "none", row |-> 0, revision |-> 0, at |-> "idle", seen |-> Nobody]
Fresh == [at |-> "new", identity |-> CHOOSE i \in Identities : TRUE, row |-> 0, revision |-> 0,
          flow |-> Nobody, binds |-> "none", user |-> Nobody]

Init ==
  /\ firm = [f \in Firms |-> TRUE] /\ domain = [f \in Firms |-> TRUE]
  /\ directory = [f \in Firms |-> [row |-> 1, revision |-> 1, live |-> TRUE]]
  /\ user = [u \in Users |-> "unborn"] /\ holder = [p \in People |-> Nobody]
  /\ account = [i \in Identities |-> NoAccount]
  /\ member = [f \in Firms |-> [u \in Users |-> "none"]]
  /\ session = [c \in Callbacks |-> NoSession] /\ flow = [c \in Callbacks |-> NoFlow]
  /\ call = [c \in Callbacks |-> Fresh] /\ request = [c \in Callbacks |-> NoRequest]
  /\ moves = 0

(***************************************************************************)
(* Locks                                                                   *)
(***************************************************************************)
At(c, places) == call[c].at \in places
InTransaction(c) == At(c, {"locked", "resolved"})
FirmOf(c) == Home[call[c].identity]
AddressOf(c) == Person[call[c].identity]
Flow(c) == flow[call[c].flow]
HasFlow(c) == call[c].flow # Nobody

\* A callback holds its provider, under its firm; a flow's both firms, both providers, its user.
FirmsHeld(c) == {FirmOf(c)} \cup (IF HasFlow(c) THEN {FirmOf(call[c].flow), Flow(c).target} ELSE {})
UsersHeld(c) == IF HasFlow(c) THEN {session[call[c].flow].user} ELSE {}
Connecting(c) == request[c].at \in {"locked", "checked"}

\* Mutant: a sign-in's transaction does not lock the firm.
UnlockedFirmFree(f) == \A c \in Callbacks : Connecting(c) => FirmOf(c) # f
FirmFree(f) ==
  \A c \in Callbacks : /\ InTransaction(c) => f \notin FirmsHeld(c)
                       /\ Connecting(c) => FirmOf(c) # f
ProviderFree(f) == \A c \in Callbacks : InTransaction(c) => f \notin FirmsHeld(c)
\* Mutant: a connection does not lock the address's holder.
UnsharedUserFree(u) == \A c \in Callbacks : InTransaction(c) => u \notin UsersHeld(c)
UserFree(u) ==
  \A c \in Callbacks : /\ InTransaction(c) => u \notin UsersHeld(c)
                       /\ Connecting(c) => request[c].seen # u
AddressFree(p) == \A c \in Callbacks : request[c].at # "idle" => AddressOf(c) # p

(***************************************************************************)
(* What the transactions check                                             *)
(***************************************************************************)
membershipRevoked(f, u) == member[f][u] = "revoked"

\* A session still authenticates its user: everything it rests on stands.
tenantAuthentication(s, reauthentication) ==
  LET x == session[s]
      f == FirmOf(s)
      a == account[call[s].identity]
  IN /\ x.live /\ user[x.user] = "active"
     /\ a.live /\ a.user = x.user
     /\ directory[f].live /\ x.row = directory[f].row /\ a.row = x.row
     /\ reauthentication \/ x.revision = directory[f].revision
     /\ firm[f] /\ member[f][x.user] = "effective"

current(s) ==
  LET x == flow[s] IN
  /\ tenantAuthentication(s, x.purpose = "reauthenticate")
  /\ directory[FirmOf(s)].revision = x.revision /\ session[s].row = x.row
  /\ directory[x.target] = [row |-> x.goal, revision |-> x.aim, live |-> TRUE] /\ firm[x.target]
  /\ ~membershipRevoked(x.target, session[s].user)

\* An identity is bound by its issuer and subject, and by the directory's own id of its user.
Exact(i) == account[i] # NoAccount
SameKeys(i) == {j \in Identities : Home[j] = Home[i] /\ Person[j] = Person[i] /\ Exact(j)}

\* Who holds an address and has no account yet.  Accounts are of directories here: in the code
\* one by the firm's own magic link does not count either, and one of another firm's, which
\* refuses the holder, is left out, so more holders may connect here than there.
holderAwaitingDirectory(f, p) ==
  LET u == holder[p] IN
  /\ u # Nobody /\ user[u] = "active" /\ member[f][u] = "effective"
  /\ \A i \in Identities : account[i].user # u

(***************************************************************************)
(* Flows                                                                   *)
(***************************************************************************)
\* A session asks to link an identity of the target's directory, or to prove its own again.
Start(s, purpose, target) ==
  LET started == [purpose |-> purpose, status |-> "stored", row |-> session[s].row,
                  revision |-> directory[FirmOf(s)].revision, target |-> target,
                  goal |-> directory[target].row, aim |-> directory[target].revision]
  IN /\ session[s].live /\ flow[s] = NoFlow
     /\ purpose = "reauthenticate" => target = FirmOf(s)
     /\ \A c \in Callbacks : InTransaction(c) => session[s].user \notin UsersHeld(c)
     /\ ProviderFree(FirmOf(s))
     /\ directory[target].live /\ firm[target]
     /\ tenantAuthentication(s, purpose = "reauthenticate")
     /\ ~membershipRevoked(target, session[s].user)
     /\ flow' = [flow EXCEPT ![s] = started]
     /\ UNCHANGED <<worldVars, session, call, request, moves>>

(***************************************************************************)
(* Callbacks                                                               *)
(***************************************************************************)
\* A browser returns from its directory, and the configuration is read.
Return(c, i) ==
  /\ At(c, {"new"}) /\ directory[Home[i]].live
  /\ call' = [call EXCEPT ![c] = [Fresh EXCEPT !.at = "exchange", !.identity = i,
                !.row = directory[Home[i]].row, !.revision = directory[Home[i]].revision]]
  /\ UNCHANGED <<worldVars, session, flow, request, moves>>

\* Mutant: the flow is read, and not consumed.
RereadObserve(c, i, s) ==
  /\ At(c, {"new"}) /\ directory[Home[i]].live
  /\ flow[s].status = "stored" /\ session[s].live
  /\ call' = [call EXCEPT ![c] = [Fresh EXCEPT !.at = "exchange", !.identity = i, !.flow = s,
                !.row = directory[Home[i]].row, !.revision = directory[Home[i]].revision]]
  /\ UNCHANGED <<worldVars, session, flow, request, moves>>
\* ... in a flow, which its state names, whose session the browser has, and which it consumes.
observe(c, i, s) ==
  /\ At(c, {"new"}) /\ directory[Home[i]].live
  /\ flow[s].status = "stored" /\ session[s].live
  /\ call' = [call EXCEPT ![c] = [Fresh EXCEPT !.at = "exchange", !.identity = i, !.flow = s,
                !.row = directory[Home[i]].row, !.revision = directory[Home[i]].revision]]
  /\ flow' = [flow EXCEPT ![s].status = "consumed"]
  /\ UNCHANGED <<worldVars, session, request, moves>>

\* The flow is another session's: it is consumed, and nothing comes of it.
ObserveAnothers(c, s) ==
  /\ At(c, {"new"}) /\ flow[s].status = "stored"
  /\ flow' = [flow EXCEPT ![s].status = "consumed"]
  /\ call' = [call EXCEPT ![c].at = "refused"]
  /\ UNCHANGED <<worldVars, session, request, moves>>

\* A callback that ends keeps what it was of, and forgets what it read.
Ended(c, at) == [Fresh EXCEPT !.at = at, !.identity = call[c].identity, !.flow = call[c].flow]
Refused(c) == call' = [call EXCEPT ![c] = Ended(c, "refused")]

\* Nobody holds what the callback's transaction locks.
ProviderLocked(c) ==
  \A d \in Callbacks \ {c} :
    /\ InTransaction(d) =>
         FirmsHeld(d) \cap FirmsHeld(c) = {} /\ UsersHeld(d) \cap UsersHeld(c) = {}
    /\ Connecting(d) => FirmOf(d) \notin FirmsHeld(c) /\ request[d].seen \notin UsersHeld(c)

\* The transaction begins: a flow's locks and its checks under them, then the provider's.  A
\* provider that became another row is refused; one reconfigured may be, if what is compared
\* of it changed, which is a GiveUp.
beforeTransaction(c) ==
  LET d == directory[FirmOf(c)] IN
  /\ At(c, {"exchange"}) /\ ProviderLocked(c)
  /\ IF (HasFlow(c) => current(call[c].flow)) /\ d.live /\ d.row = call[c].row
     THEN call' = [call EXCEPT ![c].at = "locked"]
     ELSE Refused(c)
  /\ UNCHANGED <<worldVars, session, flow, request, moves>>

\* What a flow asks of the identity that came: the target's, and to reauthenticate, the same.
Linking(c) == HasFlow(c) /\ Flow(c).purpose = "link"
Verified(c) ==
  HasFlow(c) => /\ FirmOf(c) = Flow(c).target
                /\ Linking(c) \/ call[c].identity = call[call[c].flow].identity

\* Whose the identity is, by what is read before anything is written.
resolveFederatedUser(c) ==
  LET i == call[c].identity
      f == Home[i]
      a == account[i]
      known == /\ a.live /\ user[a.user] = "active" /\ ~membershipRevoked(f, a.user)
               /\ a.row = directory[f].row
  IN IF ~firm[f] \/ ~domain[f] THEN "refused"
     ELSE IF Exact(i) THEN IF known /\ ~Linking(c) THEN "known" ELSE "refused"
     ELSE IF SameKeys(i) # {} THEN "refused"
     ELSE IF Linking(c) THEN "link"
     ELSE IF holder[Person[i]] = Nobody THEN "create" ELSE "conflict"

resolve(c) ==
  LET found == IF Verified(c) THEN resolveFederatedUser(c) ELSE "refused"
      f == FirmOf(c)
      owner == CASE found = "known" -> account[call[c].identity].user
                 [] found = "link" -> session[call[c].flow].user
                 [] OTHER -> Nobody
  IN /\ At(c, {"locked"})
     /\ IF found = "refused" THEN Refused(c)
        ELSE call' = [call EXCEPT ![c] = [@ EXCEPT
               !.at = IF found = "conflict" THEN "noted" ELSE "resolved",
               !.binds = found, !.user = owner, !.revision = directory[f].revision]]
     /\ UNCHANGED <<worldVars, session, flow, request, moves>>

\* What is missing is inserted, which an address or identity taken meanwhile fails, and then the
\* session, whose trigger demands a live account of this user and this provider.
Stands(c) ==
  LET i == call[c].identity IN
  CASE call[c].binds = "known" -> account[i].live /\ account[i].user = call[c].user
    [] call[c].binds = "link" -> SameKeys(i) = {}
    [] OTHER -> SameKeys(i) = {} /\ holder[Person[i]] = Nobody

\* A membership that exists is left as it is.
provisionMembership(f, u) ==
  member' = [member EXCEPT ![f][u] = IF @ = "none" THEN "effective" ELSE @]

Admit(c, u) ==
  LET i == call[c].identity
      f == Home[i]
      creates == call[c].binds = "create"
  IN /\ IF creates THEN user[u] = "unborn" ELSE u = call[c].user
     /\ IF creates
        THEN /\ user' = [user EXCEPT ![u] = "active"]
             /\ holder' = [holder EXCEPT ![Person[i]] = u]
        ELSE UNCHANGED <<user, holder>>
     /\ account' = IF call[c].binds = "known" THEN account
                   ELSE [account EXCEPT ![i] =
                           [user |-> u, row |-> directory[f].row, live |-> TRUE]]
     /\ provisionMembership(f, u)
     /\ session' = [session EXCEPT ![c] = [user |-> u, row |-> directory[f].row,
                      revision |-> directory[f].revision, live |-> TRUE]]
     /\ call' = [call EXCEPT ![c] = Ended(c, "in")]
     /\ UNCHANGED <<firm, domain, directory>>

Commit(c) ==
  /\ At(c, {"resolved"})
  /\ IF Stands(c) THEN \E u \in Users : Admit(c, u) ELSE Refused(c) /\ UNCHANGED <<worldVars, session>>
  /\ UNCHANGED <<flow, request, moves>>

\* The directory, its claims, the time or the process fail the callback; nothing was committed.
GiveUp(c) ==
  /\ At(c, {"exchange", "locked", "resolved"}) /\ Refused(c)
  /\ UNCHANGED <<worldVars, session, flow, request, moves>>

(***************************************************************************)
(* Connecting a refused identity by its mailbox                            *)
(***************************************************************************)
\* The refused browser asks: under the address's lock, could its holder connect?
reserveConnection(c) ==
  /\ At(c, {"noted"}) /\ request[c].at = "idle" /\ AddressFree(AddressOf(c))
  /\ \/ /\ holderAwaitingDirectory(FirmOf(c), AddressOf(c))
        /\ request' = [request EXCEPT ![c].at = "asking"]
        /\ UNCHANGED call
     \/ /\ ~holderAwaitingDirectory(FirmOf(c), AddressOf(c))
        /\ Refused(c) /\ UNCHANGED request
  /\ UNCHANGED <<worldVars, session, flow, moves>>
\* Then the row is inserted and its code sent, or a limit or the send stops it.  An erasure may
\* have come between: it takes no lock of the address.
InsertRequest(c) ==
  /\ request[c].at = "asking" /\ Refused(c)
  /\ \/ request' = [request EXCEPT ![c] = [NoRequest EXCEPT !.status = "sent",
                       !.row = call[c].row, !.revision = call[c].revision]]
     \/ request' = [request EXCEPT ![c] = NoRequest]
  /\ UNCHANGED <<worldVars, session, flow, moves>>

\* The row's life or its send ends.
Expire(c) ==
  /\ request[c].status = "sent" /\ ~Connecting(c)
  /\ request' = [request EXCEPT ![c] =
       IF @.at = "idle" THEN NoRequest ELSE [@ EXCEPT !.status = "none"]]
  /\ UNCHANGED <<worldVars, session, flow, call, moves>>

\* The right code was posted: the address is locked, and its holder read, who is not yet locked.
HoldAddress(c) ==
  /\ request[c].status = "sent" /\ request[c].at = "idle" /\ AddressFree(AddressOf(c))
  /\ request' = [request EXCEPT ![c].at = "held", ![c].seen = holder[AddressOf(c)]]
  /\ UNCHANGED <<worldVars, session, flow, call, moves>>

\* Then shares of the holder, the firm and the provider, and the row.
LockConnection(c) ==
  /\ request[c].at = "held" /\ ProviderFree(FirmOf(c))
  /\ \A d \in Callbacks : InTransaction(d) => request[c].seen \notin UsersHeld(d)
  /\ request' = [request EXCEPT ![c].at = "locked"]
  /\ UNCHANGED <<worldVars, session, flow, call, moves>>

\* Everything is read again under the locks; a refusal ends the row.
CheckConnection(c) ==
  LET f == FirmOf(c)
      p == AddressOf(c)
      r == request[c]
      may == /\ r.status = "sent"
             /\ directory[f] = [row |-> r.row, revision |-> r.revision, live |-> TRUE]
             /\ firm[f] /\ domain[f]
             /\ r.seen # Nobody /\ holder[p] = r.seen /\ holderAwaitingDirectory(f, p)
  IN /\ r.at = "locked"
     /\ request' = [request EXCEPT ![c] = IF may THEN [r EXCEPT !.at = "checked"] ELSE NoRequest]
     /\ UNCHANGED <<worldVars, session, flow, call, moves>>
\* The account is inserted unless its identity is taken, and the row ends.
connectDirectoryAccount(c) ==
  LET i == call[c].identity
      r == request[c]
  IN /\ r.at = "checked"
     /\ account' = IF SameKeys(i) # {} THEN account
                   ELSE [account EXCEPT ![i] = [user |-> r.seen, row |-> r.row, live |-> TRUE]]
     /\ request' = [request EXCEPT ![c] = NoRequest]
     /\ UNCHANGED <<firm, domain, directory, user, holder, member, session, flow, call, moves>>

(***************************************************************************)
(* Commands, each one step that waits for the locks it takes               *)
(***************************************************************************)
Move == moves < MaxMoves /\ moves' = moves + 1
OfFirm(f) == Move /\ FirmFree(f) /\ UNCHANGED <<flow, call, session, request>>
OfUser(u) == Move /\ UserFree(u) /\ user[u] \notin {"unborn", "erased"} /\ UNCHANGED <<flow, call>>

SetFirm(f) ==
  /\ OfFirm(f) /\ firm' = [firm EXCEPT ![f] = ~@]
  /\ UNCHANGED <<domain, directory, user, holder, account, member>>
SetDomain(f) ==
  /\ OfFirm(f) /\ domain' = [domain EXCEPT ![f] = ~@]
  /\ UNCHANGED <<firm, directory, user, holder, account, member>>

\* A live provider is changed in place; after a deletion another row is made, of another id.
putSsoProvider(f) ==
  LET d == directory[f] IN
  /\ OfFirm(f)
  /\ directory' = [directory EXCEPT ![f] =
       IF d.live THEN [d EXCEPT !.revision = d.revision + 1]
       ELSE [row |-> d.row + 1, revision |-> 1, live |-> TRUE]]
  /\ UNCHANGED <<firm, domain, user, holder, account, member>>
deleteSsoProvider(f) ==
  /\ OfFirm(f) /\ directory[f].live
  /\ directory' = [directory EXCEPT ![f].live = FALSE, ![f].revision = @ + 1]
  /\ UNCHANGED <<firm, domain, user, holder, account, member>>

\* Mutant: a removal writes a state that a sign-in does not know.
RemovedMember(f, u) ==
  /\ OfFirm(f) /\ member[f][u] = "effective"
  /\ member' = [member EXCEPT ![f][u] = "removed"]
  /\ UNCHANGED <<firm, domain, directory, user, holder, account>>
RemoveMember(f, u) ==
  /\ OfFirm(f) /\ member[f][u] = "effective"
  /\ member' = [member EXCEPT ![f][u] = "revoked"]
  /\ UNCHANGED <<firm, domain, directory, user, holder, account>>
ReinstateMember(f, u) ==
  /\ OfFirm(f) /\ member[f][u] = "revoked" /\ user[u] # "erased"
  /\ member' = [member EXCEPT ![f][u] = "effective"]
  /\ UNCHANGED <<firm, domain, directory, user, holder, account>>

\* Staff list an address: its holder becomes a member, or a new person does.  The firm is
\* shared, so that sign-ins go on meanwhile; they take no lock of the address.
importMembers(f, p, u) ==
  /\ Move /\ AddressFree(p) /\ domain[f] /\ \E i \in Identities : Home[i] = f /\ Person[i] = p
  /\ \A c \in Callbacks : InTransaction(c) => holder[p] \notin UsersHeld(c)
  /\ \/ /\ holder[p] = Nobody /\ user[u] = "unborn"
        /\ user' = [user EXCEPT ![u] = "active"] /\ holder' = [holder EXCEPT ![p] = u]
     \/ /\ holder[p] = u /\ user[u] = "active" /\ member[f][u] = "none"
        /\ \A i \in Identities : account[i].user = u => Home[i] = f
        /\ UNCHANGED <<user, holder>>
  /\ member' = [member EXCEPT ![f][u] = "effective"]
  /\ UNCHANGED <<firm, domain, directory, account, session, flow, call, request>>

EndSessions(u) ==
  session' = [c \in Callbacks |-> IF session[c].user = u THEN [session[c] EXCEPT !.live = FALSE]
                                  ELSE session[c]]
\* The address is nobody's, and what was asked of it is deleted.
ReleaseAddress(u) ==
  /\ holder' = [p \in People |-> IF holder[p] = u THEN Nobody ELSE holder[p]]
  /\ request' = [c \in Callbacks |->
       IF holder[AddressOf(c)] # u THEN request[c]
       ELSE IF request[c].at = "idle" THEN NoRequest
       ELSE [request[c] EXCEPT !.status = "none"]]

disableUser(u) ==
  /\ OfUser(u) /\ user[u] # "retired" /\ user' = [user EXCEPT ![u] = "disabled"] /\ EndSessions(u)
  /\ UNCHANGED <<firm, domain, directory, holder, account, member, request>>
enableUser(u) ==
  /\ OfUser(u) /\ user[u] = "disabled" /\ user' = [user EXCEPT ![u] = "active"]
  /\ UNCHANGED <<firm, domain, directory, holder, account, member, session, request>>
retireUserEmail(u) ==
  /\ OfUser(u) /\ user[u] = "disabled" /\ user' = [user EXCEPT ![u] = "retired"]
  /\ ReleaseAddress(u)
  /\ UNCHANGED <<firm, domain, directory, account, member, session>>
eraseUser(u) ==
  /\ OfUser(u) /\ user' = [user EXCEPT ![u] = "erased"] /\ EndSessions(u) /\ ReleaseAddress(u)
  /\ account' = [i \in Identities |-> IF account[i].user = u THEN [account[i] EXCEPT !.live = FALSE]
                                      ELSE account[i]]
  /\ member' = [f \in Firms |-> [member[f] EXCEPT ![u] = IF @ = "none" THEN @ ELSE "revoked"]]
  /\ UNCHANGED <<firm, domain, directory>>

\* A person ends a session, whose row a flow's transaction shares.
SignOut(s) ==
  /\ Move /\ session[s].live
  /\ \A c \in Callbacks : InTransaction(c) => call[c].flow # s
  /\ session' = [session EXCEPT ![s].live = FALSE]
  /\ UNCHANGED <<worldVars, flow, call, request>>

Next ==
  \/ \E c \in Callbacks :
       \/ \E purpose \in {"link", "reauthenticate"}, f \in Firms : Start(c, purpose, f)
       \/ \E i \in Identities : Return(c, i)
       \/ \E i \in Identities, s \in Callbacks : observe(c, i, s)
       \/ \E s \in Callbacks : ObserveAnothers(c, s)
       \/ beforeTransaction(c) \/ resolve(c) \/ Commit(c) \/ GiveUp(c)
       \/ reserveConnection(c) \/ InsertRequest(c) \/ Expire(c) \/ HoldAddress(c) \/ LockConnection(c)
       \/ CheckConnection(c) \/ connectDirectoryAccount(c) \/ SignOut(c)
  \/ \E f \in Firms : SetFirm(f) \/ SetDomain(f) \/ putSsoProvider(f) \/ deleteSsoProvider(f)
  \/ \E f \in Firms, u \in Users :
       \/ RemoveMember(f, u) \/ ReinstateMember(f, u)
       \/ \E p \in People : importMembers(f, p, u)
  \/ \E u \in Users : disableUser(u) \/ enableUser(u) \/ retireUserEmail(u) \/ eraseUser(u)

Spec == Init /\ [][Next]_vars

(***************************************************************************)
(* Properties                                                              *)
(***************************************************************************)
Revisions == 0 .. MaxMoves + 1
Accounts == [user : Users \cup {Nobody}, row : Revisions, live : BOOLEAN]
Sessions == [user : Users \cup {Nobody}, row : Revisions, revision : Revisions, live : BOOLEAN]
Flows == [purpose : {"none", "link", "reauthenticate"}, status : {"none", "stored", "consumed"},
          row : Revisions, revision : Revisions, target : Firms, goal : Revisions, aim : Revisions]
Calls == [at : {"new", "exchange", "locked", "resolved", "in", "noted", "refused"},
          identity : Identities, row : Revisions, revision : Revisions,
          flow : Callbacks \cup {Nobody},
          binds : {"none", "known", "link", "create", "conflict", "refused"},
          user : Users \cup {Nobody}]
Requests == [status : {"none", "sent"}, row : Revisions, revision : Revisions,
             at : {"idle", "asking", "held", "locked", "checked"}, seen : Users \cup {Nobody}]

\* Every variable has its type.
TypeOK ==
  /\ firm \in [Firms -> BOOLEAN] /\ domain \in [Firms -> BOOLEAN]
  /\ directory \in [Firms -> [row : Revisions, revision : Revisions, live : BOOLEAN]]
  /\ user \in [Users -> {"unborn", "active", "disabled", "retired", "erased"}]
  /\ holder \in [People -> Users \cup {Nobody}]
  /\ account \in [Identities -> Accounts]
  /\ member \in [Firms -> [Users -> {"none", "effective", "revoked"}]]
  /\ session \in [Callbacks -> Sessions] /\ flow \in [Callbacks -> Flows]
  /\ call \in [Callbacks -> Calls] /\ request \in [Callbacks -> Requests]
  /\ moves \in 0 .. MaxMoves

\* An identity never moves to another person and never comes back from an erasure, and a directory's
\* user is bound once, whatever sign-ins, links and mailbox proofs race for them (the unique keys
\* of accounts, and federation's reading of tombstones).
IdentitiesStay ==
  [][\A i \in Identities :
       IF Exact(i)
       THEN /\ account'[i].user = account[i].user /\ account'[i].row = account[i].row
            /\ account'[i].live => account[i].live
       ELSE account'[i] # NoAccount =>
              \A j \in Identities : Home[j] = Home[i] /\ Person[j] = Person[i] => ~Exact(j)]_vars

\* What links i to a person at this step.
Links(c, i) == At(c, {"resolved"}) /\ call[c].identity = i /\ call[c].binds = "link"
Binds(i) == ~Exact(i) /\ account'[i] # NoAccount

\* An identity is linked to a person only by a session of theirs that still authenticates them at
\* that moment, to a target that is as it was when they asked and that has not removed them:
\* what beforeTransaction reads holds until the link commits.
LinksAreProved ==
  [][\A i \in Identities, c \in Callbacks : Binds(i) /\ Links(c, i) /\ call'[c].at = "in" =>
       LET s == call[c].flow IN
       /\ account'[i].user = session[s].user
       /\ tenantAuthentication(s, FALSE)
       /\ directory[FirmOf(s)].revision = flow[s].revision
       /\ Home[i] = flow[s].target /\ firm[Home[i]] /\ domain[Home[i]]
       /\ directory[Home[i]] = [row |-> flow[s].goal, revision |-> flow[s].aim, live |-> TRUE]
       /\ member[Home[i]][session[s].user] # "revoked"]_vars

\* An identity reaches a person who existed and did not link it only by their mailbox, at a moment
\* when they hold its address, are active, are an effective member, and have no other account
\* that it could take over; the directory is the one that asserted it.
ConnectionsReachHolders ==
  [][\A i \in Identities : Binds(i) /\ user[account'[i].user] # "unborn" =>
       LET u == account'[i].user IN
       \/ \E c \in Callbacks : Links(c, i) /\ call'[c].at = "in"
       \/ /\ holder[Person[i]] = u /\ user[u] = "active" /\ member[Home[i]][u] = "effective"
          /\ firm[Home[i]] /\ domain[Home[i]]
          /\ \A j \in Identities : account[j].user # u
          /\ \E c \in Callbacks :
               /\ Connecting(c) /\ call[c].identity = i
               /\ directory[Home[i]] =
                    [row |-> request[c].row, revision |-> request[c].revision, live |-> TRUE]]_vars

\* No identity is bound to a person who existed but by their own session or their own mailbox,
\* and it is bound once.
BindingsAreProved == LinksAreProved /\ ConnectionsReachHolders /\ IdentitiesStay

\* A session is made only while everything it is said to rest on stands: its account is live and
\* its user's, its provider is the one the callback read and the revision the session names,
\* the firm is active and holds the domain, and nobody removed its user.
SessionsStandWhenMade ==
  [][\A c \in Callbacks : session'[c] # NoSession /\ session[c] = NoSession =>
       LET x == session'[c]
           f == FirmOf(c)
           a == account'[call[c].identity]
       IN /\ a.live /\ a.user = x.user
          /\ directory[f] = [row |-> call[c].row, revision |-> x.revision, live |-> TRUE]
          /\ firm[f] /\ domain[f] /\ member'[f][x.user] = "effective"
          /\ user'[x.user] # "erased"]_vars

\* A flow serves one callback, for the person whose session started it, and a proof again of who
\* they are ends in the same identity.
FlowsServeTheirSession ==
  \A c \in Callbacks : HasFlow(c) =>
    LET s == call[c].flow IN
    /\ \A d \in Callbacks \ {c} : call[d].flow # s
    /\ At(c, {"in"}) =>
         /\ session[c].user = session[s].user
         /\ Flow(c).purpose = "reauthenticate" => call[c].identity = call[s].identity

\* Nothing of an erased person can be used: no session, no live account and no address, though
\* a sign-in does not lock the person it signs in.
ErasedPeopleAreGone ==
  \A u \in Users : user[u] = "erased" =>
    /\ \A c \in Callbacks : session[c].user = u => ~session[c].live
    /\ \A i \in Identities : account[i].user = u => ~account[i].live
    /\ \A p \in People : holder[p] # u

\* Sessions and flows serve the person who made them, while they exist.
SessionsAreTheirs == FlowsServeTheirSession /\ ErasedPeopleAreGone

(***************************************************************************)
(* Why these hold: what a transaction read under its locks stands until it *)
(* ends, what a callback kept of its session and account stays theirs, and *)
(* an address has one holder and one request under way.                    *)
(***************************************************************************)
\* A callback that ended in a session, and only that, has one, of its identity's account; one
\* whose connection is asked for was refused.
CallsKeepTheirPlace ==
  \A c \in Callbacks :
    /\ session[c] # NoSession <=> At(c, {"in"})
    /\ At(c, {"in"}) =>
         session[c].user \in Users /\ account[call[c].identity].user = session[c].user
    /\ request[c].at = "asking" => At(c, {"noted"})
    /\ request[c] # NoRequest /\ request[c].at # "asking" => At(c, {"refused"})

\* A flow is of a session, and has been consumed by the one callback it serves.
FlowsAreConsumedOnce ==
  /\ \A s \in Callbacks : flow[s].status # "none" => flow[s].purpose \in {"link", "reauthenticate"}
  /\ \A c \in Callbacks : HasFlow(c) =>
       LET s == call[c].flow IN
       /\ At(s, {"in"}) /\ flow[s].status = "consumed"
       /\ \A d \in Callbacks \ {c} : call[d].flow # s

\* What a transaction checked when it took its locks holds while it has them ...
LocksHold ==
  \A c \in Callbacks : InTransaction(c) =>
    /\ directory[FirmOf(c)].live /\ directory[FirmOf(c)].row = call[c].row
    /\ HasFlow(c) => current(call[c].flow)

\* ... and so does what it resolved, but for a person it does not lock, who may be erased.
ResolvedHolds ==
  \A c \in Callbacks : At(c, {"resolved"}) =>
    LET a == account[call[c].identity] IN
    /\ firm[FirmOf(c)] /\ domain[FirmOf(c)] /\ Verified(c)
    /\ call[c].binds \in {"known", "link", "create"}
    /\ call[c].binds = "known" =>
         /\ ~Linking(c) /\ a.user = call[c].user /\ a.user \in Users
         /\ a.live => ~membershipRevoked(FirmOf(c), a.user)
    /\ call[c].binds = "link" => Linking(c) /\ call[c].user = session[call[c].flow].user
    /\ call[c].binds = "create" => ~HasFlow(c)

\* So does what a connection checked, which shares its person.
CheckedHolds ==
  \A c \in Callbacks : request[c].at = "checked" =>
    LET f == FirmOf(c)
        u == request[c].seen
    IN /\ directory[f] = [row |-> request[c].row, revision |-> request[c].revision, live |-> TRUE]
       /\ firm[f] /\ domain[f]
       /\ u \in Users /\ holder[AddressOf(c)] = u /\ holderAwaitingDirectory(f, AddressOf(c))

\* An address has one request under way, and a person one address.
OneRequestAnAddress ==
  \A c, d \in Callbacks :
    request[c].at # "idle" /\ request[d].at # "idle" /\ AddressOf(c) = AddressOf(d) => c = d
OneAddressAPerson ==
  \A p, q \in People : holder[p] = holder[q] /\ holder[p] # Nobody => p = q
\* An account is a person's, and who is not born has nothing.
AccountsArePeoples == \A i \in Identities : Exact(i) => account[i].user \in Users
UnbornHaveNothing ==
  \A u \in Users : user[u] = "unborn" =>
    /\ \A p \in People : holder[p] # u
    /\ \A f \in Firms : member[f][u] = "none"
    /\ \A i \in Identities : account[i].user # u
PeopleAreOnes == OneRequestAnAddress /\ OneAddressAPerson /\ AccountsArePeoples /\ UnbornHaveNothing

\* Revisions grow with commands.
RevisionsAreCounted ==
  \A f \in Firms : directory[f].row <= moves + 1 /\ directory[f].revision <= moves + 1

\* The inductive invariant.
Inv == /\ TypeOK /\ RevisionsAreCounted /\ CallsKeepTheirPlace /\ FlowsAreConsumedOnce
       /\ LocksHold /\ ResolvedHolds /\ CheckedHolds /\ PeopleAreOnes /\ SessionsAreTheirs
===============================================================================
