----------------------------- MODULE OAuthGrants -----------------------------
(***************************************************************************)
(* What people allow applications to do (apps/id/src/auth): a browser's    *)
(* flow makes a grant and its code, the application exchanges the code,    *)
(* renews and revokes its tokens; and the administrators' commands         *)
(* (apps/id/src/services) that end or narrow what a grant rests on.        *)
(*                                                                         *)
(* A request is one transaction: it reads what it names, shares the rows   *)
(* its policy rests on (user, organisation, client, resource), locks the   *)
(* flow or the grant, decides, and commits or rolls back.  A command locks *)
(* the row it changes and is one step that waits for those who share it.   *)
(* One organisation, one client, one resource; scopes are compared, never  *)
(* parsed.  Left out: access tokens (they end with their refresh token),   *)
(* ID tokens and user information, which only read.                        *)
(***************************************************************************)
EXTENDS Naturals, FiniteSets

CONSTANTS
  Users, Sessions, Flows, Grants, Codes, Tokens, Requests, Scopes,
  UserOf,       \* whose each session is
  None,         \* no user, grant, code or token
  MaxRequests,  \* bound: how many requests are made
  MaxMoves      \* bound: how many commands, sign-ins, sign-outs and expiries happen

Kinds == {"directory", "magic_link"}
Ceilings == {"client", "resource", "capability", "renewal"}
Parties == Users \cup {"organization", "client", "resource"}

ASSUME OAuthAssumption ==
  /\ UserOf \in [Sessions -> Users]
  /\ Users \cap {"organization", "client", "resource"} = {}
  /\ None \notin Users \cup Grants \cup Codes \cup Tokens \cup Flows \cup Sessions
  /\ Codes \cap Tokens = {} /\ MaxRequests \in Nat /\ MaxMoves \in Nat

VARIABLES
  standing,  \* each party: "active", "disabled", "retired" (a user's email) or "erased"
  member,    \* the users whose membership is not revoked
  window,    \* the users whose membership's dates include now
  linked,    \* whether the client is linked to the resource
  provider,  \* of each kind: whether it is live, and its revision
  ceiling,   \* the scopes of client, resource, capability and renewal
  assigned,  \* the scopes each user's entitlements and groups give
  session,   \* each session's life, how it signs in, and under which revision of that
  flow,      \* each flow's status, user and grant
  grant,     \* each grant's state, session, revision and bound code
  code,      \* each code's state, grant and scopes
  token,     \* each refresh token's state, grant and scopes
  request,   \* where each request is, and what it is about
  requests,  \* how many have been made
  presented, \* how often native code answered for each code and token, up to twice
  moves      \* how many commands and other moves have happened

policyVars == <<standing, member, window, linked, provider, ceiling, assigned>>
vars == <<policyVars, session, flow, grant, code, token, request, presented, requests, moves>>

Idle == [at |-> "idle", kind |-> "none", user |-> None, session |-> None, flow |-> None,
         grant |-> None, code |-> None, token |-> None, scopes |-> {}, found |-> "none"]

Init ==
  /\ standing = [p \in Parties |-> "active"] /\ member = Users /\ window = Users
  /\ linked \in BOOLEAN /\ presented = [x \in Codes \cup Tokens |-> 0]
  /\ provider = [k \in Kinds |-> [live |-> TRUE, revision |-> 1]]
  /\ \E configured \in {{}, Scopes} :
       /\ ceiling = [x \in Ceilings |-> IF x \in {"client", "resource"} THEN Scopes ELSE configured]
       /\ assigned = [u \in Users |-> configured]
  /\ session \in [Sessions -> [life : {"absent", "live"}, kind : Kinds, revision : {1}]]
  /\ flow = [f \in Flows |-> [status |-> "none", user |-> None, grant |-> None]]
  /\ grant = [g \in Grants |-> [state |-> "none", session |-> None, revision |-> 0,
                                flow |-> None, code |-> None, expired |-> FALSE]]
  /\ code = [c \in Codes |-> [state |-> "none", grant |-> None, scopes |-> {}]]
  /\ token = [t \in Tokens |-> [state |-> "none", grant |-> None, scopes |-> {}]]
  /\ request = [r \in Requests |-> Idle] /\ requests = 0 /\ moves = 0

(***************************************************************************)
(* Locks.  A request shares its parties from LockTargets on.               *)
(***************************************************************************)
Resumes == {"continue", "accept", "deny", "details"}
Sharing == {r \in Requests : request[r].at \in {"locked", "inserted", "decided"}}

\* Mutant: the policy's lock leaves the organisation out.
PartiesOfTarget(r) == {request[r].user, "client", "resource"}

PartiesOf(r) ==
  IF "erased" \in {standing["client"], standing["resource"]} THEN {}
  ELSE {request[r].user, "organization", "client", "resource"}
PartyFree(p) == \A r \in Sharing : p \notin PartiesOf(r)

FlowFree(f) ==
  \A r \in Requests : request[r].kind \in Resumes /\ request[r].flow = f
                        => request[r].at \in {"idle", "signed"}

\* Mutant: a grant's row is read without its lock.
GrantUnlocked(g) == TRUE

GrantFree(g) ==
  \A r \in Requests : request[r].grant = g => request[r].at # "decided" \/ request[r].kind \in Resumes

\* createResourceGrant shares the session it copies.
SessionFree(s) == \A r \in Sharing : request[r].kind = "continue" => request[r].session # s

(***************************************************************************)
(* Policy                                                                  *)
(***************************************************************************)
Active(p) == standing[p] = "active"

Effective(u) == u \in member \cap window

Eligible(u) == Active(u) /\ Effective(u) /\ linked /\ \A p \in Parties \ Users : Active(p)

Permitted(u, kind) ==
  IF Eligible(u)
  THEN ceiling["client"] \cap ceiling["resource"] \cap ceiling["capability"] \cap assigned[u]
         \cap (IF kind = "refresh" THEN ceiling["renewal"] ELSE Scopes)
  ELSE {}

\* What a session or a grant was proved with still stands.
Proved(u, kind, revision) ==
  /\ Active(u) /\ Active("organization") /\ Effective(u)
  /\ provider[kind].live /\ provider[kind].revision = revision

GrantUser(g) == UserOf[grant[g].session]
GrantKind(g) == session[grant[g].session].kind

tenantAuthentication(s) ==
  session[s].life = "live" /\ Proved(UserOf[s], session[s].kind, session[s].revision)

currentGrantAuthentication(g) ==
  ~grant[g].expired /\ Proved(GrantUser(g), GrantKind(g), grant[g].revision)

(***************************************************************************)
(* A browser's flow                                                        *)
(***************************************************************************)
Ends(r) == request' = [request EXCEPT ![r] = Idle]
At(r, place) == request' = [request EXCEPT ![r].at = place]

\* The flow's row remembers the session's user, if there is one yet.
start(f) ==
  /\ flow[f].status = "none"
  /\ \E u \in {None} \cup {UserOf[s] : s \in {x \in Sessions : session[x].life = "live"}} :
       flow' = [flow EXCEPT ![f] = [status |-> "selection", user |-> u, grant |-> None]]
  /\ UNCHANGED <<policyVars, session, grant, code, token, request, presented, requests, moves>>

\* The session is read before the transaction.
resume(r, f, s, kind) ==
  /\ request[r].at = "idle" /\ requests < MaxRequests /\ requests' = requests + 1
  /\ flow[f].status # "none" /\ session[s].life = "live"
  /\ \E asked \in (IF kind = "accept" THEN (SUBSET Scopes) \ {{}} ELSE {Scopes}) :
       request' = [request EXCEPT ![r] = [Idle EXCEPT !.at = "signed", !.kind = kind,
                     !.flow = f, !.session = s, !.user = UserOf[s], !.scopes = asked]]
  /\ UNCHANGED <<policyVars, session, flow, grant, code, token, presented, moves>>

\* Locks the flow's row and refuses another's flow, one that ended, or a step out of turn.
OpenFlow(r) ==
  LET f == flow[request[r].flow] IN
  /\ request[r].at = "signed" /\ FlowFree(request[r].flow)
  /\ f.user \in {None, request[r].user} /\ f.status \in {"selection", "consent"}
  /\ request[r].kind = "continue" => f.status = "selection"
  /\ request[r].kind \in {"accept", "deny"} => f.grant # None
  /\ request' = [request EXCEPT ![r].at = "opened", ![r].grant = f.grant]
  /\ UNCHANGED <<policyVars, session, flow, grant, code, token, presented, requests, moves>>

\* Shares user, organisation, client and resource, in this order; none of a target that is erased.
lockResourceGrantPolicy(r) ==
  /\ \/ request[r].at = "read"
     \/ request[r].at = "opened" /\ (request[r].kind = "continue" \/ request[r].grant # None)
  /\ At(r, "locked")
  /\ UNCHANGED <<policyVars, session, flow, grant, code, token, presented, requests, moves>>

\* Not visible to others before the commit: "inserted".
createResourceGrant(r, g) ==
  LET s == request[r].session IN
  /\ request[r].at = "locked" /\ request[r].kind = "continue" /\ grant[g].state = "none"
  /\ tenantAuthentication(s)
  /\ Eligible(UserOf[s]) /\ request[r].scopes \subseteq ceiling["client"]
  /\ grant' = [grant EXCEPT ![g] = [state |-> "inserted", session |-> s,
                 revision |-> session[s].revision, flow |-> request[r].flow,
                 code |-> None, expired |-> FALSE]]
  /\ request' = [request EXCEPT ![r].at = "inserted", ![r].grant = g]
  /\ UNCHANGED <<policyVars, session, flow, code, token, presented, requests, moves>>

\* Narrows what is asked to what is permitted, for the session that made the grant.
DecideFlow(r) ==
  LET g == request[r].grant
      narrowed == request[r].scopes \cap Permitted(request[r].user, "authorize")
  IN
  /\ \/ request[r].at = "inserted"
     \/ request[r].at = "locked" /\ request[r].kind \in {"accept", "deny", "details"}
  /\ grant[g].state \in {"inserted", "live"} /\ grant[g].session = request[r].session
  /\ currentGrantAuthentication(g) /\ narrowed # {}
  /\ request' = [request EXCEPT ![r].at = "decided", ![r].scopes = narrowed]
  /\ UNCHANGED <<policyVars, session, flow, grant, code, token, presented, requests, moves>>

Visible(g) == [grant EXCEPT ![g].state = "live"]

\* The native endpoint returns a code: after consent, or at once for a client that skips it.
IssueCode(r, c) ==
  LET g == request[r].grant  f == request[r].flow IN
  /\ request[r].at = "decided" /\ request[r].kind \in {"continue", "accept"}
  /\ code[c].state = "none"
  /\ code' = [code EXCEPT ![c] = [state |-> "issued", grant |-> g, scopes |-> request[r].scopes]]
  /\ flow' = [flow EXCEPT ![f] = [status |-> "complete", user |-> request[r].user, grant |-> g]]
  /\ grant' = Visible(g)
  /\ Ends(r)
  /\ UNCHANGED <<policyVars, session, token, presented, requests, moves>>

\* A selection waits for consent; a view leaves all but the flow's user; a refusal ends it.
KeepFlow(r) ==
  LET g == request[r].grant  f == request[r].flow IN
  /\ \/ request[r].at = "decided" /\ request[r].kind \in {"continue", "details", "deny"}
     \/ request[r].at = "opened" /\ request[r].kind = "details" /\ g = None
  /\ flow' = [flow EXCEPT ![f] =
       [status |-> CASE request[r].kind = "continue" -> "consent"
                     [] request[r].kind = "deny" -> "denied"
                     [] OTHER -> flow[f].status,
        user |-> request[r].user, grant |-> g]]
  /\ grant' = IF request[r].kind = "continue" THEN Visible(g) ELSE grant
  /\ Ends(r)
  /\ UNCHANGED <<policyVars, session, code, token, presented, requests, moves>>

\* Every refusal, and every failure of a statement, rolls the transaction back.
Refuse(r) ==
  /\ request[r].at # "idle"
  /\ grant' = IF request[r].at \in {"inserted", "decided"} /\ request[r].kind = "continue"
              THEN [grant EXCEPT ![request[r].grant] =
                     [state |-> "none", session |-> None, revision |-> 0,
                      flow |-> None, code |-> None, expired |-> FALSE]]
              ELSE grant
  /\ Ends(r)
  /\ UNCHANGED <<policyVars, session, flow, code, token, presented, requests, moves>>

(***************************************************************************)
(* The application's requests.  The client has authenticated.              *)
(***************************************************************************)
\* A code that was consumed is no longer a row: the request goes on without its grant.
ReadCode(r, c) ==
  /\ request[r].at = "idle" /\ requests < MaxRequests /\ requests' = requests + 1
  /\ Active("client") /\ code[c].state # "none"
  /\ LET g == code[c].grant IN
     request' = [request EXCEPT ![r] = IF code[c].state = "issued"
       THEN [Idle EXCEPT !.at = "read", !.kind = "exchange", !.code = c, !.grant = g,
               !.user = GrantUser(g), !.scopes = code[c].scopes]
       ELSE [Idle EXCEPT !.at = "unreferenced", !.kind = "exchange", !.code = c]]
  /\ UNCHANGED <<policyVars, session, flow, grant, code, token, presented, moves>>

ReadToken(r, t, kind) ==
  /\ request[r].at = "idle" /\ requests < MaxRequests /\ requests' = requests + 1
  /\ Active("client") /\ token[t].state \in {"live", "rotated"}
  /\ \E asked \in (IF kind = "refresh" THEN (SUBSET token[t].scopes) \ {{}} ELSE {{}}) :
       request' = [request EXCEPT ![r] = [Idle EXCEPT !.at = "read", !.kind = kind, !.token = t,
         !.grant = token[t].grant, !.user = GrantUser(token[t].grant), !.scopes = asked]]
  /\ UNCHANGED <<policyVars, session, flow, grant, code, token, presented, moves>>

\* Locks the grant and, but for a revocation, decides again; then native code reads its row.
DecideToken(r) ==
  LET g == request[r].grant IN
  /\ request[r].at = "locked" /\ request[r].kind \in {"exchange", "refresh", "revoke"}
  /\ GrantFree(g)
  /\ request[r].kind # "revoke" =>
       /\ grant[g].state = "live" /\ currentGrantAuthentication(g)
       /\ request[r].scopes \subseteq Permitted(request[r].user, request[r].kind)
  /\ request' = [request EXCEPT ![r].at = "decided",
       ![r].found = IF request[r].kind = "exchange"
                    THEN code[request[r].code].state ELSE token[request[r].token].state]
  /\ UNCHANGED <<policyVars, session, flow, grant, code, token, presented, requests, moves>>

Answers(x) == presented' = [presented EXCEPT ![x] = IF @ < 2 THEN @ + 1 ELSE 2]

Decided(r, kind, found) ==
  request[r].at = "decided" /\ request[r].kind = kind /\ request[r].found = found

NewToken(tokens, t, r) ==
  [tokens EXCEPT ![t] = [state |-> "live", grant |-> request[r].grant, scopes |-> request[r].scopes]]

\* bindGrantCode ties the grant to the code it was issued for.
ExchangeCode(r, t) ==
  /\ Decided(r, "exchange", "issued") /\ token[t].state = "none"
  /\ grant[request[r].grant].code \in {None, request[r].code}
  /\ code' = [code EXCEPT ![request[r].code].state = "consumed"]
  /\ grant' = [grant EXCEPT ![request[r].grant].code = request[r].code]
  /\ token' = NewToken(token, t, r)
  /\ Answers(request[r].code) /\ Ends(r)
  /\ UNCHANGED <<policyVars, session, flow, requests, moves>>

RotateToken(r, t) ==
  /\ Decided(r, "refresh", "live") /\ token[t].state = "none"
  /\ token' = NewToken([token EXCEPT ![request[r].token].state = "rotated"], t, r)
  /\ Answers(request[r].token) /\ Ends(r)
  /\ UNCHANGED <<policyVars, session, flow, grant, code, requests, moves>>

(***************************************************************************)
(* Revocation.  Only a grant others can see is revoked.                    *)
(***************************************************************************)
revokeGrantContexts(gs) ==
  grant' = [g \in Grants |-> IF g \in gs /\ grant[g].state = "live"
                             THEN [grant[g] EXCEPT !.state = "revoked"] ELSE grant[g]]

Erased(ts) == [t \in Tokens |-> IF t \in ts /\ token[t].state # "none"
                               THEN [token[t] EXCEPT !.state = "deleted"] ELSE token[t]]

TokensOf(gs) == {t \in Tokens : token[t].grant \in gs}

\* The native cleanup may fail after the revocation: its savepoint keeps the rows.
Cleanup(gs) == token' \in {token, Erased(TokensOf(gs))}

\* A code found consumed under the grant's lock.
withNativeCodeReplay(r) ==
  /\ Decided(r, "exchange", "consumed")
  /\ revokeGrantContexts({g \in Grants : grant[g].code = request[r].code})
  /\ Cleanup({request[r].grant})
  /\ Answers(request[r].code) /\ Ends(r)
  /\ UNCHANGED <<policyVars, session, flow, code, requests, moves>>

\* One that was no row when it was read: only the revocation meets the grant's lock.
ReplayUnreferenced(r) ==
  LET bound == {g \in Grants : grant[g].code = request[r].code} IN
  /\ request[r].at = "unreferenced" /\ \A g \in bound : GrantFree(g)
  /\ revokeGrantContexts(bound) /\ Cleanup(bound)
  /\ Answers(request[r].code) /\ Ends(r)
  /\ UNCHANGED <<policyVars, session, flow, code, requests, moves>>

\* A refresh token found rotated ends its family, whether renewed or revoked.
withNativeRefreshFamily(r) ==
  /\ Decided(r, "refresh", "rotated") \/ Decided(r, "revoke", "rotated")
  /\ revokeGrantContexts({request[r].grant}) /\ Cleanup({request[r].grant})
  /\ Answers(request[r].token) /\ Ends(r)
  /\ UNCHANGED <<policyVars, session, flow, code, requests, moves>>

revokeUserToken(r) ==
  /\ Decided(r, "revoke", "live")
  /\ token' = Erased({request[r].token})
  /\ revokeGrantContexts({request[r].grant})
  /\ Answers(request[r].token) /\ Ends(r)
  /\ UNCHANGED <<policyVars, session, flow, code, requests, moves>>

(***************************************************************************)
(* The administrators' commands.  Each waits for the row it locks.         *)
(***************************************************************************)
Command(p) == moves < MaxMoves /\ moves' = moves + 1 /\ PartyFree(p) /\ standing[p] # "erased"
Set(p, s) == standing' = [standing EXCEPT ![p] = s]

GrantsOf(u) == {g \in Grants : grant[g].session # None /\ GrantUser(g) = u}
DirectoryGrants == {g \in Grants : grant[g].session # None /\ GrantKind(g) = "directory"}

EndSessions(u) ==
  session' = [s \in Sessions |-> IF UserOf[s] = u /\ session[s].life = "live"
                                 THEN [session[s] EXCEPT !.life = "ended"] ELSE session[s]]

\* Marked as revoked, which is what a rotated token is too.
RevokeTokens(gs) ==
  token' = [t \in Tokens |-> IF token[t].grant \in gs /\ token[t].state = "live"
                             THEN [token[t] EXCEPT !.state = "rotated"] ELSE token[t]]

protocolVars == <<flow, code, request, presented, requests>>

disableUser(u) ==
  /\ Command(u) /\ Set(u, IF standing[u] = "retired" THEN "retired" ELSE "disabled")
  /\ revokeGrantContexts(GrantsOf(u)) /\ EndSessions(u) /\ RevokeTokens(GrantsOf(u))
  /\ UNCHANGED <<protocolVars, member, window, linked, provider, ceiling, assigned>>

enableUser(u) ==
  /\ Command(u) /\ standing[u] # "retired" /\ Set(u, "active")
  /\ UNCHANGED <<protocolVars, member, window, linked, provider, ceiling, assigned, session, grant, token>>

retireUserEmail(u) ==
  /\ Command(u) /\ standing[u] \in {"disabled", "retired"} /\ Set(u, "retired")
  /\ UNCHANGED <<protocolVars, member, window, linked, provider, ceiling, assigned, session, grant, token>>

eraseUser(u) ==
  /\ Command(u) /\ Set(u, "erased")
  /\ revokeGrantContexts(GrantsOf(u)) /\ EndSessions(u) /\ token' = Erased(TokensOf(GrantsOf(u)))
  /\ member' = member \ {u} /\ assigned' = [assigned EXCEPT ![u] = {}]
  /\ UNCHANGED <<protocolVars, window, linked, provider, ceiling>>

revokeUserSessions(u) ==
  /\ Command(u)
  /\ EndSessions(u) /\ RevokeTokens(GrantsOf(u)) /\ revokeGrantContexts(GrantsOf(u))
  /\ UNCHANGED <<policyVars, protocolVars>>

\* Member commands lock the organisation.  Removal takes the member's assignments along.
remove(u) ==
  /\ Command("organization") /\ standing[u] # "erased"
  /\ member' = member \ {u} /\ assigned' = [assigned EXCEPT ![u] = {}]
  /\ revokeGrantContexts(GrantsOf(u))
  /\ UNCHANGED <<protocolVars, standing, window, linked, provider, ceiling, session, token>>

reinstate(u) ==
  /\ Command("organization") /\ standing[u] # "erased" /\ member' = member \cup {u}
  /\ UNCHANGED <<protocolVars, standing, window, linked, provider, ceiling, assigned, session, grant, token>>

\* New dates revoke nothing: they are asked at each use.  The clock reaches none here.
updateWindow(u) ==
  /\ Command("organization") /\ \E dates \in {window \cup {u}, window \ {u}} : window' = dates
  /\ UNCHANGED <<protocolVars, standing, member, linked, provider, ceiling, assigned, session, grant, token>>

\* Mutant: assignments change without the organisation's lock.
assignUnlocked(u) ==
  /\ moves < MaxMoves /\ moves' = moves + 1 /\ Active("organization") /\ u \in member
  /\ \E scopes \in SUBSET Scopes : assigned' = [assigned EXCEPT ![u] = scopes]
  /\ UNCHANGED <<protocolVars, standing, member, window, linked, provider, ceiling, session, grant, token>>

\* Entitlements, groups and their members: what a user is assigned.
assign(u) ==
  /\ Command("organization") /\ u \in member
  /\ \E scopes \in SUBSET Scopes : assigned' = [assigned EXCEPT ![u] = scopes]
  /\ UNCHANGED <<protocolVars, standing, member, window, linked, provider, ceiling, session, grant, token>>

disableOrganization ==
  /\ Command("organization") /\ Set("organization", "disabled") /\ revokeGrantContexts(Grants)
  /\ UNCHANGED <<protocolVars, member, window, linked, provider, ceiling, assigned, session, token>>

enableOrganization ==
  /\ Command("organization") /\ Set("organization", "active")
  /\ UNCHANGED <<protocolVars, member, window, linked, provider, ceiling, assigned, session, grant, token>>

eraseOrganization ==
  /\ Command("organization") /\ Set("organization", "erased") /\ revokeGrantContexts(Grants)
  /\ member' = {} /\ assigned' = [u \in Users |-> {}]
  /\ provider' = [k \in Kinds |-> [provider[k] EXCEPT !.live = FALSE]]
  /\ ceiling' = [ceiling EXCEPT !["capability"] = {}, !["renewal"] = {}]
  /\ UNCHANGED <<protocolVars, window, linked, session, token>>

\* A changed directory ends what was proved by it; the magic-link row only moves its revision.
putSsoProvider ==
  /\ Command("organization")
  /\ provider' = [provider EXCEPT !["directory"] = [live |-> TRUE, revision |-> @.revision + 1]]
  /\ revokeGrantContexts(DirectoryGrants)
  /\ UNCHANGED <<protocolVars, standing, member, window, linked, ceiling, assigned, session, token>>

deleteSsoProvider ==
  /\ Command("organization") /\ provider["directory"].live
  /\ provider' = [provider EXCEPT !["directory"].live = FALSE]
  /\ revokeGrantContexts(DirectoryGrants)
  /\ UNCHANGED <<protocolVars, standing, member, window, linked, ceiling, assigned, session, token>>

setMagicLink ==
  /\ Command("organization")
  /\ provider' = [provider EXCEPT !["magic_link"] =
       [live |-> provider["magic_link"].live, revision |-> @.revision + 1]]
  /\ UNCHANGED <<protocolVars, standing, member, window, linked, ceiling, assigned, session, grant, token>>

updateCapability ==
  /\ Command("organization")
  /\ \E x \in {"capability", "renewal"}, scopes \in SUBSET Scopes :
       ceiling' = [ceiling EXCEPT ![x] = scopes]
  /\ UNCHANGED <<protocolVars, standing, member, window, linked, provider, assigned, session, grant, token>>

setClientDisabled(disabled) ==
  /\ Command("client") /\ Set("client", IF disabled THEN "disabled" ELSE "active")
  /\ IF disabled THEN RevokeTokens(Grants) /\ revokeGrantContexts(Grants)
                 ELSE UNCHANGED <<token, grant>>
  /\ UNCHANGED <<protocolVars, member, window, linked, provider, ceiling, assigned, session>>

\* Mutant: a new secret ends the tokens and leaves their grants.
rotateSecretOfTokens ==
  /\ Command("client") /\ RevokeTokens(Grants)
  /\ UNCHANGED <<policyVars, protocolVars, session, grant>>

rotateSecret ==
  /\ Command("client") /\ RevokeTokens(Grants) /\ revokeGrantContexts(Grants)
  /\ UNCHANGED <<policyVars, protocolVars, session>>

updateClient ==
  /\ Command("client") /\ \E scopes \in SUBSET Scopes : ceiling' = [ceiling EXCEPT !["client"] = scopes]
  /\ UNCHANGED <<protocolVars, standing, member, window, linked, provider, assigned, session, grant, token>>

linkResource ==
  /\ Command("client") /\ PartyFree("resource") /\ standing["resource"] # "erased" /\ linked' = TRUE
  /\ UNCHANGED <<protocolVars, standing, member, window, provider, ceiling, assigned, session, grant, token>>

unlinkResource ==
  /\ Command("client") /\ linked' = FALSE
  /\ UNCHANGED <<protocolVars, standing, member, window, provider, ceiling, assigned, session, grant, token>>

\* Refused while a capability or an entitlement names the client.
eraseClient ==
  /\ Command("client") /\ Set("client", "erased")
  /\ ceiling["capability"] = {} /\ \A u \in Users : assigned[u] = {}
  /\ revokeGrantContexts(Grants) /\ token' = Erased(Tokens) /\ linked' = FALSE
  /\ UNCHANGED <<protocolVars, member, window, provider, ceiling, assigned, session>>

setResourceDisabled(disabled) ==
  /\ Command("resource") /\ Set("resource", IF disabled THEN "disabled" ELSE "active")
  /\ IF disabled THEN revokeGrantContexts(Grants) ELSE UNCHANGED grant
  /\ UNCHANGED <<protocolVars, member, window, linked, provider, ceiling, assigned, session, token>>

updateResource ==
  /\ Command("resource") /\ \E scopes \in SUBSET Scopes : ceiling' = [ceiling EXCEPT !["resource"] = scopes]
  /\ UNCHANGED <<protocolVars, standing, member, window, linked, provider, assigned, session, grant, token>>

eraseResource ==
  /\ Command("resource") /\ Set("resource", "erased") /\ ~linked
  /\ ceiling["capability"] = {} /\ \A u \in Users : assigned[u] = {}
  /\ revokeGrantContexts(Grants)
  /\ UNCHANGED <<protocolVars, member, window, linked, provider, ceiling, assigned, session, token>>

\* A session is signed in under the provider's revision then; sign-out deletes its row.
SignIn(s) ==
  /\ Command(UserOf[s]) /\ session[s].life = "absent"
  /\ LET revision == provider[session[s].kind].revision IN
     /\ Proved(UserOf[s], session[s].kind, revision)
     /\ session' = [session EXCEPT ![s].life = "live", ![s].revision = revision]
  /\ UNCHANGED <<policyVars, protocolVars, grant, token>>

EndSession(s) ==
  /\ moves < MaxMoves /\ moves' = moves + 1 /\ session[s].life = "live" /\ SessionFree(s)
  /\ session' = [session EXCEPT ![s].life = "ended"]
  /\ UNCHANGED <<policyVars, protocolVars, grant, token>>

Expire(g) ==
  /\ moves < MaxMoves /\ moves' = moves + 1 /\ grant[g].state = "live" /\ ~grant[g].expired
  /\ grant' = [grant EXCEPT ![g].expired = TRUE]
  /\ UNCHANGED <<policyVars, protocolVars, session, token>>

Resume(r) ==
  \/ \E f \in Flows, s \in Sessions, kind \in Resumes : resume(r, f, s, kind)
  \/ OpenFlow(r) \/ lockResourceGrantPolicy(r) \/ \E g \in Grants : createResourceGrant(r, g)
  \/ DecideFlow(r) \/ KeepFlow(r) \/ \E c \in Codes : IssueCode(r, c)

TokenRequest(r) ==
  \/ \E c \in Codes : ReadCode(r, c)
  \/ \E t \in Tokens, kind \in {"refresh", "revoke"} : ReadToken(r, t, kind)
  \/ DecideToken(r) \/ \E t \in Tokens : ExchangeCode(r, t) \/ RotateToken(r, t)
  \/ withNativeCodeReplay(r) \/ ReplayUnreferenced(r) \/ withNativeRefreshFamily(r)
  \/ revokeUserToken(r)

UserCommand(u) ==
  \/ disableUser(u) \/ enableUser(u) \/ eraseUser(u) \/ revokeUserSessions(u)
  \/ retireUserEmail(u) \/ remove(u) \/ reinstate(u) \/ updateWindow(u) \/ assign(u)

FirmCommand ==
  \/ disableOrganization \/ enableOrganization \/ eraseOrganization
  \/ putSsoProvider \/ deleteSsoProvider \/ setMagicLink \/ updateCapability

TargetCommand ==
  \/ \E disabled \in BOOLEAN : setClientDisabled(disabled) \/ setResourceDisabled(disabled)
  \/ rotateSecret \/ updateClient \/ linkResource \/ unlinkResource \/ eraseClient
  \/ updateResource \/ eraseResource

Next ==
  \/ \E f \in Flows : start(f)
  \/ \E r \in Requests : Resume(r) \/ TokenRequest(r) \/ Refuse(r)
  \/ \E u \in Users : UserCommand(u)
  \/ FirmCommand \/ TargetCommand
  \/ \E s \in Sessions : SignIn(s) \/ EndSession(s)
  \/ \E g \in Grants : Expire(g)

Spec == Init /\ [][Next]_vars

(***************************************************************************)
(* Properties                                                              *)
(***************************************************************************)
\* Every variable keeps its type.
TypeOK ==
  /\ standing \in [Parties -> {"active", "disabled", "retired", "erased"}]
  /\ member \subseteq Users /\ window \subseteq Users
  /\ presented \in [Codes \cup Tokens -> 0..2]
  /\ linked \in BOOLEAN /\ provider \in [Kinds -> [live : BOOLEAN, revision : Nat]]
  /\ ceiling \in [Ceilings -> SUBSET Scopes] /\ assigned \in [Users -> SUBSET Scopes]
  /\ session \in [Sessions -> [life : {"absent", "live", "ended"}, kind : Kinds, revision : Nat]]
  /\ flow \in [Flows -> [status : {"none", "selection", "consent", "complete", "denied"},
                         user : Users \cup {None}, grant : Grants \cup {None}]]
  /\ grant \in [Grants -> [state : {"none", "inserted", "live", "revoked"},
                           session : Sessions \cup {None}, revision : Nat,
                           flow : Flows \cup {None}, code : Codes \cup {None}, expired : BOOLEAN]]
  /\ code \in [Codes -> [state : {"none", "issued", "consumed"},
                         grant : Grants \cup {None}, scopes : SUBSET Scopes]]
  /\ token \in [Tokens -> [state : {"none", "live", "rotated", "deleted"},
                           grant : Grants \cup {None}, scopes : SUBSET Scopes]]
  /\ request \in [Requests -> [at : {"idle", "signed", "opened", "read", "unreferenced",
                                     "locked", "inserted", "decided"},
                               kind : Resumes \cup {"none", "exchange", "refresh", "revoke"},
                               user : Users \cup {None}, session : Sessions \cup {None},
                               flow : Flows \cup {None}, grant : Grants \cup {None},
                               code : Codes \cup {None}, token : Tokens \cup {None},
                               scopes : SUBSET Scopes,
                               found : {"none", "issued", "consumed", "live", "rotated", "deleted"}]]
  /\ requests \in Nat /\ moves \in Nat

\* Grants that others can see and that are not revoked rest on what still stands: a command that
\* ends a user, a member, the organisation, its directory, the client or the resource ends them,
\* those included that a browser was making while it waited.  It says nothing of the link of
\* client and resource, which unlinkResource ends without revoking a grant, nor of the provider's
\* revision under a grant by magic link: later steps refuse those (IssuesThePermitted).
GrantsRestOnTheLiving ==
  \A g \in Grants : grant[g].state = "live" =>
    /\ \A p \in Parties \ Users : Active(p)
    /\ Active(GrantUser(g)) /\ GrantUser(g) \in member
    /\ GrantKind(g) = "directory" =>
         provider["directory"].live /\ provider["directory"].revision = grant[g].revision

Usable(t) == token[t].state = "live" /\ grant[token[t].grant].state = "live"

\* A grant has one refresh token in use at most, however its code and its tokens are presented.
OneTokenInUse ==
  \A t1, t2 \in Tokens : Usable(t1) /\ Usable(t2) /\ token[t1].grant = token[t2].grant => t1 = t2

\* A browser's flow makes one grant at most, and one code, whichever of its tabs is quicker; a
\* flow that was denied has no code.
OneGrantPerFlow ==
  /\ \A g1, g2 \in Grants :
       {grant[g1].state, grant[g2].state} \subseteq {"live", "revoked"}
         /\ grant[g1].flow = grant[g2].flow => g1 = g2
  /\ \A c1, c2 \in Codes :
       code[c1].state # "none" /\ code[c2].state # "none"
         /\ code[c1].grant = code[c2].grant => c1 = c2
  /\ \A c \in Codes : code[c].state # "none" =>
       flow[grant[code[c].grant].flow].status = "complete"

Issuable(g, scopes, kind) ==
  /\ grant'[g].state = "live" /\ Proved(GrantUser(g), GrantKind(g), grant[g].revision)
  /\ scopes # {} /\ scopes \subseteq Permitted(GrantUser(g), kind)

\* What is issued, a code or a token, is of a grant that lives, whose sign-in still stands, and
\* within what its user is permitted at the very step that issues it, after every wait; only the
\* clock may pass the grant's own end in between.
IssuesThePermitted ==
  [][/\ \A c \in Codes : code[c].state = "none" /\ code'[c].state = "issued" =>
          Issuable(code'[c].grant, code'[c].scopes, "authorize")
     /\ \A t \in Tokens : token[t].state = "none" /\ token'[t].state = "live" =>
          Issuable(token'[t].grant, token'[t].scopes,
                   IF code' = code THEN "refresh" ELSE "exchange")]_vars

\* A code or a token that native code answered for twice has ended its grant: the second found
\* it used, and ended the grant even where the cleanup of its tokens failed and was rolled back.
ReplaysEndTheGrant ==
  /\ \A c \in Codes : presented[c] = 2 => grant[code[c].grant].state = "revoked"
  /\ \A t \in Tokens : presented[t] = 2 => grant[token[t].grant].state = "revoked"

\* However its requests overlap, a flow leaves one line of credentials: one grant, one code of
\* it, never two refresh tokens in use at a time, and none at all once a code or a token was
\* answered for twice.
OneLineOfTokens == OneGrantPerFlow /\ OneTokenInUse /\ ReplaysEndTheGrant

Stage(g) ==
  CASE grant[g].state \in {"none", "inserted"} -> "none"
    [] grant[g].state = "revoked" -> "over"
    [] OTHER -> IF \E t \in Tokens : Usable(t) /\ token[t].grant = g THEN "used" ELSE "made"

delegation == INSTANCE Delegation WITH stage <- [g \in Grants |-> Stage(g)]

\* However requests and commands interleave, a grant is made once, exchanged once, keeps the one
\* token that can be renewed until it is revoked, and stays revoked.
IsDelegation == delegation!Spec

(***************************************************************************)
(* Why they hold: a flow is one request's until it ends, a grant's tokens  *)
(* are one request's from its decision on, and what was decided stays as   *)
(* it was, since whoever would change it waits for the request.            *)
(***************************************************************************)
Seen(g) == g \in Grants /\ grant[g].state \in {"live", "revoked"}
TokenKinds == {"exchange", "refresh", "revoke"}
Opened(r) == request[r].kind \in Resumes /\ request[r].at # "signed"
Makes(r) == request[r].kind = "continue" /\ request[r].at \in {"inserted", "decided"}
Holds(r) == request[r].kind \in TokenKinds /\ request[r].at = "decided"
Rests(r) == request[r].kind # "revoke" /\ request[r].at \in {"inserted", "decided"}
Use(r) == IF request[r].kind \in {"exchange", "refresh"} THEN request[r].kind ELSE "authorize"

\* What a request says of itself stays true while others run.
RequestHolds(r) == LET x == request[r] IN
  /\ x.at = "idle" <=> x.kind = "none"
  /\ x.at \in {"signed", "opened"} => x.kind \in Resumes
  /\ x.at = "inserted" => x.kind = "continue"
  /\ x.at \in {"read", "unreferenced"} => x.kind \in TokenKinds
  /\ x.kind \in Resumes =>
       /\ x.session \in Sessions /\ session[x.session].life # "absent"
       /\ x.user = UserOf[x.session] /\ x.flow \in Flows
       /\ x.at \in {"locked", "decided"} /\ x.kind # "continue" => x.grant # None
  /\ x.kind = "exchange" => x.code \in Codes /\ code[x.code].state # "none"
  /\ x.at = "unreferenced" => x.kind = "exchange" /\ code[x.code].state = "consumed"
  /\ x.kind = "exchange" /\ x.at # "unreferenced" =>
       x.grant = code[x.code].grant /\ x.scopes = code[x.code].scopes
  /\ x.kind \in {"refresh", "revoke"} =>
       x.token \in Tokens /\ token[x.token].state # "none" /\ x.grant = token[x.token].grant
  /\ x.kind = "refresh" => x.scopes # {}
  /\ x.kind \in TokenKinds /\ x.at # "unreferenced" => x.user = GrantUser(x.grant)

\* A flow that was opened waits, and its grant is the request's, but for one that is being made.
OpenedHolds(r) == Opened(r) =>
  /\ flow[request[r].flow].status \in {"selection", "consent"}
  /\ request[r].kind = "continue" => flow[request[r].flow].status = "selection"
  /\ ~Makes(r) => request[r].grant = flow[request[r].flow].grant

\* A grant that is being made is the request's own.
MakerHolds(r) == Makes(r) =>
  /\ request[r].grant \in Grants /\ grant[request[r].grant].state = "inserted"
  /\ grant[request[r].grant].session = request[r].session
  /\ grant[request[r].grant].flow = request[r].flow

\* What native code found is still there.
HolderHolds(r) == Holds(r) =>
  /\ request[r].kind = "exchange" => request[r].found = code[request[r].code].state
  /\ request[r].kind = "refresh" /\ request[r].found = "live" =>
       token[request[r].token].state = "live"
  /\ request[r].kind # "exchange" /\ request[r].found = "rotated" =>
       token[request[r].token].state \in {"rotated", "deleted"}

\* What was decided on stands.
DecisionHolds(r) == Rests(r) =>
  LET x == request[r] IN
  /\ x.grant \in Grants /\ x.user = GrantUser(x.grant) /\ Eligible(x.user)
  /\ Proved(x.user, GrantKind(x.grant), grant[x.grant].revision)
  /\ x.at = "decided" => x.scopes # {} /\ x.scopes \subseteq Permitted(x.user, Use(r))
  /\ x.kind # "continue" => grant[x.grant].state = "live"

\* A flow is opened by one request at a time, and a grant decided about by one.
OneOpens == \A r1, r2 \in Requests :
  Opened(r1) /\ Opened(r2) /\ request[r1].flow = request[r2].flow => r1 = r2
OneHolds == \A r1, r2 \in Requests :
  Holds(r1) /\ Holds(r2) /\ request[r1].grant = request[r2].grant => r1 = r2

AllHold(r) == RequestHolds(r) /\ OpenedHolds(r) /\ MakerHolds(r) /\ HolderHolds(r) /\ DecisionHolds(r)
RequestsHold == OneOpens /\ OneHolds /\ \A r \in Requests : AllHold(r)

\* A flow past its selection has a grant of its own; a grant others see has a session and is its
\* flow's.
FlowsHold ==
  /\ \A f \in Flows :
       /\ flow[f].status \in {"none", "selection"} <=> flow[f].grant = None
       /\ flow[f].grant # None => Seen(flow[f].grant) /\ grant[flow[f].grant].flow = f
  /\ \A g \in Grants : Seen(g) =>
       /\ grant[g].session \in Sessions /\ session[grant[g].session].life # "absent"
       /\ grant[g].flow \in Flows /\ flow[grant[g].flow].grant = g

\* A grant has one code, which completed its flow, and is bound to it once it is consumed.
CodesHold ==
  /\ \A c \in Codes : code[c].state # "none" =>
       /\ Seen(code[c].grant) /\ code[c].scopes # {}
       /\ flow[grant[code[c].grant].flow].status = "complete"
       /\ code[c].state = "consumed" => grant[code[c].grant].code = c
  /\ \A g \in Grants : grant[g].code # None =>
       code[grant[g].code].state = "consumed" /\ code[grant[g].code].grant = g
  /\ \A c1, c2 \in Codes : code[c1].state # "none" /\ code[c2].state # "none"
                              /\ code[c1].grant = code[c2].grant => c1 = c2

\* A grant with a token had its code consumed, and has one token that can be renewed; what can
\* be used was never answered for.
TokensHold ==
  /\ \A t \in Tokens : token[t].state # "none" =>
       Seen(token[t].grant) /\ grant[token[t].grant].code # None
  /\ \A t1, t2 \in Tokens : token[t1].state = "live" /\ token[t2].state = "live"
                               /\ token[t1].grant = token[t2].grant => t1 = t2
  /\ \A c \in Codes : code[c].state \in {"none", "issued"} => presented[c] = 0
  /\ \A t \in Tokens : token[t].state \in {"none", "live"} => presented[t] = 0

Inv == /\ TypeOK /\ RequestsHold /\ FlowsHold /\ CodesHold /\ TokensHold
       /\ GrantsRestOnTheLiving /\ ReplaysEndTheGrant
=============================================================================
