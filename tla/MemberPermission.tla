--------------------------- MODULE MemberPermission ---------------------------
(***************************************************************************)
(* What a member may do with an application, alone or at a resource        *)
(* (apps/id/src/auth/member-permission.ts, grant-scopes.ts): the scopes    *)
(* left by every ceiling that applies, asked when a browser is authorised, *)
(* again when its code is exchanged, at every renewal, and by those who    *)
(* explain the member's access.  Operators change the policy in between.   *)
(*                                                                         *)
(* Scopes of identity belong to signing in, the others to the resource.    *)
(* A capability or an assignment without scopes stands for none.  Left     *)
(* out: who is authenticated, what ends a grant (OAuthGrants), the reasons *)
(* of refusals and their evidence, direct sessions of administrators       *)
(* (AdminAuthority) and machines.                                          *)
(***************************************************************************)
EXTENDS Naturals, FiniteSets

CONSTANTS
  Scopes,          \* everything a client may ask for
  IdentityScopes,  \* those that are about the person
  MaxChanges       \* bound: changes of the policy

ASSUME ScopesAssumption == IdentityScopes \subseteq Scopes /\ MaxChanges \in Nat

Targets == {"client", "client_resource"}
Kinds == {"authorization_code", "refresh_token"}
Assignees == {"member", "group", "organization"}

\* What must stand: status and window of the member, its user and organisation, of the member's
\* group and its place in it; what the client may do; the resource, and the client's link to it.
LoginFacts == {"member", "user", "organization", "client", "code"}
ResourceFacts == {"resource", "link"}
Facts == LoginFacts \cup ResourceFacts \cup {"group", "refresh"}

VARIABLES
  policy,     \* what operators set
  target,     \* what is asked for: the client alone, or a resource through it
  requested,  \* the scopes of the grant, as the browser asked for them
  code,       \* the scopes of an authorisation code
  refresh,    \* the scopes of the refresh token
  access,     \* the scopes of the last access token
  settled,    \* whether the policy is as it was when the last of these was issued
  changes     \* how often the policy has changed

policyVars == <<policy, target, requested, code, refresh, access, settled, changes>>

\* A capability or an assignment, which may be disabled or outside its window.
PolicyRows == Targets \X (Kinds \cup Assignees)

Policies == [standing : SUBSET Facts, off : SUBSET PolicyRows, client : SUBSET Scopes,
             resource : SUBSET Scopes, capability : [Targets -> [Kinds -> SUBSET Scopes]],
             assignment : [Targets -> [Assignees -> SUBSET Scopes]]]

\* The scopes a capability for the target may name.
Kept(t) == IF t = "client" THEN IdentityScopes ELSE Scopes \ IdentityScopes

\* Everything stands, and one principal or all of them are assigned everything.
PermissionInit ==
  /\ \E assigned \in {Assignees} \cup {{p} : p \in Assignees} :
       policy = [standing |-> Facts, off |-> {}, client |-> Scopes, resource |-> Scopes,
                 capability |-> [t \in Targets |-> [k \in Kinds |-> Kept(t)]],
                 assignment |-> [t \in Targets |-> [p \in Assignees |->
                                   IF p \in assigned THEN Scopes ELSE {}]]]
  /\ target = "client" /\ requested = {} /\ code = {} /\ refresh = {} /\ access = {}
  /\ settled = FALSE /\ changes = 0

(***************************************************************************)
(* Scopes                                                                  *)
(***************************************************************************)
Within(ceilings) == {s \in Scopes : \A ceiling \in ceilings : s \in ceiling}

\* Who asks for nothing in particular gets what every ceiling holds; {} refuses.
grantScopes(asked, ceilings) == IF asked \subseteq Within(ceilings) THEN asked ELSE {}
narrowScopes(asked, ceilings) == asked \cap Within(ceilings)

(***************************************************************************)
(* Facts                                                                   *)
(***************************************************************************)
loginEligible(p) == LoginFacts \subseteq p.standing
eligible(p) == loginEligible(p) /\ ResourceFacts \subseteq p.standing

Capability(p, t, kind) == IF <<t, kind>> \in p.off THEN {} ELSE p.capability[t][kind]

\* An entitlement reaches its member, the members of its group, or everyone.
matchingEntitlements(p, t) ==
  {q \in Assignees : <<t, q>> \notin p.off /\ (q = "group" => "group" \in p.standing)}

Assigned(p, t) == UNION {p.assignment[t][q] : q \in matchingEntitlements(p, t)}

LoginCeilings(p) == {p.client, Capability(p, "client", "authorization_code"), Assigned(p, "client")}

\* Mutant: the resource's own scopes do not count.
ResourceCeilingsOfClient(p) ==
  {p.client, Capability(p, "client_resource", "authorization_code"), Assigned(p, "client_resource")}

ResourceCeilings(p) ==
  {p.client, p.resource \ IdentityScopes,
   Capability(p, "client_resource", "authorization_code"), Assigned(p, "client_resource")}

Renewal(p, t, kind) == IF kind = "refresh_token" THEN {Capability(p, t, kind)} ELSE {}
Renewable(p, t, kind) ==
  kind = "refresh_token" => "refresh" \in p.standing /\ Capability(p, t, kind) # {}

(***************************************************************************)
(* Decisions: the scopes they approve                                      *)
(***************************************************************************)
\* Asked without a request: by those who explain a member's access, and for identity.
LoginScopes(p) == IF loginEligible(p) THEN Within(LoginCeilings(p)) ELSE {}

evaluateClientLoginPermission(p, kind, asked, original, narrow) ==
  LET ceilings == LoginCeilings(p) \cup {original} \cup Renewal(p, "client", kind) IN
  IF ~loginEligible(p) \/ ~Renewable(p, "client", kind) \/ ~(asked \subseteq original) THEN {}
  ELSE IF narrow THEN narrowScopes(asked, ceilings) ELSE grantScopes(asked, ceilings)

\* Mutant: a resource counts without a sign-in to its client.
ResourceScopesAlone(p) == IF eligible(p) THEN Within(ResourceCeilings(p)) ELSE {}

ResourceScopes(p) ==
  IF eligible(p) /\ LoginScopes(p) # {} THEN Within(ResourceCeilings(p)) ELSE {}

\* Mutant: scopes of identity that are not approved are kept.
IdentityOfRequest(p, asked) == asked \cap IdentityScopes

\* The request's scopes of identity, as far as the client's own login has them.
Identity(p, asked) == asked \cap IdentityScopes \cap LoginScopes(p)

evaluateUserResourcePermission(p, kind, asked, original, narrow) ==
  LET ceilings == ResourceCeilings(p) \cup {original} \cup Renewal(p, "client_resource", kind)
      beyond == asked \ IdentityScopes
      scopes == IF narrow THEN narrowScopes(beyond, ceilings) ELSE grantScopes(beyond, ceilings) IN
  IF \/ ~eligible(p) \/ ~Renewable(p, "client_resource", kind)
     \/ ~(asked \subseteq original) \/ LoginScopes(p) = {}
     \/ (~narrow /\ ~(asked \cap IdentityScopes \subseteq LoginScopes(p))) \/ scopes = {}
  THEN {} ELSE scopes \cup Identity(p, asked)

userResourcePolicy(p, t, kind, asked, original, narrow) ==
  IF t = "client" THEN evaluateClientLoginPermission(p, kind, asked, original, narrow)
                  ELSE evaluateUserResourcePermission(p, kind, asked, original, narrow)

\* What is shown to those who ask what a member may do.
memberAccess(p, t) == IF t = "client" THEN LoginScopes(p) ELSE ResourceScopes(p)

(***************************************************************************)
(* A grant                                                                 *)
(***************************************************************************)
createResourceGrant(t, asked) ==
  /\ requested = {} /\ asked # {} /\ asked \subseteq policy.client
  /\ IF t = "client" THEN loginEligible(policy) ELSE eligible(policy)
  /\ target' = t /\ requested' = asked
  /\ UNCHANGED <<policy, code, refresh, access, settled, changes>>

\* Consent: the code gets what is left of the request.
narrowAuthorizationCode ==
  /\ requested # {} /\ code = {} /\ refresh = {}
  /\ code' = userResourcePolicy(policy, target, "authorization_code", requested, requested, TRUE)
  /\ requested' = IF code' = {} THEN {} ELSE requested
  /\ settled' = TRUE
  /\ UNCHANGED <<policy, target, refresh, access, changes>>

\* The code, and later the refresh token, must fit as they are, or nothing is issued.
Exchange ==
  LET scopes == userResourcePolicy(policy, target, "authorization_code", code, requested, FALSE) IN
  /\ code # {} /\ scopes # {}
  /\ refresh' = scopes /\ access' = scopes /\ code' = {} /\ settled' = TRUE
  /\ UNCHANGED <<policy, target, requested, changes>>

\* A renewal asks for the token's scopes or fewer.  The provider gives the next token either.
Renew(asked) ==
  LET scopes == userResourcePolicy(policy, target, "refresh_token", asked, requested, FALSE) IN
  /\ refresh # {} /\ asked # {} /\ asked \subseteq refresh /\ scopes # {}
  /\ access' = scopes /\ refresh' \in {scopes, refresh} /\ settled' = TRUE
  /\ UNCHANGED <<policy, target, requested, code, changes>>

EndGrant ==
  /\ requested # {} /\ requested' = {} /\ code' = {} /\ refresh' = {} /\ access' = {}
  /\ settled' = FALSE /\ UNCHANGED <<policy, target, changes>>

(***************************************************************************)
(* Operators                                                               *)
(***************************************************************************)
Toggle(set, x) == IF x \in set THEN set \ {x} ELSE set \cup {x}

ChangePolicy(p) ==
  /\ changes < MaxChanges /\ changes' = changes + 1 /\ policy' = p /\ settled' = FALSE
  /\ UNCHANGED <<target, requested, code, refresh, access>>

\* Operators disable and enable, and windows begin and end.
setStatus(fact) == ChangePolicy([policy EXCEPT !.standing = Toggle(@, fact)])
setRowStatus(row) == ChangePolicy([policy EXCEPT !.off = Toggle(@, row)])
setClientScopes(s) == ChangePolicy([policy EXCEPT !.client = Toggle(@, s)])
setResourceScopes(s) == ChangePolicy([policy EXCEPT !.resource = Toggle(@, s)])

\* A capability's scopes fit its client, which can use it, and its resource, at the time.
validateScopes(t, k, scopes) ==
  /\ scopes \subseteq policy.client \cap Kept(t) /\ "code" \in policy.standing
  /\ t = "client_resource" => scopes \subseteq policy.resource
  /\ k = "refresh_token" => "refresh" \in policy.standing

\* Changed, created with its first scope or removed with its last.
setCapabilityScopes(t, k, s) ==
  LET scopes == Toggle(policy.capability[t][k], s) IN
  /\ scopes # {} => validateScopes(t, k, scopes)
  /\ ChangePolicy([policy EXCEPT !.capability[t][k] = scopes])

\* An assignment is checked against its resource, and neither against the client nor a capability.
setEntitlementScopes(t, q, s) ==
  LET scopes == Toggle(policy.assignment[t][q], s) IN
  /\ t = "client_resource" => scopes \subseteq policy.resource
  /\ ChangePolicy([policy EXCEPT !.assignment[t][q] = scopes])

PermissionNext ==
  \/ \E t \in Targets, asked \in SUBSET Scopes : createResourceGrant(t, asked)
  \/ narrowAuthorizationCode \/ Exchange \/ EndGrant
  \/ \E asked \in SUBSET Scopes : Renew(asked)
  \/ \E fact \in Facts : setStatus(fact)
  \/ \E row \in PolicyRows : setRowStatus(row)
  \/ \E s \in Scopes :
       \/ setClientScopes(s) \/ setResourceScopes(s)
       \/ \E t \in Targets : (\E k \in Kinds : setCapabilityScopes(t, k, s))
                             \/ (\E q \in Assignees : setEntitlementScopes(t, q, s))

PermissionSpec == PermissionInit /\ [][PermissionNext]_policyVars

(***************************************************************************)
(* Properties                                                              *)
(***************************************************************************)
\* Every variable keeps its type, and a capability names scopes its target may have.
PermissionTypeOK ==
  /\ policy \in Policies /\ target \in Targets /\ settled \in BOOLEAN /\ changes \in 0..MaxChanges
  /\ \A t \in Targets, k \in Kinds : policy.capability[t][k] \subseteq Kept(t)
  /\ {requested, code, refresh, access} \subseteq SUBSET Scopes

\* A scope at a time, what the policy says: someone the entitlement reaches has it, and the client,
\* the capability and, beyond identity, the resource, have it too.
Reaches(p, t, s) == \E q \in Assignees :
  s \in p.assignment[t][q] /\ <<t, q>> \notin p.off /\ (q = "group" => "group" \in p.standing)
Admits(p, t, s) ==
  /\ s \in p.client /\ Reaches(p, t, s)
  /\ s \in p.capability[t]["authorization_code"] /\ <<t, "authorization_code">> \notin p.off
  /\ LoginFacts \subseteq p.standing
  /\ t = "client_resource" => s \in p.resource /\ ResourceFacts \subseteq p.standing
Entitled(p, t, s) ==
  IF t = "client" \/ s \in IdentityScopes THEN Admits(p, "client", s)
  ELSE Admits(p, t, s) /\ \E id \in Scopes : Admits(p, "client", id)

\* Whatever was issued last was the member's at that moment, scope by scope, whichever of the
\* decisions, with their lists of ceilings and their exceptions for identity, issued it.
IssuedIsEntitled == settled => \A s \in code \cup (IF code = {} THEN access ELSE {}) :
                                 Entitled(policy, target, s)

\* A code that was narrowed to what its member may have can be exchanged while the policy stays:
\* the exchange, which is strict, never refuses what consent let through.
CodesAreExchangeable ==
  settled /\ code # {} =>
    userResourcePolicy(policy, target, "authorization_code", code, requested, FALSE) = code

\* What is shown of a member's access is what can be had: a request is narrowed to what it names
\* of the scopes shown, and refused if that is nothing.
ExplanationIsExact == \A t \in Targets, asked \in SUBSET Scopes :
  LET given == userResourcePolicy(policy, t, "authorization_code", asked, asked, TRUE) IN
  IF t = "client" THEN given = asked \cap memberAccess(policy, t)
  ELSE given \ IdentityScopes = asked \cap memberAccess(policy, t)

\* Codes and tokens stay within what the browser asked for, and an access token within its
\* refresh token as it was, however often that is renewed and whatever is assigned meanwhile.
RenewalNeverWidens ==
  [][/\ code' \cup refresh' \cup access' \subseteq requested'
     /\ refresh # {} => refresh' \cup access' \subseteq refresh]_policyVars

Grows(p, q) ==
  /\ p.standing \subseteq q.standing /\ q.off \subseteq p.off
  /\ p.client \subseteq q.client /\ p.resource \subseteq q.resource
  /\ \A t \in Targets : /\ \A k \in Kinds : p.capability[t][k] \subseteq q.capability[t][k]
                        /\ \A r \in Assignees : p.assignment[t][r] \subseteq q.assignment[t][r]

\* Giving more never takes anything away: no assignment, capability or scope that is added costs
\* a member access it had, to a client or to a resource.
MoreTakesNothingAway ==
  [][Grows(policy, policy') =>
       \A t \in Targets : memberAccess(policy, t) \subseteq memberAccess(policy', t)]_policyVars
===============================================================================
