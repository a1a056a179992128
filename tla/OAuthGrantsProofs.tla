-------------------------- MODULE OAuthGrantsProofs --------------------------
(***************************************************************************)
(* What a grant rests on and what it leaves, for any number of users,      *)
(* sessions, flows, grants, codes, tokens and requests at once, and any    *)
(* number of commands.  A step changes the rows of one request, or one     *)
(* command's; Frame says what the others need of it, and Grows that rows   *)
(* others can see keep whom they are of.                                   *)
(***************************************************************************)
EXTENDS OAuthGrants, TLAPS

(***************************************************************************)
(* Types                                                                   *)
(***************************************************************************)
RequestType ==
  [at : {"idle", "signed", "opened", "read", "unreferenced", "locked", "inserted", "decided"},
   kind : Resumes \cup {"none", "exchange", "refresh", "revoke"},
   user : Users \cup {None}, session : Sessions \cup {None},
   flow : Flows \cup {None}, grant : Grants \cup {None},
   code : Codes \cup {None}, token : Tokens \cup {None}, scopes : SUBSET Scopes,
   found : {"none", "issued", "consumed", "live", "rotated", "deleted"}]
FlowType == [status : {"none", "selection", "consent", "complete", "denied"},
             user : Users \cup {None}, grant : Grants \cup {None}]
GrantType == [state : {"none", "inserted", "live", "revoked"},
              session : Sessions \cup {None}, revision : Nat,
              flow : Flows \cup {None}, code : Codes \cup {None}, expired : BOOLEAN]
CodeType == [state : {"none", "issued", "consumed"},
             grant : Grants \cup {None}, scopes : SUBSET Scopes]
TokenType == [state : {"none", "live", "rotated", "deleted"},
              grant : Grants \cup {None}, scopes : SUBSET Scopes]
SessionType == [life : {"absent", "live", "ended"}, kind : Kinds, revision : Nat]
PolicyType ==
  /\ standing \in [Parties -> {"active", "disabled", "retired", "erased"}]
  /\ member \subseteq Users /\ window \subseteq Users
  /\ linked \in BOOLEAN /\ provider \in [Kinds -> [live : BOOLEAN, revision : Nat]]
  /\ ceiling \in [Ceilings -> SUBSET Scopes] /\ assigned \in [Users -> SUBSET Scopes]
RowsType ==
  /\ session \in [Sessions -> SessionType] /\ flow \in [Flows -> FlowType]
  /\ grant \in [Grants -> GrantType] /\ code \in [Codes -> CodeType]
  /\ token \in [Tokens -> TokenType]
RestType ==
  /\ request \in [Requests -> RequestType] /\ presented \in [Codes \cup Tokens -> 0..2]
  /\ requests \in Nat /\ moves \in Nat

LEMMA TypeParts == TypeOK <=> PolicyType /\ RowsType /\ RestType
BY DEF TypeOK, PolicyType, RowsType, RestType, RequestType, FlowType, GrantType, CodeType, TokenType,
       SessionType

LEMMA TypePartsNext == TypeOK' <=> PolicyType' /\ RowsType' /\ RestType'
BY DEF TypeOK, PolicyType, RowsType, RestType, RequestType, FlowType, GrantType, CodeType, TokenType,
       SessionType

LEMMA Names ==
  /\ None \notin Users /\ None \notin Grants /\ None \notin Codes /\ None \notin Tokens
  /\ None \notin Flows /\ None \notin Sessions
  /\ "organization" \notin Users /\ "client" \notin Users /\ "resource" \notin Users
  /\ Codes \cap Tokens = {} /\ UserOf \in [Sessions -> Users]
BY OAuthAssumption

LEMMA IdleType == Idle \in RequestType /\ Idle.at = "idle" /\ Idle.kind = "none"
BY DEF Idle, RequestType

LEMMA KindsDiffer == Resumes \cap TokenKinds = {} /\ "none" \notin Resumes \cup TokenKinds
BY DEF Resumes, TokenKinds

(***************************************************************************)
(* What others need of a step                                              *)
(***************************************************************************)
Grows ==
  /\ \A s \in Sessions :
       /\ session'[s].kind = session[s].kind
       /\ session[s].life # "absent" =>
            session'[s].life # "absent" /\ session'[s].revision = session[s].revision
  /\ \A c \in Codes : code[c].state # "none" =>
       /\ code'[c].grant = code[c].grant /\ code'[c].scopes = code[c].scopes
       /\ code'[c].state # "none" /\ (code[c].state = "consumed" => code'[c].state = "consumed")
  /\ \A t \in Tokens : token[t].state # "none" =>
       /\ token'[t].state # "none" /\ token'[t].grant = token[t].grant
       /\ token[t].state # "live" => token'[t].state # "live"
  /\ \A g \in Grants : Seen(g) =>
       /\ Seen(g)' /\ grant'[g].session = grant[g].session
       /\ grant'[g].flow = grant[g].flow /\ grant'[g].revision = grant[g].revision

SamePolicy(u) ==
  /\ Eligible(u)' = Eligible(u)
  /\ \A kind : Permitted(u, kind)' = Permitted(u, kind)
  /\ \A kind \in Kinds : \A revision : Proved(u, kind, revision)' = Proved(u, kind, revision)

Frame(q) == LET x == request[q] IN
  /\ request'[q] = x
  /\ Opened(q) => flow'[x.flow] = flow[x.flow]
  /\ Makes(q) => /\ grant'[x.grant].state = "inserted"
                 /\ grant'[x.grant].flow = grant[x.grant].flow
                 /\ grant'[x.grant].session = grant[x.grant].session
  /\ Holds(q) /\ x.kind = "exchange" => code'[x.code].state = code[x.code].state
  /\ Holds(q) /\ x.kind = "refresh" /\ token[x.token].state = "live" => token'[x.token].state = "live"
  /\ Rests(q) => /\ SamePolicy(x.user)
                 /\ grant'[x.grant].revision = grant[x.grant].revision
                 /\ grant'[x.grant].session = grant[x.grant].session
                 /\ grant[x.grant].state = "live" => grant'[x.grant].state = "live"

\* A decision reads the policy and nothing else.
LEMMA PolicyKept ==
  ASSUME UNCHANGED policyVars, NEW u
  PROVE  SamePolicy(u)
BY Zenon DEF policyVars, SamePolicy, Eligible, Permitted, Proved, Effective, Active

\* Requests about a token are about a grant that others see, of its user.
LEMMA GrantsOfRequests ==
  ASSUME Inv, NEW r \in Requests, request[r].kind \in TokenKinds, request[r].at # "unreferenced"
  PROVE  Seen(request[r].grant)
<1>1. RequestHolds(r)
  BY DEF Inv, RequestsHold, AllHold
<1>2. CASE request[r].kind = "exchange"
  BY <1>1, <1>2 DEF RequestHolds, Inv, CodesHold
<1>3. CASE request[r].kind \in {"refresh", "revoke"}
  BY <1>1, <1>3 DEF RequestHolds, Inv, TokensHold
<1> QED BY <1>2, <1>3 DEF TokenKinds

LEMMA FrameKeeps ==
  ASSUME Inv, TypeOK', Grows, NEW q \in Requests, Frame(q)
  PROVE  AllHold(q)'
<1> DEFINE x == request[q]
<1>0. /\ AllHold(q) /\ request'[q] = x /\ x \in RequestType /\ PolicyType /\ RowsType
      /\ RowsType'
  BY TypeParts, TypePartsNext DEF Inv, RequestsHold, Frame, RestType
<1> USE KindsDiffer
<1>1. RequestHolds(q)'
  <2>1. x.kind \in TokenKinds /\ x.at # "unreferenced" =>
          Seen(x.grant) /\ grant'[x.grant].session = grant[x.grant].session
    BY GrantsOfRequests DEF Grows, Seen
  <2>2. RequestHolds(q)
    BY <1>0 DEF AllHold
  <2>3. x.kind = "exchange" => /\ code'[x.code].grant = code[x.code].grant /\ code'[x.code].scopes = code[x.code].scopes
                               /\ code'[x.code].state # "none"
                               /\ code[x.code].state = "consumed" => code'[x.code].state = "consumed"
    BY <2>2 DEF RequestHolds, Grows
  <2>4. x.kind \in {"refresh", "revoke"} => token'[x.token].state # "none" /\ token'[x.token].grant = token[x.token].grant
    BY <2>2 DEF RequestHolds, Grows
  <2>5. x.kind \in Resumes => session'[x.session].life # "absent"
    BY <2>2 DEF RequestHolds, Grows
  <2> QED BY <1>0, <2>1, <2>2, <2>3, <2>4, <2>5 DEF RequestHolds, GrantUser
<1>2. OpenedHolds(q)'
  BY <1>0 DEF AllHold, OpenedHolds, Opened, Makes, Frame
<1>3. MakerHolds(q)'
  BY <1>0 DEF AllHold, MakerHolds, Makes, Frame
<1>4. HolderHolds(q)'
  <2>1. Holds(q) /\ x.kind # "exchange" /\ x.found = "rotated" =>
          token'[x.token].state \in {"rotated", "deleted"}
    <3> SUFFICES ASSUME Holds(q), x.kind # "exchange", x.found = "rotated"
                 PROVE  token'[x.token].state \in {"rotated", "deleted"}
      OBVIOUS
    <3>1. x.token \in Tokens /\ token[x.token].state \in {"rotated", "deleted"}
      BY <1>0 DEF AllHold, RequestHolds, HolderHolds, Holds, TokenKinds
    <3>2. token'[x.token].state \notin {"none", "live"}
      BY <3>1 DEF Grows
    <3> QED BY <1>0, <3>1, <3>2 DEF RowsType, TokenType
  <2>2. Holds(q)' = Holds(q)
    BY <1>0 DEF Holds
  <2> QED BY <1>0, <2>1, <2>2 DEF AllHold, HolderHolds, Holds, Frame
<1>5. DecisionHolds(q)'
  <2> SUFFICES ASSUME Rests(q) PROVE DecisionHolds(q)'
    BY <1>0 DEF DecisionHolds, Rests
  <2> DEFINE s == grant[x.grant].session
  <2>1. /\ x.grant \in Grants /\ x.user = GrantUser(x.grant) /\ Eligible(x.user)
        /\ Proved(x.user, GrantKind(x.grant), grant[x.grant].revision)
        /\ x.at = "decided" => x.scopes # {} /\ x.scopes \subseteq Permitted(x.user, Use(q))
        /\ x.kind # "continue" => grant[x.grant].state = "live"
    BY <1>0 DEF AllHold, DecisionHolds
  <2>2. s \in Sessions
    <3>1. CASE x.kind = "continue"
      BY <3>1, <1>0, Names DEF AllHold, MakerHolds, RequestHolds, Makes, Rests, Resumes
    <3>2. CASE x.kind # "continue"
      BY <3>2, <2>1 DEF Inv, FlowsHold, Seen
    <3> QED BY <3>1, <3>2
  <2>3. /\ grant'[x.grant].revision = grant[x.grant].revision /\ grant'[x.grant].session = s
        /\ grant[x.grant].state = "live" => grant'[x.grant].state = "live"
        /\ SamePolicy(x.user)
    BY DEF Frame
  <2>4. GrantUser(x.grant)' = GrantUser(x.grant) /\ GrantKind(x.grant)' = GrantKind(x.grant)
    BY <1>0, <2>2, <2>3 DEF GrantUser, GrantKind, Grows
  <2>5. session[s].kind \in Kinds
    BY <2>2, <1>0 DEF RowsType, SessionType
  <2>6. PICK u, kind, revision, use :
          /\ u = x.user /\ kind = GrantKind(x.grant) /\ revision = grant[x.grant].revision /\ use = Use(q)
    OBVIOUS
  <2>8. /\ Eligible(u)' = Eligible(u) /\ Permitted(u, use)' = Permitted(u, use)
        /\ Proved(u, kind, revision)' = Proved(u, kind, revision)
    <3>1. kind \in Kinds
      BY <2>5, <2>6 DEF GrantKind
    <3>2. SamePolicy(u)
      BY <2>3, <2>6
    <3> QED BY <3>1, <3>2, Zenon DEF SamePolicy
  <2>7. Use(q)' = Use(q) /\ x' = x
    BY <1>0 DEF Use
  <2>9. /\ Eligible(x.user)' /\ Permitted(x.user, Use(q))' = Permitted(x.user, Use(q))
        /\ Proved(x.user, GrantKind(x.grant), grant[x.grant].revision)'
    BY <1>0, <2>1, <2>3, <2>4, <2>6, <2>7, <2>8
  <2> QED BY <2>1, <2>3, <2>4, <2>7, <2>9, <1>0 DEF DecisionHolds
<1> QED BY <1>1, <1>2, <1>3, <1>4, <1>5 DEF AllHold

(***************************************************************************)
(* Steps that change one request and nothing else                          *)
(***************************************************************************)
LEMMA GrowsOfSame ==
  ASSUME Inv, UNCHANGED <<session, code, token>>,
         \A g \in Grants : Seen(g) => /\ Seen(g)' /\ grant'[g].session = grant[g].session
                                      /\ grant'[g].flow = grant[g].flow /\ grant'[g].revision = grant[g].revision
  PROVE  Grows
BY DEF Grows

\* Who opens or holds changes only with the request that steps.
LEMMA OthersAlone ==
  ASSUME Inv, NEW r \in Requests, \A q \in Requests \ {r} : request'[q] = request[q],
         Opened(r)' => \A q \in Requests \ {r} : Opened(q) => request[q].flow # request'[r].flow,
         Holds(r)' => \A q \in Requests \ {r} : Holds(q) => request[q].grant # request'[r].grant
  PROVE  OneOpens' /\ OneHolds'
<1>1. \A q \in Requests \ {r} : Opened(q)' = Opened(q) /\ Holds(q)' = Holds(q)
  BY DEF Opened, Holds
<1>2. OneOpens /\ OneHolds
  BY DEF Inv, RequestsHold
<1>3. OneOpens'
  BY <1>1, <1>2 DEF OneOpens
<1>4. OneHolds'
  BY <1>1, <1>2 DEF OneHolds
<1> QED BY <1>3, <1>4

LEMMA RowsKept ==
  ASSUME Inv, UNCHANGED <<policyVars, session, flow, grant, code, token, presented>>
  PROVE  FlowsHold' /\ CodesHold' /\ TokensHold' /\ GrantsRestOnTheLiving' /\ ReplaysEndTheGrant'
<1>1. FlowsHold /\ CodesHold /\ TokensHold /\ GrantsRestOnTheLiving /\ ReplaysEndTheGrant
  BY DEF Inv
<1>2. FlowsHold'
  BY <1>1 DEF FlowsHold, Seen
<1>3. CodesHold'
  BY <1>1 DEF CodesHold, Seen
<1>4. TokensHold'
  BY <1>1 DEF TokensHold, Seen
<1>5. GrantsRestOnTheLiving'
  BY <1>1 DEF GrantsRestOnTheLiving, policyVars, Active, GrantUser, GrantKind
<1>6. ReplaysEndTheGrant'
  BY <1>1 DEF ReplaysEndTheGrant
<1> QED BY <1>2, <1>3, <1>4, <1>5, <1>6

LEMMA RequestStep ==
  ASSUME Inv, NEW r \in Requests, NEW x \in RequestType, request' = [request EXCEPT ![r] = x],
         UNCHANGED <<policyVars, session, flow, grant, code, token, presented, moves>>,
         requests' \in Nat,
         AllHold(r)',
         Opened(r)' => \A q \in Requests \ {r} : Opened(q) => request[q].flow # x.flow,
         Holds(r)' => \A q \in Requests \ {r} : Holds(q) => request[q].grant # x.grant
  PROVE  Inv'
<1>0. request \in [Requests -> RequestType] /\ PolicyType /\ RowsType /\ RestType
  BY TypeParts DEF Inv, RestType
<1>1. TypeOK'
  BY <1>0, TypePartsNext DEF PolicyType, RowsType, RestType, policyVars
<1>2. request'[r] = x /\ \A q \in Requests \ {r} : request'[q] = request[q]
  BY <1>0
<1>3. Grows
  BY GrowsOfSame DEF Seen
<1>4. ASSUME NEW q \in Requests \ {r} PROVE AllHold(q)'
  <2>1. Frame(q)
    BY <1>2, PolicyKept DEF Frame, MakerHolds, Inv, RequestsHold, AllHold
  <2> QED BY <1>1, <1>3, <2>1, FrameKeeps
<1>5. OneOpens' /\ OneHolds'
  BY <1>2, OthersAlone
<1>6. RequestsHold'
  BY <1>4, <1>5 DEF RequestsHold
<1> QED BY <1>1, <1>6, RowsKept DEF Inv

LEMMA RequestFacts ==
  ASSUME Inv, NEW r \in Requests
  PROVE  /\ request \in [Requests -> RequestType] /\ request[r] \in RequestType
         /\ PolicyType /\ RowsType /\ RestType /\ AllHold(r) /\ requests \in Nat
BY TypeParts DEF Inv, RequestsHold, RestType

LEMMA resumeKeeps ==
  ASSUME Inv, NEW r \in Requests, NEW f \in Flows, NEW s \in Sessions, NEW kind \in Resumes,
         resume(r, f, s, kind)
  PROVE  Inv'
<1> PICK asked \in SUBSET Scopes :
      request' = [request EXCEPT ![r] = [Idle EXCEPT !.at = "signed", !.kind = kind,
                    !.flow = f, !.session = s, !.user = UserOf[s], !.scopes = asked]]
  <2>1. (IF kind = "accept" THEN (SUBSET Scopes) \ {{}} ELSE {Scopes}) \subseteq SUBSET Scopes
    OBVIOUS
  <2> QED BY <2>1 DEF resume
<1> DEFINE x == [Idle EXCEPT !.at = "signed", !.kind = kind, !.flow = f, !.session = s,
                             !.user = UserOf[s], !.scopes = asked]
<1>1. /\ x.at = "signed" /\ x.kind = kind /\ x.flow = f /\ x.session = s /\ x.user = UserOf[s]
      /\ x \in RequestType
  BY Names DEF Idle, RequestType
<1>2. request'[r] = x /\ requests' \in Nat /\ session[s].life = "live" /\ UNCHANGED <<session, code, token>>
  BY RequestFacts DEF resume
<1>3. AllHold(r)' /\ ~Opened(r)' /\ ~Holds(r)'
  <2>1. RequestHolds(r)'
    BY <1>1, <1>2, KindsDiffer DEF RequestHolds, Resumes, TokenKinds
  <2>2. ~Opened(r)' /\ ~Makes(r)' /\ ~Holds(r)' /\ ~Rests(r)'
    BY <1>1, <1>2 DEF Opened, Makes, Holds, Rests
  <2> QED BY <2>1, <2>2 DEF AllHold, OpenedHolds, MakerHolds, HolderHolds, DecisionHolds
<1> HIDE DEF x
<1>4. request' = [request EXCEPT ![r] = x]
  BY DEF x
<1> QED BY <1>1, <1>2, <1>3, <1>4, RequestStep DEF resume

LEMMA OpenFlowKeeps ==
  ASSUME Inv, NEW r \in Requests, OpenFlow(r)
  PROVE  Inv'
<1> DEFINE f == flow[request[r].flow]
           x == [request[r] EXCEPT !.at = "opened", !.grant = f.grant]
<1>0. /\ RequestHolds(r) /\ request[r] \in RequestType /\ request[r].kind \in Resumes
      /\ request[r].flow \in Flows /\ request \in [Requests -> RequestType] /\ flow \in [Flows -> FlowType]
      /\ requests \in Nat
  BY RequestFacts DEF AllHold, RequestHolds, OpenFlow, RowsType
<1>1. /\ x \in RequestType /\ x.at = "opened" /\ x.kind = request[r].kind /\ x.flow = request[r].flow
      /\ x.grant = f.grant /\ x.session = request[r].session /\ x.user = request[r].user
  BY <1>0 DEF RequestType, FlowType
<1>2. request' = [request EXCEPT ![r] = x] /\ request'[r] = x /\ requests' \in Nat
  BY <1>0 DEF OpenFlow
<1>3. RequestHolds(r)'
  BY <1>0, <1>1, <1>2, KindsDiffer DEF RequestHolds, OpenFlow, Resumes, TokenKinds
<1>4. ~Makes(r)' /\ ~Holds(r)' /\ ~Rests(r)' /\ Opened(r)'
  BY <1>0, <1>1, <1>2 DEF Makes, Holds, Rests, Opened
<1>5. OpenedHolds(r)'
  <2>1. f.status \in {"selection", "consent"} /\ (x.kind = "continue" => f.status = "selection")
    BY <1>1 DEF OpenFlow
  <2>2. flow' = flow
    BY DEF OpenFlow
  <2> QED BY <1>1, <1>2, <1>4, <2>1, <2>2 DEF OpenedHolds
<1>6. \A q \in Requests \ {r} : Opened(q) => request[q].flow # x.flow
  BY <1>1, RequestFacts, KindsDiffer DEF OpenFlow, FlowFree, Opened, AllHold, RequestHolds
<1>7. AllHold(r)'
  BY <1>3, <1>4, <1>5 DEF AllHold, MakerHolds, HolderHolds, DecisionHolds
<1> HIDE DEF x
<1> QED BY <1>1, <1>2, <1>4, <1>6, <1>7, RequestStep DEF OpenFlow

LEMMA lockKeeps ==
  ASSUME Inv, NEW r \in Requests, lockResourceGrantPolicy(r)
  PROVE  Inv'
<1> DEFINE x == [request[r] EXCEPT !.at = "locked"]
<1>0. /\ AllHold(r) /\ request[r] \in RequestType /\ request \in [Requests -> RequestType]
      /\ requests \in Nat
  BY RequestFacts
<1>1. /\ x \in RequestType /\ x.at = "locked"
      /\ \A k \in {"kind", "user", "session", "flow", "grant", "code", "token", "scopes", "found"} : x[k] = request[r][k]
  BY <1>0 DEF RequestType
<1>2. request' = [request EXCEPT ![r] = x] /\ request'[r] = x /\ requests' \in Nat
  BY <1>0 DEF lockResourceGrantPolicy, At
<1>3. ~Makes(r)' /\ ~Holds(r)' /\ ~Rests(r)'
  BY <1>1, <1>2 DEF Makes, Holds, Rests
<1>4. RequestHolds(r)'
  BY <1>0, <1>1, <1>2, KindsDiffer
     DEF AllHold, RequestHolds, lockResourceGrantPolicy, Resumes, TokenKinds, GrantUser
<1>5. OpenedHolds(r)' /\ (Opened(r)' => Opened(r))
  <2>1. Opened(r)' => Opened(r) /\ ~Makes(r)
    BY <1>0, <1>1, <1>2, KindsDiffer DEF AllHold, RequestHolds, Opened, Makes, lockResourceGrantPolicy
  <2> QED BY <2>1, <1>0, <1>1, <1>2, <1>3 DEF AllHold, OpenedHolds, lockResourceGrantPolicy
<1>6. Opened(r)' => \A q \in Requests \ {r} : Opened(q) => request[q].flow # x.flow
  BY <1>1, <1>5 DEF Inv, RequestsHold, OneOpens
<1>7. AllHold(r)'
  BY <1>3, <1>4, <1>5 DEF AllHold, MakerHolds, HolderHolds, DecisionHolds
<1> HIDE DEF x
<1> QED BY <1>1, <1>2, <1>3, <1>6, <1>7, RequestStep DEF lockResourceGrantPolicy

LEMMA DecideFlowKeeps ==
  ASSUME Inv, NEW r \in Requests, DecideFlow(r)
  PROVE  Inv'
<1> DEFINE g == request[r].grant
           narrowed == request[r].scopes \cap Permitted(request[r].user, "authorize")
           x == [request[r] EXCEPT !.at = "decided", !.scopes = narrowed]
<1>0. /\ AllHold(r) /\ request[r] \in RequestType /\ request \in [Requests -> RequestType]
      /\ requests \in Nat /\ RowsType
  BY RequestFacts
<1>1. /\ x \in RequestType /\ x.at = "decided" /\ x.scopes = narrowed
      /\ \A k \in {"kind", "user", "session", "flow", "grant", "code", "token", "found"} : x[k] = request[r][k]
  BY <1>0 DEF RequestType
<1>2. request' = [request EXCEPT ![r] = x] /\ request'[r] = x /\ requests' \in Nat
  BY <1>0 DEF DecideFlow
<1>3. request[r].kind \in Resumes /\ Opened(r) /\ (request[r].kind = "continue" => request[r].at = "inserted")
  BY <1>0, KindsDiffer DEF DecideFlow, AllHold, RequestHolds, Resumes, Opened
<1>4. ~Holds(r)' /\ Opened(r)' /\ (Makes(r)' <=> Makes(r))
  BY <1>1, <1>2, <1>3, KindsDiffer DEF Holds, Opened, Makes, DecideFlow
<1>5. RequestHolds(r)'
  <2>1. x.kind # "continue" => g # None
    BY <1>0, <1>1, <1>3 DEF AllHold, RequestHolds, DecideFlow
  <2>2. x.kind \notin TokenKinds /\ x.kind # "none"
    BY <1>1, <1>3, KindsDiffer
  <2>3. UNCHANGED <<session, code, token, grant>>
    BY DEF DecideFlow
  <2> QED BY <1>0, <1>1, <1>2, <1>3, <2>1, <2>2, <2>3 DEF AllHold, RequestHolds, TokenKinds
<1>6. OpenedHolds(r)' /\ MakerHolds(r)' /\ HolderHolds(r)'
  BY <1>0, <1>1, <1>2, <1>3, <1>4 DEF AllHold, OpenedHolds, MakerHolds, HolderHolds, DecideFlow
<1>7. DecisionHolds(r)'
  <2>1. g \in Grants
    <3>1. CASE request[r].kind = "continue"
      BY <3>1, <1>0, <1>3 DEF AllHold, MakerHolds, Makes
    <3>2. CASE request[r].kind # "continue"
      BY <3>2, <1>0, <1>3 DEF AllHold, RequestHolds, DecideFlow, RequestType
    <3> QED BY <3>1, <3>2
  <2>2. request[r].user = GrantUser(g)
    BY <1>0, <1>3 DEF DecideFlow, GrantUser, AllHold, RequestHolds
  <2>3. Proved(GrantUser(g), GrantKind(g), grant[g].revision) /\ narrowed # {}
    BY DEF DecideFlow, currentGrantAuthentication
  <2>4. Eligible(request[r].user) /\ narrowed \subseteq Permitted(request[r].user, "authorize")
    BY <2>3 DEF Permitted
  <2>5. request[r].kind # "continue" => grant[g].state = "live"
    <3>1. request[r].kind # "continue" => ~Makes(r) /\ g # None /\ g = flow[request[r].flow].grant /\ request[r].flow \in Flows
      BY <1>0, <1>3 DEF Makes, AllHold, OpenedHolds, RequestHolds, DecideFlow
    <3>2. request[r].kind # "continue" => Seen(g)
      BY <3>1 DEF Inv, FlowsHold
    <3> QED BY <3>2 DEF Seen, DecideFlow
  <2>6. UNCHANGED <<policyVars, session, grant>> /\ Use(r)' = "authorize"
    BY <1>1, <1>2, <1>3, KindsDiffer DEF DecideFlow, Use, TokenKinds
  <2>7. x.kind = request[r].kind /\ x.user = request[r].user /\ x.grant = g
    BY <1>1
  <2> HIDE DEF x, narrowed, g
  <2> QED BY <1>1, <1>2, <2>1, <2>2, <2>3, <2>4, <2>5, <2>6, <2>7
          DEF DecisionHolds, policyVars, Eligible, Permitted, Proved, Effective, Active, GrantUser, GrantKind
<1>8. \A q \in Requests \ {r} : Opened(q) => request[q].flow # x.flow
  BY <1>1, <1>3 DEF Inv, RequestsHold, OneOpens
<1>9. AllHold(r)'
  BY <1>5, <1>6, <1>7 DEF AllHold
<1> HIDE DEF x
<1> QED BY <1>1, <1>2, <1>4, <1>8, <1>9, RequestStep DEF DecideFlow

LEMMA ReadCodeKeeps ==
  ASSUME Inv, NEW r \in Requests, NEW c \in Codes, ReadCode(r, c)
  PROVE  Inv'
<1> DEFINE g == code[c].grant
           y == [Idle EXCEPT !.at = "read", !.kind = "exchange", !.code = c, !.grant = g,
                   !.user = GrantUser(g), !.scopes = code[c].scopes]
           z == [Idle EXCEPT !.at = "unreferenced", !.kind = "exchange", !.code = c]
           x == IF code[c].state = "issued" THEN y ELSE z
<1>0. RowsType /\ request \in [Requests -> RequestType] /\ requests \in Nat
  BY RequestFacts
<1>1. Seen(g) /\ code[c].state # "none" /\ code[c].state \in {"none", "issued", "consumed"}
  BY <1>0 DEF ReadCode, Inv, CodesHold, RowsType, CodeType
<1>2. GrantUser(g) \in Users /\ code[c].scopes \subseteq Scopes /\ g \in Grants
  BY <1>0, <1>1, Names DEF GrantUser, Inv, FlowsHold, RowsType, CodeType, Seen
<1>3. /\ y \in RequestType /\ z \in RequestType /\ x \in RequestType
      /\ y.at = "read" /\ y.kind = "exchange" /\ y.code = c /\ y.grant = g /\ y.user = GrantUser(g)
      /\ y.scopes = code[c].scopes /\ z.at = "unreferenced" /\ z.kind = "exchange" /\ z.code = c
  BY <1>2 DEF Idle, RequestType
<1>4. request' = [request EXCEPT ![r] = x] /\ request'[r] = x /\ requests' \in Nat
  BY <1>0 DEF ReadCode
<1>5. UNCHANGED <<session, code, token, grant>>
  BY DEF ReadCode
<1> HIDE DEF y, z
<1>6. RequestHolds(r)'
  <2>1. CASE code[c].state = "issued"
    BY <2>1, <1>1, <1>3, <1>4, <1>5, KindsDiffer DEF RequestHolds, Resumes, TokenKinds, GrantUser
  <2>2. CASE code[c].state = "consumed"
    BY <2>2, <1>1, <1>3, <1>4, <1>5, KindsDiffer DEF RequestHolds, Resumes, TokenKinds
  <2> QED BY <1>1, <2>1, <2>2
<1>7. ~Opened(r)' /\ ~Holds(r)' /\ ~Makes(r)' /\ ~Rests(r)'
  BY <1>3, <1>4 DEF Opened, Holds, Makes, Rests, Resumes
<1>8. AllHold(r)'
  BY <1>6, <1>7 DEF AllHold, OpenedHolds, MakerHolds, HolderHolds, DecisionHolds
<1> HIDE DEF x
<1> QED BY <1>3, <1>4, <1>7, <1>8, RequestStep DEF ReadCode

LEMMA ReadTokenKeeps ==
  ASSUME Inv, NEW r \in Requests, NEW t \in Tokens, NEW kind \in {"refresh", "revoke"},
         ReadToken(r, t, kind)
  PROVE  Inv'
<1> DEFINE g == token[t].grant
<1> PICK asked \in (IF kind = "refresh" THEN (SUBSET token[t].scopes) \ {{}} ELSE {{}}) :
      request' = [request EXCEPT ![r] = [Idle EXCEPT !.at = "read", !.kind = kind, !.token = t,
        !.grant = token[t].grant, !.user = GrantUser(token[t].grant), !.scopes = asked]]
  BY DEF ReadToken
<1> DEFINE x == [Idle EXCEPT !.at = "read", !.kind = kind, !.token = t,
        !.grant = token[t].grant, !.user = GrantUser(token[t].grant), !.scopes = asked]
<1>0. RowsType /\ request \in [Requests -> RequestType] /\ requests \in Nat
  BY RequestFacts
<1>1. Seen(g) /\ token[t].state # "none"
  BY DEF ReadToken, Inv, TokensHold
<1>2. /\ GrantUser(g) \in Users /\ asked \subseteq Scopes /\ g \in Grants
      /\ kind = "refresh" => asked # {}
  <2>1. token[t].scopes \subseteq Scopes
    BY <1>0 DEF RowsType, TokenType
  <2>2. asked \subseteq Scopes /\ (kind = "refresh" => asked # {})
    <3>1. CASE kind = "refresh"
      BY <3>1, <2>1
    <3>2. CASE kind # "refresh"
      BY <3>2
    <3> QED BY <3>1, <3>2
  <2>3. g \in Grants /\ grant[g].session \in Sessions
    BY <1>1 DEF Inv, FlowsHold, Seen
  <2> QED BY <2>2, <2>3, Names DEF GrantUser
<1>3. /\ x \in RequestType /\ x.at = "read" /\ x.kind = kind /\ x.token = t /\ x.grant = g
      /\ x.user = GrantUser(g) /\ x.scopes = asked
  BY <1>2 DEF Idle, RequestType
<1>4. request' = [request EXCEPT ![r] = x]
  OBVIOUS
<1>5. UNCHANGED <<session, code, token, grant>>
  BY DEF ReadToken
<1> HIDE DEF x
<1>9. request'[r] = x /\ requests' \in Nat
  BY <1>0, <1>4 DEF ReadToken
<1>6. RequestHolds(r)'
  BY <1>1, <1>2, <1>3, <1>9, <1>5, KindsDiffer DEF RequestHolds, Resumes, TokenKinds, GrantUser
<1>7. ~Opened(r)' /\ ~Holds(r)' /\ ~Makes(r)' /\ ~Rests(r)'
  BY <1>3, <1>9 DEF Opened, Holds, Makes, Rests, Resumes
<1>8. AllHold(r)'
  BY <1>6, <1>7 DEF AllHold, OpenedHolds, MakerHolds, HolderHolds, DecisionHolds
<1> QED BY <1>3, <1>4, <1>7, <1>8, <1>9, RequestStep DEF ReadToken

LEMMA DecideTokenKeeps ==
  ASSUME Inv, NEW r \in Requests, DecideToken(r)
  PROVE  Inv'
<1> DEFINE g == request[r].grant
           state == IF request[r].kind = "exchange" THEN code[request[r].code].state
                                                    ELSE token[request[r].token].state
           x == [request[r] EXCEPT !.at = "decided", !.found = state]
<1>0. /\ AllHold(r) /\ request[r] \in RequestType /\ request \in [Requests -> RequestType]
      /\ requests \in Nat /\ RowsType /\ request[r].kind \in TokenKinds /\ request[r].at = "locked"
  BY RequestFacts DEF DecideToken, TokenKinds
<1>1. RequestHolds(r) /\ Seen(g) /\ request[r].user = GrantUser(g)
  BY <1>0, GrantsOfRequests DEF AllHold, RequestHolds
<1>2. state \in {"none", "issued", "consumed", "live", "rotated", "deleted"}
  BY <1>0, <1>1 DEF RequestHolds, TokenKinds, RowsType, CodeType, TokenType
<1>3. /\ x \in RequestType /\ x.at = "decided" /\ x.found = state
      /\ \A k \in {"kind", "user", "session", "flow", "grant", "code", "token", "scopes"} : x[k] = request[r][k]
  <2> HIDE DEF state
  <2>1. x \in RequestType
    BY <1>0, <1>2 DEF RequestType
  <2> QED BY <1>0, <2>1 DEF RequestType
<1>4. request' = [request EXCEPT ![r] = x] /\ request'[r] = x /\ requests' \in Nat
  BY <1>0 DEF DecideToken
<1>5. UNCHANGED <<policyVars, session, code, token, grant>>
  BY DEF DecideToken
<1>6. x.kind = request[r].kind /\ x.kind \in TokenKinds /\ x.kind \notin Resumes /\ x.kind # "none"
  BY <1>0, <1>3, KindsDiffer
<1>7. RequestHolds(r)'
  BY <1>0, <1>1, <1>3, <1>4, <1>5, <1>6 DEF RequestHolds, GrantUser
<1>8. ~Opened(r)' /\ ~Makes(r)' /\ HolderHolds(r)'
  BY <1>0, <1>3, <1>4, <1>5, <1>6 DEF Opened, Makes, HolderHolds, Resumes
<1>9. DecisionHolds(r)'
  <2> SUFFICES ASSUME request[r].kind # "revoke" PROVE DecisionHolds(r)'
    BY <1>4, <1>6 DEF DecisionHolds, Rests
  <2>1. /\ grant[g].state = "live" /\ Proved(GrantUser(g), GrantKind(g), grant[g].revision)
        /\ request[r].scopes \subseteq Permitted(request[r].user, request[r].kind)
    BY DEF DecideToken, currentGrantAuthentication
  <2>2. request[r].scopes # {}
    BY <1>0, <1>1 DEF RequestHolds, Inv, CodesHold, TokenKinds
  <2>3. Eligible(request[r].user)
    BY <2>1, <2>2 DEF Permitted
  <2>4. Use(r)' = request[r].kind
    BY <1>0, <1>4, <1>6 DEF Use, TokenKinds
  <2>5. x.user = request[r].user /\ x.grant = g /\ x.scopes = request[r].scopes
    BY <1>3
  <2> HIDE DEF x, g
  <2> QED BY <1>1, <1>3, <1>4, <1>5, <1>6, <2>1, <2>2, <2>3, <2>4, <2>5
          DEF DecisionHolds, policyVars, Eligible, Permitted, Proved, Effective, Active, GrantUser, GrantKind, Seen
<1>10. \A q \in Requests \ {r} : Holds(q) => request[q].grant # x.grant
  BY <1>3, KindsDiffer DEF DecideToken, GrantFree, Holds
<1>11. AllHold(r)'
  BY <1>7, <1>8, <1>9 DEF AllHold, OpenedHolds, MakerHolds
<1> HIDE DEF x
<1> QED BY <1>3, <1>4, <1>8, <1>10, <1>11, RequestStep DEF DecideToken

(***************************************************************************)
(* Flows, and the grants they make                                         *)
(***************************************************************************)
\* The others go on as they were.
LEMMA OthersKeep ==
  ASSUME Inv, TypeOK', Grows, NEW r \in Requests, AllHold(r)',
         \A q \in Requests \ {r} : Frame(q),
         Opened(r)' => \A q \in Requests \ {r} : Opened(q) => request[q].flow # request'[r].flow,
         Holds(r)' => \A q \in Requests \ {r} : Holds(q) => request[q].grant # request'[r].grant
  PROVE  RequestsHold'
<1>1. \A q \in Requests \ {r} : request'[q] = request[q]
  BY DEF Frame
<1>2. \A q \in Requests \ {r} : AllHold(q)'
  BY FrameKeeps
<1> QED BY <1>1, <1>2, OthersAlone DEF RequestsHold

LEMMA IdleHolds ==
  ASSUME NEW r \in Requests, request'[r] = Idle
  PROVE  AllHold(r)' /\ ~Opened(r)' /\ ~Holds(r)'
<1>1. request'[r].at = "idle" /\ request'[r].kind = "none"
  BY IdleType
<1> QED BY <1>1 DEF AllHold, RequestHolds, OpenedHolds, MakerHolds, HolderHolds, DecisionHolds, Opened,
                    Makes, Holds, Rests, Resumes, TokenKinds

LEMMA EndKeeps ==
  ASSUME Inv, TypeOK', Grows, NEW r \in Requests, Ends(r), \A q \in Requests \ {r} : Frame(q)
  PROVE  RequestsHold'
<1>1. request'[r] = Idle
  BY RequestFacts DEF Ends
<1> QED BY <1>1, IdleHolds, OthersKeep

LEMMA OthersSame ==
  ASSUME Inv, NEW r \in Requests, Ends(r)
  PROVE  \A q \in Requests \ {r} : request'[q] = request[q]
BY RequestFacts DEF Ends

LEMMA startKeeps ==
  ASSUME Inv, NEW f \in Flows, start(f)
  PROVE  Inv'
<1> PICK u \in Users \cup {None} :
      flow' = [flow EXCEPT ![f] = [status |-> "selection", user |-> u, grant |-> None]]
  BY Names DEF start
<1>0. PolicyType /\ RowsType /\ RestType
  BY TypeParts DEF Inv
<1>1. /\ UNCHANGED <<policyVars, session, grant, code, token, request, presented, requests, moves>>
      /\ flow[f].status = "none" /\ flow \in [Flows -> FlowType]
  BY <1>0 DEF start, RowsType
<1>2. TypeOK'
  BY <1>0, <1>1, TypePartsNext DEF PolicyType, RowsType, RestType, policyVars, FlowType
<1>3. flow'[f].status = "selection" /\ flow'[f].grant = None /\ \A e \in Flows \ {f} : flow'[e] = flow[e]
  BY <1>1
<1>4. FlowsHold /\ CodesHold
  BY DEF Inv
<1>5. FlowsHold'
  BY <1>1, <1>3, <1>4, Names DEF FlowsHold, Seen
<1>6. CodesHold'
  <2>1. \A c \in Codes : code[c].state # "none" => grant[code[c].grant].flow \in Flows \ {f}
    BY <1>1, <1>4 DEF CodesHold, FlowsHold, Seen
  <2> QED BY <1>1, <1>3, <1>4, <2>1 DEF CodesHold, Seen
<1>7. TokensHold' /\ GrantsRestOnTheLiving' /\ ReplaysEndTheGrant'
  BY <1>1 DEF Inv, TokensHold, GrantsRestOnTheLiving, ReplaysEndTheGrant, Seen, policyVars, Active,
              GrantUser, GrantKind
<1>8. RequestsHold'
  <2>1. Grows
    BY <1>1, GrowsOfSame DEF Seen
  <2>2. ASSUME NEW q \in Requests PROVE Frame(q)
    <3>1. Opened(q) => request[q].flow \in Flows \ {f}
      BY <1>1, RequestFacts DEF AllHold, OpenedHolds, RequestHolds, Opened
    <3> QED BY <1>1, <1>3, <3>1, PolicyKept, RequestFacts DEF Frame, AllHold, MakerHolds
  <2>3. \A q \in Requests : AllHold(q)'
    BY <1>2, <2>1, <2>2, FrameKeeps
  <2>4. OneOpens' /\ OneHolds'
    BY <1>1 DEF Inv, RequestsHold, OneOpens, OneHolds, Opened, Holds
  <2> QED BY <2>3, <2>4 DEF RequestsHold
<1> QED BY <1>2, <1>5, <1>6, <1>7, <1>8 DEF Inv

LEMMA createResourceGrantKeeps ==
  ASSUME Inv, NEW r \in Requests, NEW g \in Grants, createResourceGrant(r, g)
  PROVE  Inv'
<1> DEFINE s == request[r].session
           made == [state |-> "inserted", session |-> s, revision |-> session[s].revision,
                    flow |-> request[r].flow, code |-> None, expired |-> FALSE]
<1>0. /\ RequestHolds(r) /\ OpenedHolds(r) /\ request[r] \in RequestType
      /\ request \in [Requests -> RequestType] /\ PolicyType /\ RowsType /\ RestType
  BY RequestFacts DEF AllHold
<1>1. /\ request[r].kind = "continue" /\ request[r].at = "locked" /\ s \in Sessions
      /\ request[r].flow \in Flows /\ request[r].user = UserOf[s]
      /\ grant' = [grant EXCEPT ![g] = made] /\ grant[g].state = "none"
      /\ UNCHANGED <<policyVars, session, flow, code, token, presented, requests, moves>>
  BY <1>0 DEF createResourceGrant, RequestHolds, Resumes
<1>2. made \in GrantType
  BY <1>0, <1>1 DEF GrantType, RowsType, SessionType
<1>3. grant'[g] = made /\ \A h \in Grants \ {g} : grant'[h] = grant[h]
  BY <1>0, <1>1 DEF RowsType
<1>4. /\ request'[r].at = "inserted" /\ request'[r].grant = g
      /\ \A k \in {"kind", "user", "session", "flow"} : request'[r][k] = request[r][k]
      /\ request' \in [Requests -> RequestType] /\ \A q \in Requests \ {r} : request'[q] = request[q]
  BY <1>0 DEF createResourceGrant, RequestType
<1>5. TypeOK'
  BY <1>0, <1>1, <1>2, <1>4, TypePartsNext DEF PolicyType, RowsType, RestType, policyVars
<1>6. ~Seen(g) /\ ~Seen(g)' /\ \A h : Seen(h) => h \in Grants \ {g}
  BY <1>1, <1>3 DEF Seen
<1>7. Grows
  BY <1>1, <1>3, <1>6, GrowsOfSame DEF Seen
<1>8. AllHold(r)'
  <2>1. RequestHolds(r)'
    BY <1>0, <1>1, <1>4, KindsDiffer DEF RequestHolds, Resumes, TokenKinds
  <2>2. Opened(r) /\ Makes(r)' /\ ~Holds(r)'
    BY <1>1, <1>4 DEF Opened, Makes, Holds, Resumes, TokenKinds
  <2>3. OpenedHolds(r)'
    BY <1>0, <1>1, <1>4, <2>2 DEF OpenedHolds
  <2>4. MakerHolds(r)'
    BY <1>1, <1>3, <1>4 DEF MakerHolds
  <2>5. DecisionHolds(r)'
    <3>1. Eligible(UserOf[s]) /\ Proved(UserOf[s], session[s].kind, session[s].revision)
      BY DEF createResourceGrant, tenantAuthentication
    <3>2. /\ request'[r].grant = g /\ request'[r].user = UserOf[s] /\ request'[r].at = "inserted"
          /\ request'[r].kind = "continue"
          /\ grant'[g].session = s /\ grant'[g].revision = session[s].revision
      BY <1>1, <1>3, <1>4
    <3> HIDE DEF made, s
    <3> QED BY <1>1, <3>1, <3>2
            DEF DecisionHolds, policyVars, Eligible, Proved, Effective, Active, GrantUser, GrantKind
  <2> QED BY <2>1, <2>2, <2>3, <2>4, <2>5 DEF AllHold, HolderHolds
<1>9. ASSUME NEW q \in Requests \ {r} PROVE Frame(q)
  <2>1. Makes(q) \/ Rests(q) => request[q].grant \in Grants \ {g}
    BY <1>1, RequestFacts DEF AllHold, MakerHolds, DecisionHolds, Makes, Rests
  <2>2. Makes(q) => grant[request[q].grant].state = "inserted"
    BY RequestFacts DEF AllHold, MakerHolds
  <2> QED BY <1>1, <1>3, <1>4, <2>1, <2>2, PolicyKept DEF Frame
<1>10. Opened(r)' => \A q \in Requests \ {r} : Opened(q) => request[q].flow # request'[r].flow
  BY <1>1, <1>4 DEF Inv, RequestsHold, OneOpens, Opened, Resumes
<1>11. RequestsHold'
  BY <1>1, <1>4, <1>5, <1>7, <1>8, <1>9, <1>10, OthersKeep DEF Holds, TokenKinds
<1>12. FlowsHold'
  BY <1>1, <1>3, <1>6 DEF Inv, FlowsHold, Seen
<1>13. CodesHold'
  BY <1>1, <1>3, <1>6 DEF Inv, CodesHold, Seen
<1>14. TokensHold'
  BY <1>1, <1>3, <1>6 DEF Inv, TokensHold, Seen
<1>15. GrantsRestOnTheLiving'
  BY <1>1, <1>3, <1>6 DEF Inv, GrantsRestOnTheLiving, policyVars, Active, GrantUser, GrantKind
<1>16. ReplaysEndTheGrant'
  BY <1>1, <1>3 DEF Inv, ReplaysEndTheGrant
<1> QED BY <1>5, <1>11, <1>12, <1>13, <1>14, <1>15, <1>16 DEF Inv

\* What a browser's request has decided about: a grant of its own, or its flow's.
LEMMA DecidedFlow ==
  ASSUME Inv, NEW r \in Requests, request[r].kind \in Resumes, request[r].at = "decided"
  PROVE  LET g == request[r].grant  f == request[r].flow IN
         /\ g \in Grants /\ f \in Flows /\ grant[g].flow = f /\ grant[g].session \in Sessions
         /\ session[grant[g].session].life # "absent"
         /\ flow[f].status \in {"selection", "consent"} /\ Opened(r)
         /\ request[r].kind = "continue" =>
              grant[g].state = "inserted" /\ flow[f].grant = None /\ flow[f].status = "selection"
         /\ request[r].kind # "continue" => grant[g].state = "live" /\ flow[f].grant = g
         /\ request[r].scopes # {} /\ request[r].user = GrantUser(g) /\ Eligible(request[r].user)
         /\ Proved(request[r].user, GrantKind(g), grant[g].revision)
<1> DEFINE g == request[r].grant
           f == request[r].flow
<1>1. AllHold(r) /\ FlowsHold /\ Opened(r) /\ Rests(r)
  BY RequestFacts, KindsDiffer DEF Inv, Opened, Rests, TokenKinds
<1>2. /\ g \in Grants /\ f \in Flows /\ flow[f].status \in {"selection", "consent"}
      /\ request[r].scopes # {} /\ request[r].user = GrantUser(g) /\ Eligible(request[r].user)
      /\ Proved(request[r].user, GrantKind(g), grant[g].revision)
      /\ request[r].session \in Sessions /\ session[request[r].session].life # "absent"
  BY <1>1 DEF AllHold, DecisionHolds, RequestHolds, OpenedHolds
<1>3. CASE request[r].kind = "continue"
  <2>1. Makes(r)
    BY <1>3 DEF Makes
  <2>2. grant[g].state = "inserted" /\ grant[g].session = request[r].session /\ grant[g].flow = f
    BY <1>1, <2>1 DEF AllHold, MakerHolds
  <2>3. flow[f].status = "selection"
    BY <1>1, <1>3 DEF AllHold, OpenedHolds
  <2> QED BY <1>1, <1>2, <1>3, <2>2, <2>3 DEF FlowsHold
<1>4. CASE request[r].kind # "continue"
  <2>1. ~Makes(r)
    BY <1>4 DEF Makes
  <2>2. grant[g].state = "live" /\ flow[f].grant = g
    BY <1>1, <1>4, <2>1 DEF AllHold, DecisionHolds, OpenedHolds
  <2>3. Seen(g)
    BY <1>2, <2>2 DEF Seen
  <2> QED BY <1>1, <1>2, <1>4, <2>2, <2>3, Names DEF FlowsHold
<1> QED BY <1>3, <1>4

\* A flow keeps its grant once others see it, which is what it promises its browser.
LEMMA FlowStep ==
  ASSUME Inv, NEW r \in Requests, request[r].kind \in Resumes, request[r].at = "decided", Ends(r),
         NEW to \in FlowType, flow' = [flow EXCEPT ![request[r].flow] = to],
         to.grant = request[r].grant, to.status \notin {"none", "selection"},
         \/ grant' = Visible(request[r].grant)
         \/ request[r].kind # "continue" /\ grant' = grant,
         UNCHANGED <<policyVars, session, token, presented, requests, moves>>,
         code' \in [Codes -> CodeType],
         \A c \in Codes : code[c].state # "none" => code'[c] = code[c]
  PROVE  /\ TypeOK' /\ RequestsHold' /\ FlowsHold' /\ TokensHold' /\ GrantsRestOnTheLiving'
         /\ \A h \in Grants : /\ grant'[h].code = grant[h].code /\ grant'[h].flow = grant[h].flow
                              /\ grant[h].state = "revoked" => grant'[h].state = "revoked"
                              /\ Seen(h) \/ h = request[r].grant => Seen(h)'
         /\ flow'[request[r].flow] = to /\ \A e \in Flows \ {request[r].flow} : flow'[e] = flow[e]
<1> PICK g \in Grants, f \in Flows : g = request[r].grant /\ f = request[r].flow
  BY DecidedFlow
<1>0. PolicyType /\ RowsType /\ RestType /\ FlowsHold /\ TokensHold /\ CodesHold
  BY TypeParts DEF Inv
<1>1. /\ g \in Grants /\ f \in Flows /\ grant[g].flow = f /\ grant[g].session \in Sessions
      /\ session[grant[g].session].life # "absent"
      /\ flow[f].status \in {"selection", "consent"} /\ Opened(r)
      /\ request[r].kind = "continue" =>
           grant[g].state = "inserted" /\ flow[f].grant = None /\ flow[f].status = "selection"
      /\ request[r].kind # "continue" => grant[g].state = "live" /\ flow[f].grant = g
      /\ request[r].user = GrantUser(g) /\ Eligible(request[r].user)
      /\ Proved(request[r].user, GrantKind(g), grant[g].revision)
  BY DecidedFlow
<1>2. /\ grant' \in [Grants -> GrantType] /\ grant'[g].state = "live"
      /\ \A k \in {"session", "revision", "flow", "code", "expired"} : grant'[g][k] = grant[g][k]
      /\ \A h \in Grants \ {g} : grant'[h] = grant[h]
  <2>1. CASE grant' = Visible(g)
    BY <2>1, <1>0, <1>1 DEF Visible, RowsType, GrantType
  <2>2. CASE request[r].kind # "continue" /\ grant' = grant
    BY <2>2, <1>0, <1>1 DEF RowsType, GrantType
  <2> QED BY <2>1, <2>2
<1>3. request' \in [Requests -> RequestType]
  BY RequestFacts, IdleType DEF Ends
<1>12. flow' = [flow EXCEPT ![f] = to] /\ to.grant = g
  OBVIOUS
<1>4. flow'[f] = to /\ \A e \in Flows \ {f} : flow'[e] = flow[e]
  BY <1>0, <1>12 DEF RowsType
<1>5. TypeOK'
  BY <1>0, <1>2, <1>3, TypePartsNext DEF PolicyType, RowsType, RestType, policyVars
<1>6. Grows
  <2>1. \A h \in Grants : Seen(h) => /\ Seen(h)' /\ grant'[h].session = grant[h].session
                                     /\ grant'[h].flow = grant[h].flow /\ grant'[h].revision = grant[h].revision
    BY <1>2 DEF Seen
  <2> QED BY <2>1 DEF Grows
<1>7. ASSUME NEW q \in Requests \ {r} PROVE Frame(q)
  <2>1. Opened(q) => request[q].flow \in Flows \ {f}
    BY <1>1, RequestFacts DEF Inv, RequestsHold, OneOpens, AllHold, RequestHolds, Opened
  <2>2. Makes(q) => /\ request[q].grant \in Grants /\ grant[request[q].grant].state = "inserted"
                    /\ grant[request[q].grant].flow = request[q].flow /\ Opened(q)
    BY RequestFacts DEF AllHold, MakerHolds, Makes, Opened, Resumes
  <2>3. Makes(q) => request[q].grant \in Grants \ {g}
    BY <1>1, <2>1, <2>2
  <2>4. Rests(q) => request[q].grant \in Grants
    BY RequestFacts DEF AllHold, DecisionHolds
  <2>5. Holds(q) /\ request[q].kind = "exchange" => code'[request[q].code].state = code[request[q].code].state
    BY RequestFacts DEF AllHold, RequestHolds
  <2> QED BY <1>2, <1>4, <2>1, <2>2, <2>3, <2>4, <2>5, PolicyKept, OthersSame DEF Frame
<1>8. RequestsHold'
  BY <1>5, <1>6, <1>7, EndKeeps
<1>9. FlowsHold'
  <2>1. Seen(g)' /\ \A h \in Grants \ {g} : Seen(h)' = Seen(h)
    BY <1>1, <1>2 DEF Seen
  <2>2. \A h \in Grants \ {g} : Seen(h) => grant[h].flow \in Flows \ {f} /\ flow[grant[h].flow].grant = h
    BY <1>0, <1>1, Names DEF FlowsHold, Seen
  <2>3. \A h \in Grants : Seen(h)' =>
          /\ grant'[h].session \in Sessions /\ session'[grant'[h].session].life # "absent"
          /\ grant'[h].flow \in Flows /\ flow'[grant'[h].flow].grant = h
    <3>1. \A h \in Grants \ {g} : Seen(h)' =>
            /\ grant'[h].session \in Sessions /\ session'[grant'[h].session].life # "absent"
            /\ grant'[h].flow \in Flows /\ flow'[grant'[h].flow].grant = h
      BY <1>0, <1>2, <1>4, <2>1, <2>2 DEF FlowsHold
    <3> QED BY <1>1, <1>2, <1>4, <3>1
  <2>4. \A e \in Flows : flow'[e].status \in {"none", "selection"} <=> flow'[e].grant = None
    BY <1>0, <1>12, <1>4, Names DEF FlowsHold
  <2>5. \A e \in Flows : flow'[e].grant # None => Seen(flow[e].grant)' /\ grant'[flow'[e].grant].flow = e
    <3>1. ASSUME NEW e \in Flows \ {f}, flow'[e].grant # None
          PROVE  Seen(flow[e].grant)' /\ grant'[flow'[e].grant].flow = e
      <4>1. flow'[e] = flow[e] /\ Seen(flow[e].grant) /\ grant[flow[e].grant].flow = e
        BY <1>0, <1>4, <3>1 DEF FlowsHold
      <4> QED BY <1>1, <1>2, <4>1 DEF Seen
    <3>2. flow'[f].grant = g /\ grant'[g].flow = f /\ grant'[g].state = "live"
      BY <1>1, <1>2, <1>4, <1>12
    <3> QED BY <3>1, <3>2 DEF Seen
  <2> QED BY <2>3, <2>4, <2>5 DEF FlowsHold
<1>10. TokensHold'
  <2>1. \A t \in Tokens : token[t].state # "none" => Seen(token[t].grant) /\ grant[token[t].grant].code # None
    BY <1>0 DEF TokensHold
  <2>2. \A t \in Tokens : token'[t].state # "none" => Seen(token[t].grant)' /\ grant'[token'[t].grant].code # None
    BY <1>2, <2>1 DEF Seen
  <2>3. \A c \in Codes : code'[c].state \in {"none", "issued"} => presented'[c] = 0
    BY <1>0 DEF TokensHold, RowsType, CodeType
  <2> QED BY <1>0, <2>2, <2>3 DEF TokensHold
<1>11. GrantsRestOnTheLiving'
  <2>1. \A h \in Grants \ {g} : grant'[h].state = "live" => grant[h].state = "live" /\ GrantUser(h)' = GrantUser(h) /\ GrantKind(h)' = GrantKind(h)
    BY <1>2 DEF GrantUser, GrantKind
  <2>2. /\ \A p \in Parties \ Users : standing[p] = "active"
        /\ standing[GrantUser(g)] = "active" /\ GrantUser(g) \in member
        /\ GrantKind(g) = "directory" =>
             provider["directory"].live /\ provider["directory"].revision = grant[g].revision
    BY <1>1 DEF Eligible, Proved, Effective, Active
  <2>3. \A h \in Grants \ {g} : grant[h].state = "live" =>
        /\ standing[GrantUser(h)] = "active" /\ GrantUser(h) \in member
        /\ GrantKind(h) = "directory" =>
             provider["directory"].live /\ provider["directory"].revision = grant[h].revision
    BY DEF Inv, GrantsRestOnTheLiving, Active
  <2>4. GrantUser(g)' = GrantUser(g) /\ GrantKind(g)' = GrantKind(g) /\ grant'[g].revision = grant[g].revision
    BY <1>2 DEF GrantUser, GrantKind
  <2>5. ASSUME NEW h \in Grants, grant'[h].state = "live"
        PROVE  /\ \A p \in Parties \ Users : standing'[p] = "active"
               /\ standing'[GrantUser(h)'] = "active" /\ GrantUser(h)' \in member'
               /\ GrantKind(h)' = "directory" =>
                    provider'["directory"].live /\ provider'["directory"].revision = grant'[h].revision
    <3>1. UNCHANGED <<standing, member, provider>>
      BY DEF policyVars
    <3>2. CASE h = g
      BY <2>2, <2>4, <3>1, <3>2
    <3>3. CASE h # g
      BY <1>2, <2>1, <2>2, <2>3, <2>5, <3>1, <3>3
    <3> QED BY <3>2, <3>3
  <2> QED BY <2>5 DEF GrantsRestOnTheLiving, Active
<1>13. \A h \in Grants : /\ grant'[h].code = grant[h].code /\ grant'[h].flow = grant[h].flow
                         /\ grant[h].state = "revoked" => grant'[h].state = "revoked"
                         /\ Seen(h) \/ h = g => Seen(h)'
  BY <1>1, <1>2 DEF Seen
<1> QED BY <1>4, <1>5, <1>8, <1>9, <1>10, <1>11, <1>13
\* A flow that is opened has no code.
LEMMA OpenFlowHasNoCode ==
  ASSUME Inv, NEW r \in Requests, Opened(r), NEW c \in Codes, code[c].state # "none"
  PROVE  grant[code[c].grant].flow \in Flows \ {request[r].flow}
<1>1. flow[request[r].flow].status # "complete"
  BY RequestFacts DEF AllHold, OpenedHolds
<1>2. Seen(code[c].grant) /\ flow[grant[code[c].grant].flow].status = "complete"
  BY DEF Inv, CodesHold
<1> QED BY <1>1, <1>2 DEF Inv, FlowsHold, Seen

LEMMA IssueCodeKeeps ==
  ASSUME Inv, NEW r \in Requests, NEW c \in Codes, IssueCode(r, c)
  PROVE  Inv'
<1>1. /\ request[r].kind \in Resumes /\ request[r].at = "decided" /\ Ends(r) /\ code[c].state = "none"
      /\ UNCHANGED <<policyVars, session, token, presented, requests, moves>>
  BY DEF IssueCode, Resumes
<1> PICK g \in Grants, f \in Flows : g = request[r].grant /\ f = request[r].flow
  BY <1>1, DecidedFlow
<1> PICK to \in FlowType, made \in CodeType :
      /\ to = [status |-> "complete", user |-> request[r].user, grant |-> g]
      /\ made = [state |-> "issued", grant |-> g, scopes |-> request[r].scopes]
  BY RequestFacts DEF FlowType, CodeType, RequestType
<1>2. /\ to.grant = g /\ to.status = "complete"
      /\ made.state = "issued" /\ made.grant = g /\ made.scopes # {}
  BY <1>1, DecidedFlow
<1>3. code' = [code EXCEPT ![c] = made] /\ flow' = [flow EXCEPT ![f] = to] /\ grant' = Visible(g)
  BY DEF IssueCode
<1>4. /\ code' \in [Codes -> CodeType] /\ code'[c] = made
      /\ \A d \in Codes \ {c} : code'[d] = code[d]
  BY <1>2, <1>3, RequestFacts DEF RowsType
<1>5. /\ TypeOK' /\ RequestsHold' /\ FlowsHold' /\ TokensHold' /\ GrantsRestOnTheLiving'
      /\ \A h \in Grants : /\ grant'[h].code = grant[h].code /\ grant'[h].flow = grant[h].flow
                           /\ grant[h].state = "revoked" => grant'[h].state = "revoked"
                           /\ Seen(h) \/ h = g => Seen(h)'
      /\ flow'[f] = to /\ \A e \in Flows \ {f} : flow'[e] = flow[e]
  <2>1. /\ flow' = [flow EXCEPT ![request[r].flow] = to] /\ to.grant = request[r].grant
        /\ to.status \notin {"none", "selection"} /\ grant' = Visible(request[r].grant)
        /\ \A d \in Codes : code[d].state # "none" => code'[d] = code[d]
    BY <1>1, <1>2, <1>3, <1>4
  <2>2. /\ TypeOK' /\ RequestsHold' /\ FlowsHold' /\ TokensHold' /\ GrantsRestOnTheLiving'
        /\ \A h \in Grants : /\ grant'[h].code = grant[h].code /\ grant'[h].flow = grant[h].flow
                             /\ grant[h].state = "revoked" => grant'[h].state = "revoked"
                             /\ Seen(h) \/ h = request[r].grant => Seen(h)'
        /\ flow'[request[r].flow] = to /\ \A e \in Flows \ {request[r].flow} : flow'[e] = flow[e]
    BY <1>1, <1>2, <1>4, <2>1, FlowStep
  <2> QED BY <2>2
<1>6. Opened(r) /\ grant[g].flow = f
  BY <1>1, DecidedFlow
<1>7. \A d \in Codes : code[d].state # "none" => grant[code[d].grant].flow \in Flows \ {f}
  BY <1>6, OpenFlowHasNoCode
<1>8. CodesHold /\ ReplaysEndTheGrant /\ TokensHold
  BY DEF Inv
<1>9. CodesHold'
  <2>1. \A d \in Codes \ {c} : code[d].state # "none" =>
          /\ Seen(code[d].grant) /\ code[d].scopes # {} /\ code[d].grant \in Grants \ {g}
          /\ flow'[grant'[code[d].grant].flow].status = "complete"
          /\ code[d].state = "consumed" => grant'[code[d].grant].code = d
    BY <1>5, <1>6, <1>7, <1>8 DEF CodesHold, Seen
  <2>2. \A d \in Codes : code'[d].state # "none" =>
          /\ Seen(code[d].grant)' /\ code'[d].scopes # {}
          /\ flow'[grant'[code'[d].grant].flow].status = "complete"
          /\ code'[d].state = "consumed" => grant'[code'[d].grant].code = d
    BY <1>2, <1>4, <1>5, <1>6, <2>1 DEF Seen
  <2>3. \A h \in Grants : grant'[h].code # None =>
          code'[grant'[h].code].state = "consumed" /\ code'[grant'[h].code].grant = h
    <3>1. \A h \in Grants : grant[h].code # None => grant[h].code \in Codes \ {c}
      BY <1>1, <1>8, RequestFacts DEF CodesHold, RowsType, GrantType
    <3> QED BY <1>4, <1>5, <1>8, <3>1 DEF CodesHold
  <2>4. \A c1, c2 \in Codes : code'[c1].state # "none" /\ code'[c2].state # "none"
                                /\ code'[c1].grant = code'[c2].grant => c1 = c2
    BY <1>2, <1>4, <1>8, <2>1 DEF CodesHold
  <2> QED BY <2>2, <2>3, <2>4 DEF CodesHold
<1>10. ReplaysEndTheGrant'
  <2>1. \A d \in Codes : presented'[d] = 2 => code[d].state = "consumed" /\ d # c
    BY <1>1, <1>8, RequestFacts DEF TokensHold, RowsType, CodeType
  <2>2. \A d \in Codes : presented'[d] = 2 => grant'[code'[d].grant].state = "revoked"
    BY <1>1, <1>4, <1>5, <1>8, <2>1 DEF ReplaysEndTheGrant, CodesHold, Seen
  <2>3. \A t \in Tokens : presented'[t] = 2 => token[t].state # "none"
    BY <1>1, <1>8 DEF TokensHold
  <2>4. \A t \in Tokens : presented'[t] = 2 => grant'[token'[t].grant].state = "revoked"
    BY <1>1, <1>5, <1>8, <2>3 DEF ReplaysEndTheGrant, TokensHold, Seen
  <2> QED BY <2>2, <2>4 DEF ReplaysEndTheGrant
<1> QED BY <1>5, <1>9, <1>10 DEF Inv

\* A step of a flow that leaves its codes as they are.
LEMMA CodesOfFlows ==
  ASSUME Inv, NEW r \in Requests, Opened(r), UNCHANGED <<code, token, presented>>,
         \A h \in Grants : /\ grant'[h].code = grant[h].code /\ grant'[h].flow = grant[h].flow
                           /\ grant[h].state = "revoked" => grant'[h].state = "revoked"
                           /\ Seen(h) => Seen(h)',
         \A e \in Flows \ {request[r].flow} : flow'[e] = flow[e]
  PROVE  CodesHold' /\ ReplaysEndTheGrant'
<1>1. CodesHold /\ ReplaysEndTheGrant /\ TokensHold
  BY DEF Inv
<1>2. \A d \in Codes : code[d].state # "none" => grant[code[d].grant].flow \in Flows \ {request[r].flow}
  BY OpenFlowHasNoCode
<1>3. CodesHold'
  <2>1. \A d \in Codes : code'[d].state # "none" =>
          /\ Seen(code[d].grant)' /\ code'[d].scopes # {}
          /\ flow'[grant'[code'[d].grant].flow].status = "complete"
          /\ code'[d].state = "consumed" => grant'[code'[d].grant].code = d
    BY <1>1, <1>2 DEF CodesHold, Seen
  <2>2. \A h \in Grants : grant'[h].code # None =>
          code'[grant'[h].code].state = "consumed" /\ code'[grant'[h].code].grant = h
    BY <1>1 DEF CodesHold
  <2> QED BY <1>1, <2>1, <2>2 DEF CodesHold
<1>4. ReplaysEndTheGrant'
  <2>1. \A d \in Codes : presented[d] = 2 => code[d].grant \in Grants
    <3>1. \A d \in Codes : presented[d] = 2 => code[d].state # "none"
      BY <1>1 DEF TokensHold
    <3> QED BY <1>1, <3>1 DEF CodesHold, Seen
  <2>2. \A t \in Tokens : presented[t] = 2 => token[t].grant \in Grants
    <3>1. \A t \in Tokens : presented[t] = 2 => token[t].state # "none"
      BY <1>1 DEF TokensHold
    <3> QED BY <1>1, <3>1 DEF TokensHold, Seen
  <2> QED BY <1>1, <2>1, <2>2 DEF ReplaysEndTheGrant
<1> QED BY <1>3, <1>4

LEMMA KeepFlowKeeps ==
  ASSUME Inv, NEW r \in Requests, KeepFlow(r)
  PROVE  Inv'
<1>1. /\ request[r].kind \in Resumes /\ request[r].at \in {"opened", "decided"} /\ Ends(r) /\ Opened(r)
      /\ UNCHANGED <<policyVars, session, code, token, presented, requests, moves>>
  BY DEF KeepFlow, Resumes, Opened
<1>0. /\ AllHold(r) /\ RowsType /\ PolicyType /\ RestType /\ request[r] \in RequestType
      /\ request[r].flow \in Flows /\ FlowsHold
  BY <1>1, RequestFacts DEF AllHold, RequestHolds, Inv
<1> PICK f \in Flows : f = request[r].flow
  BY <1>0
<1> PICK to \in FlowType :
      to = [status |-> CASE request[r].kind = "continue" -> "consent"
                         [] request[r].kind = "deny" -> "denied"
                         [] OTHER -> flow[f].status,
            user |-> request[r].user, grant |-> request[r].grant]
  BY <1>0 DEF FlowType, RequestType, RowsType
<1>2. flow' = [flow EXCEPT ![f] = to] /\ to.grant = request[r].grant
  BY DEF KeepFlow
<1>3. CASE request[r].at = "decided"
  <2>1. to.status \notin {"none", "selection"}
    <3>1. request[r].kind # "continue" => flow[f].grant = request[r].grant /\ request[r].grant \in Grants
      BY <1>1, <1>3, DecidedFlow
    <3>2. request[r].kind # "continue" => flow[f].status \notin {"none", "selection"}
      BY <1>0, <3>1, Names DEF FlowsHold
    <3> QED BY <1>1, <3>2 DEF Resumes
  <2>2. \/ grant' = Visible(request[r].grant)
        \/ request[r].kind # "continue" /\ grant' = grant
    BY DEF KeepFlow
  <2>3. code' \in [Codes -> CodeType] /\ \A d \in Codes : code[d].state # "none" => code'[d] = code[d]
    BY <1>0, <1>1 DEF RowsType
  <2>4. /\ TypeOK' /\ RequestsHold' /\ FlowsHold' /\ TokensHold' /\ GrantsRestOnTheLiving'
        /\ \A h \in Grants : /\ grant'[h].code = grant[h].code /\ grant'[h].flow = grant[h].flow
                             /\ grant[h].state = "revoked" => grant'[h].state = "revoked"
                             /\ Seen(h) \/ h = request[r].grant => Seen(h)'
        /\ flow'[request[r].flow] = to /\ \A e \in Flows \ {request[r].flow} : flow'[e] = flow[e]
    BY <1>1, <1>2, <1>3, <2>1, <2>2, <2>3, FlowStep
  <2>5. CodesHold' /\ ReplaysEndTheGrant'
    BY <1>1, <2>4, CodesOfFlows
  <2> QED BY <2>4, <2>5 DEF Inv
<1>4. CASE request[r].at = "opened"
  <2>1. request[r].kind = "details" /\ request[r].grant = None /\ grant' = grant
    BY <1>1, <1>4 DEF KeepFlow
  <2>2. ~Makes(r) /\ flow[f].grant = None
    BY <1>0, <1>1, <2>1 DEF AllHold, OpenedHolds, Makes
  <2>3. to.status = flow[f].status /\ to.grant = flow[f].grant
    BY <1>2, <2>1, <2>2
  <2>4. \A e \in Flows : flow'[e].status = flow[e].status /\ flow'[e].grant = flow[e].grant
    BY <1>0, <1>2, <2>3 DEF RowsType
  <2>5. \A e \in Flows \ {f} : flow'[e] = flow[e]
    BY <1>0, <1>2 DEF RowsType
  <2>6. request' \in [Requests -> RequestType] /\ flow' \in [Flows -> FlowType]
    BY <1>0, <1>1, <1>2, IdleType DEF Ends, RestType, RowsType
  <2>7. TypeOK'
    BY <1>0, <1>1, <2>1, <2>6, TypePartsNext DEF PolicyType, RowsType, RestType, policyVars
  <2>8. Grows
    BY <1>1, <2>1, GrowsOfSame DEF Seen
  <2>9. ASSUME NEW q \in Requests \ {r} PROVE Frame(q)
    <3>1. Opened(q) => request[q].flow \in Flows \ {f}
      BY <1>1, RequestFacts DEF Inv, RequestsHold, OneOpens, AllHold, RequestHolds, Opened
    <3>2. Makes(q) => grant[request[q].grant].state = "inserted"
      BY RequestFacts DEF AllHold, MakerHolds
    <3> QED BY <1>1, <2>1, <2>5, <3>1, <3>2, PolicyKept, OthersSame DEF Frame
  <2>10. RequestsHold'
    BY <1>1, <2>7, <2>8, <2>9, EndKeeps
  <2>11. FlowsHold'
    BY <1>0, <1>1, <2>1, <2>4 DEF FlowsHold, Seen
  <2>12. TokensHold' /\ GrantsRestOnTheLiving'
    BY <1>1, <2>1 DEF Inv, TokensHold, GrantsRestOnTheLiving, Seen, policyVars, Active, GrantUser, GrantKind
  <2>13. CodesHold' /\ ReplaysEndTheGrant'
    <3>1. \A h \in Grants : /\ grant'[h].code = grant[h].code /\ grant'[h].flow = grant[h].flow
                            /\ grant[h].state = "revoked" => grant'[h].state = "revoked"
                            /\ Seen(h) => Seen(h)'
      BY <2>1 DEF Seen
    <3> QED BY <1>1, <2>5, <3>1, CodesOfFlows
  <2> QED BY <2>7, <2>10, <2>11, <2>12, <2>13 DEF Inv
<1> QED BY <1>1, <1>3, <1>4

\* What is rolled back is a grant nobody else saw.
LEMMA RefuseKeeps ==
  ASSUME Inv, NEW r \in Requests, Refuse(r)
  PROVE  Inv'
<1> DEFINE blank == [state |-> "none", session |-> None, revision |-> 0,
                     flow |-> None, code |-> None, expired |-> FALSE]
<1>0. /\ AllHold(r) /\ RowsType /\ PolicyType /\ RestType /\ request \in [Requests -> RequestType]
      /\ FlowsHold /\ CodesHold /\ TokensHold
  BY RequestFacts DEF Inv
<1>1. /\ Ends(r) /\ UNCHANGED <<policyVars, session, flow, code, token, presented, requests, moves>>
      /\ grant' = IF Makes(r) THEN [grant EXCEPT ![request[r].grant] = blank] ELSE grant
  BY DEF Refuse, Makes
<1>2. blank \in GrantType /\ blank.state = "none" /\ blank.code = None
  BY DEF GrantType
<1> HIDE DEF blank
<1>3. /\ grant' \in [Grants -> GrantType]
      /\ \A g \in Grants : \/ grant'[g] = grant[g]
                           \/ Makes(r) /\ g = request[r].grant /\ grant[g].state = "inserted" /\ grant'[g] = blank
  BY <1>0, <1>1, <1>2 DEF AllHold, MakerHolds, RowsType
<1>4. request' \in [Requests -> RequestType]
  BY <1>0, <1>1, IdleType DEF Ends
<1>5. TypeOK'
  BY <1>0, <1>1, <1>3, <1>4, TypePartsNext DEF PolicyType, RowsType, RestType, policyVars
<1>6. \A g \in Grants : Seen(g)' = Seen(g) /\ (Seen(g) => grant'[g] = grant[g])
  BY <1>2, <1>3 DEF Seen
<1>7. Grows
  BY <1>1, <1>6, GrowsOfSame
<1>8. ASSUME NEW q \in Requests \ {r} PROVE Frame(q)
  <2>1. Makes(q) \/ Rests(q) => request[q].grant \in Grants
    BY RequestFacts DEF AllHold, MakerHolds, DecisionHolds
  <2>2. Makes(q) => /\ grant[request[q].grant].state = "inserted"
                    /\ grant[request[q].grant].flow = request[q].flow
                    /\ Opened(q)
    BY RequestFacts DEF AllHold, MakerHolds, Makes, Opened, Resumes
  <2>3. Makes(r) => grant[request[r].grant].flow = request[r].flow /\ Opened(r)
    BY <1>0 DEF AllHold, MakerHolds, Makes, Opened, Resumes
  <2>4. Makes(q) /\ Makes(r) => request[q].grant # request[r].grant
    BY <2>2, <2>3 DEF Inv, RequestsHold, OneOpens
  <2>5. Rests(q) /\ ~Makes(q) => grant[request[q].grant].state = "live"
    BY RequestFacts DEF AllHold, DecisionHolds, Rests, Makes
  <2>6. Makes(q) \/ Rests(q) => grant'[request[q].grant] = grant[request[q].grant]
    BY <1>3, <2>1, <2>4, <2>5
  <2> QED BY <1>1, <2>2, <2>6, PolicyKept, OthersSame DEF Frame
<1>9. RequestsHold'
  BY <1>1, <1>5, <1>7, <1>8, EndKeeps
<1>10. FlowsHold'
  BY <1>0, <1>1, <1>3, <1>6 DEF FlowsHold, Seen
<1>11. CodesHold'
  <2>1. \A g \in Grants : grant'[g].code # None => grant'[g] = grant[g]
    BY <1>2, <1>3
  <2> QED BY <1>0, <1>1, <1>6, <2>1 DEF CodesHold, Seen
<1>12. TokensHold'
  BY <1>0, <1>1, <1>6 DEF TokensHold, Seen
<1>13. GrantsRestOnTheLiving'
  <2>1. \A g \in Grants : grant'[g].state = "live" => grant'[g] = grant[g]
    BY <1>2, <1>3
  <2> QED BY <1>1, <2>1 DEF Inv, GrantsRestOnTheLiving, policyVars, Active, GrantUser, GrantKind
<1>14. ReplaysEndTheGrant'
  <2>1. \A d \in Codes : presented[d] = 2 => Seen(code[d].grant)
    <3>1. \A d \in Codes : presented[d] = 2 => code[d].state # "none"
      BY <1>0 DEF TokensHold
    <3> QED BY <1>0, <3>1 DEF CodesHold
  <2>2. \A t \in Tokens : presented[t] = 2 => Seen(token[t].grant)
    <3>1. \A t \in Tokens : presented[t] = 2 => token[t].state # "none"
      BY <1>0 DEF TokensHold
    <3> QED BY <1>0, <3>1 DEF TokensHold
  <2> QED BY <1>1, <1>6, <2>1, <2>2 DEF Inv, ReplaysEndTheGrant, Seen
<1> QED BY <1>5, <1>9, <1>10, <1>11, <1>12, <1>13, <1>14 DEF Inv

(***************************************************************************)
(* Revocations, whoever revokes                                            *)
(***************************************************************************)
\* Of the grants that were live those of gs may end, and tokens in use are of those that may.
Ending(gs) ==
  /\ grant' \in [Grants -> GrantType] /\ token' \in [Tokens -> TokenType]
  /\ \A g \in Grants :
       /\ grant'[g].session = grant[g].session /\ grant'[g].revision = grant[g].revision
       /\ grant'[g].flow = grant[g].flow /\ grant'[g].code = grant[g].code
       /\ \/ grant'[g].state = grant[g].state
          \/ g \in gs /\ grant[g].state = "live" /\ grant'[g].state = "revoked"
  /\ \A t \in Tokens :
       /\ token'[t].grant = token[t].grant /\ (token'[t].state = "none" <=> token[t].state = "none")
       /\ token'[t].state = "live" => token[t].state = "live"
       /\ token[t].state = "live" /\ token'[t].state # "live" => token[t].grant \in gs

SessionsGrow == \A s \in Sessions :
  /\ session'[s].kind = session[s].kind
  /\ session[s].life # "absent" => session'[s].life # "absent" /\ session'[s].revision = session[s].revision

\* What is answered for twice has no grant left.
AnsweredFor ==
  /\ \A c \in Codes :
       \/ presented'[c] = presented[c]
       \/ code[c].state = "consumed" /\ grant'[code[c].grant].state = "revoked"
  /\ \A t \in Tokens :
       \/ presented'[t] = presented[t]
       \/ token'[t].state \in {"rotated", "deleted"} /\ grant'[token[t].grant].state = "revoked"

LEMMA EndingKeeps ==
  ASSUME Inv, NEW gs, Ending(gs), SessionsGrow, AnsweredFor, UNCHANGED <<flow, code>>
  PROVE  Grows /\ FlowsHold' /\ CodesHold' /\ TokensHold' /\ ReplaysEndTheGrant'
<1>0. FlowsHold /\ CodesHold /\ TokensHold /\ ReplaysEndTheGrant /\ RowsType
  BY TypeParts DEF Inv
<1>1. \A g \in Grants :
        /\ grant'[g].session = grant[g].session /\ grant'[g].revision = grant[g].revision
        /\ grant'[g].flow = grant[g].flow /\ grant'[g].code = grant[g].code
        /\ Seen(g)' = Seen(g) /\ (grant[g].state = "revoked" => grant'[g].state = "revoked")
  BY DEF Ending, Seen
<1>2. \A t \in Tokens :
        /\ token'[t].grant = token[t].grant /\ (token'[t].state = "none" <=> token[t].state = "none")
        /\ token'[t].state = "live" => token[t].state = "live"
  BY DEF Ending
<1>3. Grows
  BY <1>1, <1>2 DEF Grows, SessionsGrow
<1>4. FlowsHold'
  <2>1. \A g \in Grants : Seen(g)' =>
          /\ grant'[g].session \in Sessions /\ session'[grant'[g].session].life # "absent"
          /\ grant'[g].flow \in Flows /\ flow'[grant'[g].flow].grant = g
    BY <1>0, <1>1 DEF FlowsHold, SessionsGrow
  <2>2. \A f \in Flows : flow[f].grant # None => Seen(flow[f].grant)' /\ grant'[flow[f].grant].flow = f
    BY <1>0, <1>1 DEF FlowsHold, Seen
  <2> QED BY <1>0, <2>1, <2>2 DEF FlowsHold
<1>5. CodesHold'
  <2>1. \A c \in Codes : code[c].state # "none" => Seen(code[c].grant)' /\ code[c].grant \in Grants
    BY <1>0, <1>1 DEF CodesHold, Seen
  <2> QED BY <1>0, <1>1, <2>1 DEF CodesHold
<1>6. TokensHold'
  <2>1. \A t \in Tokens : token'[t].state # "none" => Seen(token[t].grant)' /\ grant'[token'[t].grant].code # None
    BY <1>0, <1>1, <1>2 DEF TokensHold, Seen
  <2>2. \A t1, t2 \in Tokens : token'[t1].state = "live" /\ token'[t2].state = "live"
                                 /\ token'[t1].grant = token'[t2].grant => t1 = t2
    BY <1>0, <1>2 DEF TokensHold
  <2>3. \A c \in Codes : code'[c].state \in {"none", "issued"} => presented'[c] = 0
    BY <1>0 DEF TokensHold, AnsweredFor
  <2>4. \A t \in Tokens : token'[t].state \in {"none", "live"} => presented'[t] = 0
    BY <1>0, <1>2 DEF TokensHold, AnsweredFor
  <2> QED BY <1>2, <2>1, <2>2, <2>3, <2>4 DEF TokensHold
<1>7. ReplaysEndTheGrant'
  <2>1. \A c \in Codes : presented'[c] = 2 => grant'[code'[c].grant].state = "revoked"
    <3>1. \A c \in Codes : presented[c] = 2 => code[c].state # "none"
      BY <1>0 DEF TokensHold
    <3> QED BY <1>0, <1>1, <3>1 DEF ReplaysEndTheGrant, AnsweredFor, CodesHold, Seen
  <2>2. \A t \in Tokens : presented'[t] = 2 => grant'[token'[t].grant].state = "revoked"
    <3>1. \A t \in Tokens : presented[t] = 2 => token[t].state # "none"
      BY <1>0 DEF TokensHold
    <3> QED BY <1>0, <1>1, <1>2, <3>1 DEF ReplaysEndTheGrant, AnsweredFor, TokensHold, Seen
  <2> QED BY <2>1, <2>2 DEF ReplaysEndTheGrant
<1> QED BY <1>3, <1>4, <1>5, <1>6, <1>7

\* A request is undisturbed by the end of grants that it has not decided about.
LEMMA EndingFrames ==
  ASSUME Inv, NEW gs, Ending(gs), UNCHANGED <<flow, code>>, NEW q \in Requests, request'[q] = request[q],
         Rests(q) => request[q].grant \notin gs /\ SamePolicy(request[q].user)
  PROVE  Frame(q)
<1>1. AllHold(q)
  BY RequestFacts
<1>2. Makes(q) => /\ request[q].grant \in Grants /\ grant'[request[q].grant].state = "inserted"
                  /\ grant'[request[q].grant].flow = grant[request[q].grant].flow
                  /\ grant'[request[q].grant].session = grant[request[q].grant].session
  BY <1>1 DEF AllHold, MakerHolds, Ending
<1>3. Rests(q) => /\ grant'[request[q].grant].revision = grant[request[q].grant].revision
                  /\ grant'[request[q].grant].session = grant[request[q].grant].session
                  /\ grant'[request[q].grant].state = grant[request[q].grant].state
  BY <1>1 DEF AllHold, DecisionHolds, Ending
<1>4. Holds(q) /\ request[q].kind = "refresh" /\ token[request[q].token].state = "live" =>
        token'[request[q].token].state = "live"
  <2>1. request[q].kind = "refresh" /\ Holds(q) => /\ Rests(q) /\ request[q].token \in Tokens
                                                 /\ request[q].grant = token[request[q].token].grant
    BY <1>1 DEF AllHold, RequestHolds, Rests, Holds
  <2> QED BY <2>1 DEF Ending
<1> QED BY <1>2, <1>3, <1>4 DEF Frame

\* A browser's request has decided about no grant that has a code.
LEMMA CodedApart ==
  ASSUME Inv, NEW c \in Codes, code[c].state # "none",
         NEW q \in Requests, Rests(q), request[q].kind \in Resumes
  PROVE  request[q].grant # code[c].grant
<1>1. Seen(code[c].grant) /\ flow[grant[code[c].grant].flow].status = "complete"
  BY DEF Inv, CodesHold
<1>2. CASE request[q].at = "inserted"
  <2>1. Makes(q)
    BY <1>2, RequestFacts, KindsDiffer DEF AllHold, RequestHolds, Makes
  <2>2. grant[request[q].grant].state = "inserted"
    BY <2>1, RequestFacts DEF AllHold, MakerHolds
  <2> QED BY <1>1, <2>2 DEF Seen
<1>3. CASE request[q].at = "decided"
  BY <1>1, <1>3, DecidedFlow
<1> QED BY <1>2, <1>3 DEF Rests

\* A grant's code, once it has a token.
LEMMA CodeOfToken ==
  ASSUME Inv, NEW t \in Tokens, token[t].state # "none"
  PROVE  \E c \in Codes : code[c].state = "consumed" /\ code[c].grant = token[t].grant
<1>1. token[t].grant \in Grants /\ grant[token[t].grant].code # None
  BY DEF Inv, TokensHold, Seen
<1>2. grant[token[t].grant].code \in Codes
  BY <1>1, TypeParts DEF Inv, RowsType, GrantType
<1> QED BY <1>1, <1>2 DEF Inv, CodesHold

\* A grant that is decided about for a token is nobody else's.
LEMMA HolderApart ==
  ASSUME Inv, NEW r \in Requests, Holds(r), NEW q \in Requests \ {r}, Rests(q)
  PROVE  request[q].grant # request[r].grant
<1>1. RequestHolds(r) /\ RequestHolds(q)
  BY RequestFacts DEF AllHold
<1>2. CASE request[q].kind \in TokenKinds
  <2>1. request[q].at # "inserted"
    BY <1>1, <1>2, KindsDiffer DEF RequestHolds, Resumes
  <2> QED BY <1>2, <2>1 DEF Rests, Holds, Inv, RequestsHold, OneHolds
<1>3. CASE request[q].kind \in Resumes
  <2>1. \E c \in Codes : code[c].state # "none" /\ code[c].grant = request[r].grant
    <3>1. CASE request[r].kind = "exchange"
      BY <1>1, <3>1 DEF RequestHolds, Holds
    <3>2. CASE request[r].kind \in {"refresh", "revoke"}
      BY <1>1, <3>2, CodeOfToken DEF RequestHolds
    <3> QED BY <3>1, <3>2 DEF Holds, TokenKinds
  <2> QED BY <1>3, <2>1, CodedApart
<1> QED BY <1>1, <1>2, <1>3, RequestFacts DEF RequestHolds, Rests, RequestType, TokenKinds

LEMMA revokes ==
  ASSUME Inv, NEW gs, revokeGrantContexts(gs)
  PROVE  /\ grant' \in [Grants -> GrantType]
         /\ \A g \in Grants :
              /\ grant'[g].session = grant[g].session /\ grant'[g].revision = grant[g].revision
              /\ grant'[g].flow = grant[g].flow /\ grant'[g].code = grant[g].code
              /\ \/ grant'[g].state = grant[g].state
                 \/ g \in gs /\ grant[g].state = "live" /\ grant'[g].state = "revoked"
              /\ g \in gs => grant'[g].state # "live"
<1>1. grant \in [Grants -> GrantType]
  BY TypeParts DEF Inv, RowsType
<1> QED BY <1>1 DEF revokeGrantContexts, GrantType

LEMMA erases ==
  ASSUME Inv, NEW ts, token' = Erased(ts)
  PROVE  /\ token' \in [Tokens -> TokenType]
         /\ \A t \in Tokens :
              /\ token'[t].grant = token[t].grant /\ (token'[t].state = "none" <=> token[t].state = "none")
              /\ token'[t].state = "live" => token[t].state = "live"
              /\ t \notin ts => token'[t] = token[t]
              /\ t \in ts /\ token[t].state # "none" => token'[t].state = "deleted"
<1>1. token \in [Tokens -> TokenType]
  BY TypeParts DEF Inv, RowsType
<1> QED BY <1>1 DEF Erased, TokenType

\* A revocation and what is erased of its tokens, or nothing of them.
LEMMA revokesAndErases ==
  ASSUME Inv, NEW gs, revokeGrantContexts(gs), NEW ts, \A t \in ts : token[t].grant \in gs,
         token' \in {token, Erased(ts)}
  PROVE  Ending(gs)
<1>1. token \in [Tokens -> TokenType]
  BY TypeParts DEF Inv, RowsType
<1>2. CASE token' = token
  BY <1>1, <1>2, revokes DEF Ending
<1>3. CASE token' = Erased(ts)
  BY <1>3, revokes, erases DEF Ending
<1> QED BY <1>2, <1>3

LEMMA LivingKeep ==
  ASSUME Inv, NEW gs, Ending(gs), UNCHANGED <<policyVars, session>>
  PROVE  GrantsRestOnTheLiving'
<1>1. \A g \in Grants : grant'[g].state = "live" =>
        /\ grant[g].state = "live" /\ GrantUser(g)' = GrantUser(g) /\ GrantKind(g)' = GrantKind(g)
        /\ grant'[g].revision = grant[g].revision
  BY DEF Ending, GrantUser, GrantKind
<1> QED BY <1>1 DEF Inv, GrantsRestOnTheLiving, policyVars, Active, GrantUser, GrantKind

\* A request that ends grants of its own, and itself.
LEMMA RevokingRequest ==
  ASSUME Inv, NEW r \in Requests, Ends(r), NEW gs, Ending(gs), AnsweredFor, NEW x \in Codes \cup Tokens,
         Answers(x), UNCHANGED <<policyVars, session, flow, code, requests, moves>>,
         \A q \in Requests \ {r} : Rests(q) => request[q].grant \notin gs
  PROVE  Inv'
<1>0. PolicyType /\ RowsType /\ RestType
  BY TypeParts DEF Inv
<1>1. presented' \in [Codes \cup Tokens -> 0..2]
  BY <1>0 DEF Answers, RestType
<1>2. TypeOK'
  BY <1>0, <1>1, RequestFacts, IdleType, TypePartsNext DEF Ends, Ending, PolicyType, RowsType, RestType, policyVars
<1>3. SessionsGrow
  BY DEF SessionsGrow
<1>4. Grows /\ FlowsHold' /\ CodesHold' /\ TokensHold' /\ ReplaysEndTheGrant'
  BY <1>3, EndingKeeps
<1>5. \A q \in Requests \ {r} : Frame(q)
  BY OthersSame, PolicyKept, EndingFrames
<1>6. RequestsHold'
  BY <1>2, <1>4, <1>5, EndKeeps
<1> QED BY <1>2, <1>4, <1>6, LivingKeep DEF Inv

LEMMA AnsweredCode ==
  ASSUME Inv, NEW c \in Codes, Answers(c), code[c].state = "consumed",
         grant'[code[c].grant].state = "revoked"
  PROVE  AnsweredFor
<1>1. \A y \in Codes \cup Tokens : y # c => presented'[y] = presented[y]
  BY TypeParts DEF Inv, RestType, Answers
<1> QED BY <1>1, Names DEF AnsweredFor

LEMMA AnsweredToken ==
  ASSUME Inv, NEW t \in Tokens, Answers(t), token'[t].state \in {"rotated", "deleted"},
         grant'[token[t].grant].state = "revoked"
  PROVE  AnsweredFor
<1>1. \A y \in Codes \cup Tokens : y # t => presented'[y] = presented[y]
  BY TypeParts DEF Inv, RestType, Answers
<1> QED BY <1>1, Names DEF AnsweredFor

LEMMA ReplayedCode ==
  ASSUME Inv, NEW r \in Requests, request[r].kind = "exchange", code[request[r].code].state = "consumed",
         NEW gs, gs = {g \in Grants : grant[g].code = request[r].code}
  PROVE  /\ request[r].code \in Codes /\ code[request[r].code].grant \in gs
         /\ \A g \in gs : g = code[request[r].code].grant
         /\ request[r].at # "unreferenced" => request[r].grant \in gs
<1>1. request[r].code \in Codes
  BY RequestFacts DEF AllHold, RequestHolds
<1>2. /\ Seen(code[request[r].code].grant)
      /\ grant[code[request[r].code].grant].code = request[r].code
  BY <1>1 DEF Inv, CodesHold
<1>3. \A g \in gs : g = code[request[r].code].grant
  BY <1>1, Names DEF Inv, CodesHold
<1>4. request[r].at # "unreferenced" => request[r].grant = code[request[r].code].grant
  BY RequestFacts DEF AllHold, RequestHolds
<1> QED BY <1>1, <1>2, <1>3, <1>4 DEF Seen

LEMMA withNativeCodeReplayKeeps ==
  ASSUME Inv, NEW r \in Requests, withNativeCodeReplay(r)
  PROVE  Inv'
<1> PICK gs : gs = {g \in Grants : grant[g].code = request[r].code}
  OBVIOUS
<1> PICK ts : ts = TokensOf({request[r].grant})
  OBVIOUS
<1>1. /\ Holds(r) /\ request[r].kind = "exchange" /\ request[r].found = "consumed" /\ Ends(r)
      /\ Answers(request[r].code) /\ revokeGrantContexts(gs) /\ token' \in {token, Erased(ts)}
      /\ UNCHANGED <<policyVars, session, flow, code, requests, moves>>
  BY DEF withNativeCodeReplay, Decided, Holds, TokenKinds, Cleanup
<1>2. code[request[r].code].state = "consumed"
  BY <1>1, RequestFacts DEF AllHold, HolderHolds
<1>3. /\ request[r].code \in Codes /\ code[request[r].code].grant \in gs
      /\ request[r].grant \in gs /\ \A g \in gs : g = request[r].grant
  BY <1>1, <1>2, ReplayedCode DEF Holds
<1>4. Ending(gs)
  BY <1>1, <1>3, revokesAndErases DEF TokensOf
<1>5. AnsweredFor
  <2>1. Seen(code[request[r].code].grant)
    BY <1>2, <1>3 DEF Inv, CodesHold
  <2>2. grant'[code[request[r].code].grant].state = "revoked"
    BY <1>1, <1>3, <2>1, revokes DEF Seen
  <2> QED BY <1>1, <1>2, <1>3, <2>2, AnsweredCode
<1>6. \A q \in Requests \ {r} : Rests(q) => request[q].grant \notin gs
  BY <1>1, <1>3, HolderApart
<1> QED BY <1>1, <1>3, <1>4, <1>5, <1>6, RevokingRequest

LEMMA ReplayUnreferencedKeeps ==
  ASSUME Inv, NEW r \in Requests, ReplayUnreferenced(r)
  PROVE  Inv'
<1> PICK gs : gs = {g \in Grants : grant[g].code = request[r].code}
  OBVIOUS
<1> PICK ts : ts = TokensOf(gs)
  OBVIOUS
<1>1. /\ request[r].at = "unreferenced" /\ Ends(r) /\ \A g \in gs : GrantFree(g)
      /\ Answers(request[r].code) /\ revokeGrantContexts(gs) /\ token' \in {token, Erased(ts)}
      /\ UNCHANGED <<policyVars, session, flow, code, requests, moves>>
  BY DEF ReplayUnreferenced, Cleanup
<1>2. request[r].kind = "exchange" /\ code[request[r].code].state = "consumed"
  BY <1>1, RequestFacts DEF AllHold, RequestHolds
<1>3. /\ request[r].code \in Codes /\ code[request[r].code].grant \in gs
      /\ \A g \in gs : g = code[request[r].code].grant
  BY <1>2, ReplayedCode
<1>4. Ending(gs)
  <2>1. \A t \in ts : token[t].grant \in gs
    BY DEF TokensOf
  <2> QED BY <1>1, <2>1, revokesAndErases
<1>5. AnsweredFor
  <2>1. Seen(code[request[r].code].grant)
    BY <1>2, <1>3 DEF Inv, CodesHold
  <2>2. grant'[code[request[r].code].grant].state = "revoked"
    BY <1>1, <1>3, <2>1, revokes DEF Seen
  <2> QED BY <1>1, <1>2, <1>3, <2>2, AnsweredCode
<1>6. ASSUME NEW q \in Requests \ {r}, Rests(q) PROVE request[q].grant \notin gs
  <2>1. CASE request[q].kind \in Resumes
    BY <1>2, <1>3, <1>6, <2>1, CodedApart
  <2>2. CASE request[q].kind \notin Resumes
    <3>1. request[q].at = "decided"
      BY <1>6, <2>2, RequestFacts DEF AllHold, RequestHolds, Rests, Resumes
    <3> QED BY <1>1, <2>2, <3>1 DEF GrantFree
  <2> QED BY <2>1, <2>2
<1> QED BY <1>1, <1>3, <1>4, <1>5, <1>6, RevokingRequest

\* What a request about a token that native code found ends.
LEMMA RevokedToken ==
  ASSUME Inv, NEW r \in Requests, Holds(r), request[r].kind \in {"refresh", "revoke"}, Ends(r),
         NEW ts, \A t \in ts : token[t].grant = request[r].grant, token' \in {token, Erased(ts)},
         revokeGrantContexts({request[r].grant}), Answers(request[r].token),
         (request[r].token \in ts /\ token' = Erased(ts)) \/ request[r].found = "rotated",
         UNCHANGED <<policyVars, session, flow, code, requests, moves>>
  PROVE  Inv'
<1> PICK gs : gs = {request[r].grant}
  OBVIOUS
<1>1. /\ request[r].token \in Tokens /\ token[request[r].token].state # "none"
      /\ request[r].grant = token[request[r].token].grant /\ RowsType
  BY RequestFacts DEF AllHold, RequestHolds
<1>2. Ending(gs)
  BY revokesAndErases
<1>3. AnsweredFor
  <2>1. Seen(request[r].grant)
    BY <1>1 DEF Inv, TokensHold
  <2>2. grant'[token[request[r].token].grant].state = "revoked"
    BY <1>1, <2>1, revokes DEF Seen
  <2>3. token'[request[r].token].state \in {"rotated", "deleted"}
    <3>1. CASE request[r].token \in ts /\ token' = Erased(ts)
      BY <1>1, <3>1, erases
    <3>2. CASE request[r].found = "rotated"
      <4>1. token[request[r].token].state \in {"rotated", "deleted"}
        BY <3>2, RequestFacts DEF AllHold, HolderHolds
      <4>2. token'[request[r].token].state \notin {"none", "live"}
        BY <1>1, <1>2, <4>1 DEF Ending
      <4> QED BY <1>1, <1>2, <4>2 DEF Ending, TokenType
    <3> QED BY <3>1, <3>2
  <2> QED BY <1>1, <2>2, <2>3, AnsweredToken
<1>4. \A q \in Requests \ {r} : Rests(q) => request[q].grant \notin gs
  BY HolderApart
<1> QED BY <1>1, <1>2, <1>3, <1>4, RevokingRequest

LEMMA withNativeRefreshFamilyKeeps ==
  ASSUME Inv, NEW r \in Requests, withNativeRefreshFamily(r)
  PROVE  Inv'
<1> PICK ts : ts = TokensOf({request[r].grant})
  OBVIOUS
<1>1. /\ Holds(r) /\ request[r].kind \in {"refresh", "revoke"} /\ request[r].found = "rotated" /\ Ends(r)
      /\ Answers(request[r].token) /\ revokeGrantContexts({request[r].grant})
      /\ token' \in {token, Erased(ts)} /\ \A t \in ts : token[t].grant = request[r].grant
      /\ UNCHANGED <<policyVars, session, flow, code, requests, moves>>
  BY DEF withNativeRefreshFamily, Decided, Holds, TokenKinds, Cleanup, TokensOf
<1> QED BY <1>1, RevokedToken

LEMMA revokeUserTokenKeeps ==
  ASSUME Inv, NEW r \in Requests, revokeUserToken(r)
  PROVE  Inv'
<1> PICK ts : ts = {request[r].token}
  OBVIOUS
<1>1. /\ Holds(r) /\ request[r].kind = "revoke" /\ Ends(r) /\ Answers(request[r].token)
      /\ revokeGrantContexts({request[r].grant}) /\ token' = Erased(ts)
      /\ UNCHANGED <<policyVars, session, flow, code, requests, moves>>
  BY DEF revokeUserToken, Decided, Holds, TokenKinds
<1>2. request[r].grant = token[request[r].token].grant
  BY <1>1, RequestFacts DEF AllHold, RequestHolds
<1> QED BY <1>1, <1>2, RevokedToken

(***************************************************************************)
(* What a token request issues                                             *)
(***************************************************************************)
\* A new token is of a grant that lives and has a code that is consumed.
LEMMA IssuedToken ==
  ASSUME Inv, NEW r \in Requests, Holds(r), request[r].kind # "revoke", Ends(r), NEW t \in Tokens,
         token[t].state = "none", NEW x \in Codes \cup Tokens, Answers(x), presented[x] = 0, x # t,
         code' \in [Codes -> CodeType], grant' \in [Grants -> GrantType], token' \in [Tokens -> TokenType],
         UNCHANGED <<policyVars, session, flow, requests, moves>>,
         \A g \in Grants :
           /\ grant'[g].session = grant[g].session /\ grant'[g].revision = grant[g].revision
           /\ grant'[g].flow = grant[g].flow /\ grant'[g].state = grant[g].state
           /\ grant[g].code # None => grant'[g].code # None,
         grant'[request[r].grant].code # None,
         \A c \in Codes : /\ code'[c].grant = code[c].grant /\ code'[c].scopes = code[c].scopes
                          /\ \/ code'[c].state = code[c].state
                             \/ /\ request[r].kind = "exchange" /\ c = request[r].code
                                /\ code[c].state = "issued" /\ code'[c].state = "consumed" /\ c = x,
         token'[t].state = "live" /\ token'[t].grant = request[r].grant,
         \A o \in Tokens \ {t} :
           /\ token'[o].grant = token[o].grant
           /\ \/ token'[o].state = token[o].state
              \/ /\ request[r].kind = "refresh" /\ o = request[r].token
                 /\ token[o].state = "live" /\ token'[o].state = "rotated" /\ o = x,
         \A o \in Tokens \ {t} : token'[o].state = "live" => token'[o].grant # request[r].grant,
         x \in Codes => code'[x].state = "consumed",
         x \in Tokens => token'[x].state = "rotated"
  PROVE  /\ TypeOK' /\ RequestsHold' /\ FlowsHold' /\ TokensHold' /\ GrantsRestOnTheLiving'
         /\ ReplaysEndTheGrant'
<1>0. PolicyType /\ RowsType /\ RestType /\ FlowsHold /\ CodesHold /\ TokensHold /\ ReplaysEndTheGrant
  BY TypeParts DEF Inv
<1>1. /\ presented' \in [Codes \cup Tokens -> 0..2] /\ presented'[x] = 1
      /\ \A y \in Codes \cup Tokens : y # x => presented'[y] = presented[y]
  BY <1>0 DEF RestType, Answers
<1>2. TypeOK'
  BY <1>0, <1>1, RequestFacts, IdleType, TypePartsNext DEF Ends, PolicyType, RowsType, RestType, policyVars
<1>3. \A g \in Grants : Seen(g)' = Seen(g)
  BY DEF Seen
<1>4. Grows
  <2>1. \A s \in Sessions :
          /\ session'[s].kind = session[s].kind
          /\ session[s].life # "absent" =>
               session'[s].life # "absent" /\ session'[s].revision = session[s].revision
    OBVIOUS
  <2>2. \A c \in Codes : code[c].state # "none" =>
          /\ code'[c].grant = code[c].grant /\ code'[c].scopes = code[c].scopes
          /\ code'[c].state # "none" /\ (code[c].state = "consumed" => code'[c].state = "consumed")
    OBVIOUS
  <2>3. \A o \in Tokens : token[o].state # "none" =>
          /\ token'[o].state # "none" /\ token'[o].grant = token[o].grant
          /\ token[o].state # "live" => token'[o].state # "live"
    OBVIOUS
  <2> QED BY <1>3, <2>1, <2>2, <2>3 DEF Grows
<1>5. AllHold(r) /\ Rests(r) /\ request[r].grant \in Grants /\ grant[request[r].grant].state = "live"
  BY RequestFacts DEF AllHold, DecisionHolds, Rests, Holds, TokenKinds, Resumes
<1>6. ASSUME NEW q \in Requests \ {r} PROVE Frame(q)
  <2>1. AllHold(q)
    BY RequestFacts
  <2>2. Makes(q) \/ Rests(q) => request[q].grant \in Grants
    BY <2>1 DEF AllHold, MakerHolds, DecisionHolds
  <2>3. Makes(q) => grant[request[q].grant].state = "inserted"
    BY <2>1 DEF AllHold, MakerHolds
  <2>4. Holds(q) => request[q].grant # request[r].grant
    BY DEF Inv, RequestsHold, OneHolds
  <2>5. Holds(q) /\ request[q].kind = "exchange" => code'[request[q].code].state = code[request[q].code].state
    <3> SUFFICES ASSUME Holds(q), request[q].kind = "exchange"
                 PROVE  code'[request[q].code].state = code[request[q].code].state
      OBVIOUS
    <3>1. request[q].code \in Codes /\ request[q].grant = code[request[q].code].grant
      BY <2>1 DEF AllHold, RequestHolds, Holds
    <3>2. request[r].kind = "exchange" => request[r].grant = code[request[r].code].grant
      BY <1>5 DEF AllHold, RequestHolds, Holds
    <3> QED BY <2>4, <3>1, <3>2
  <2>6. Holds(q) /\ request[q].kind = "refresh" /\ token[request[q].token].state = "live" =>
          token'[request[q].token].state = "live"
    <3> SUFFICES ASSUME Holds(q), request[q].kind = "refresh", token[request[q].token].state = "live"
                 PROVE  token'[request[q].token].state = "live"
      OBVIOUS
    <3>1. request[q].token \in Tokens \ {t} /\ request[q].grant = token[request[q].token].grant
      BY <2>1 DEF AllHold, RequestHolds
    <3>2. request[r].kind = "refresh" => request[r].grant = token[request[r].token].grant
      BY <1>5 DEF AllHold, RequestHolds
    <3> QED BY <2>4, <3>1, <3>2
  <2> QED BY <2>2, <2>3, <2>5, <2>6, OthersSame, PolicyKept DEF Frame
<1>7. RequestsHold'
  BY <1>2, <1>4, <1>6, EndKeeps
<1>8. FlowsHold'
  BY <1>0, <1>3 DEF FlowsHold, Seen
<1>9. TokensHold'
  <2>1. Seen(request[r].grant)
    BY <1>5 DEF Seen
  <2>2. ASSUME NEW o \in Tokens, token'[o].state # "none"
        PROVE  Seen(token[o].grant)' /\ grant'[token'[o].grant].code # None
    <3>1. CASE o = t
      BY <1>3, <1>5, <2>1, <3>1 DEF Seen
    <3>2. CASE o # t
      <4>1. token[o].state # "none" /\ token'[o].grant = token[o].grant
        BY <2>2, <3>2
      <4> QED BY <1>0, <4>1 DEF TokensHold, Seen
    <3> QED BY <3>1, <3>2
  <2>3. \A t1, t2 \in Tokens : token'[t1].state = "live" /\ token'[t2].state = "live"
                                 /\ token'[t1].grant = token'[t2].grant => t1 = t2
    <3>1. \A o \in Tokens \ {t} : token'[o].state = "live" => token[o].state = "live"
      OBVIOUS
    <3> QED BY <1>0, <3>1 DEF TokensHold
  <2>4. \A c \in Codes : code'[c].state \in {"none", "issued"} => presented'[c] = 0
    <3>1. \A c \in Codes : code'[c].state \in {"none", "issued"} =>
            c # x /\ code[c].state \in {"none", "issued"}
      OBVIOUS
    <3> QED BY <1>0, <1>1, <3>1 DEF TokensHold
  <2>5. \A o \in Tokens : token'[o].state \in {"none", "live"} => presented'[o] = 0
    <3>1. \A o \in Tokens : token'[o].state \in {"none", "live"} =>
            o # x /\ token[o].state \in {"none", "live"}
      OBVIOUS
    <3> QED BY <1>0, <1>1, <3>1 DEF TokensHold
  <2> QED BY <2>2, <2>3, <2>4, <2>5 DEF TokensHold
<1>10. GrantsRestOnTheLiving'
  <2>1. \A g \in Grants : /\ grant'[g].state = grant[g].state /\ grant'[g].revision = grant[g].revision
                          /\ GrantUser(g)' = GrantUser(g) /\ GrantKind(g)' = GrantKind(g)
    BY DEF GrantUser, GrantKind
  <2> QED BY <2>1 DEF Inv, GrantsRestOnTheLiving, policyVars, Active, GrantUser, GrantKind
<1>11. ReplaysEndTheGrant'
  <2>1. \A c \in Codes : presented'[c] = 2 => grant'[code'[c].grant].state = "revoked"
    <3>1. \A c \in Codes : presented'[c] = 2 => presented[c] = 2 /\ code[c].state # "none"
      BY <1>0, <1>1 DEF TokensHold
    <3> QED BY <1>0, <3>1 DEF ReplaysEndTheGrant, CodesHold, Seen
  <2>2. \A o \in Tokens : presented'[o] = 2 => grant'[token'[o].grant].state = "revoked"
    <3>1. \A o \in Tokens : presented'[o] = 2 => presented[o] = 2 /\ token[o].state # "none"
      BY <1>0, <1>1 DEF TokensHold
    <3> QED BY <1>0, <3>1 DEF ReplaysEndTheGrant, TokensHold, Seen
  <2> QED BY <2>1, <2>2 DEF ReplaysEndTheGrant
<1> QED BY <1>2, <1>7, <1>8, <1>9, <1>10, <1>11

LEMMA ExchangeCodeKeeps ==
  ASSUME Inv, NEW r \in Requests, NEW t \in Tokens, ExchangeCode(r, t)
  PROVE  Inv'
<1> PICK c, g : c = request[r].code /\ g = request[r].grant
  OBVIOUS
<1>1. /\ Holds(r) /\ request[r].kind = "exchange" /\ request[r].found = "issued" /\ token[t].state = "none"
      /\ grant[g].code \in {None, c} /\ code' = [code EXCEPT ![c].state = "consumed"]
      /\ grant' = [grant EXCEPT ![g].code = c] /\ token' = NewToken(token, t, r)
      /\ Answers(c) /\ Ends(r) /\ UNCHANGED <<policyVars, session, flow, requests, moves>>
  BY DEF ExchangeCode, Decided, Holds, TokenKinds
<1>0. AllHold(r) /\ request[r] \in RequestType /\ RowsType /\ CodesHold /\ TokensHold
  BY RequestFacts DEF Inv
<1>2. /\ c \in Codes /\ code[c].state = "issued" /\ code[c].grant = g /\ Seen(g) /\ g \in Grants
      /\ presented[c] = 0
  BY <1>0, <1>1 DEF AllHold, RequestHolds, HolderHolds, Holds, CodesHold, TokensHold, Seen
<1>3. grant[g].code = None
  BY <1>0, <1>1, <1>2, Names DEF CodesHold
<1>4. /\ code' \in [Codes -> CodeType]
      /\ \A d \in Codes : /\ code'[d].grant = code[d].grant /\ code'[d].scopes = code[d].scopes
                          /\ d # c => code'[d].state = code[d].state
      /\ code'[c].state = "consumed"
  BY <1>0, <1>1, <1>2 DEF RowsType, CodeType
<1>5. /\ grant' \in [Grants -> GrantType]
      /\ \A h \in Grants :
           /\ grant'[h].session = grant[h].session /\ grant'[h].revision = grant[h].revision
           /\ grant'[h].flow = grant[h].flow /\ grant'[h].state = grant[h].state
           /\ h # g => grant'[h].code = grant[h].code
      /\ grant'[g].code = c
  BY <1>0, <1>1, <1>2 DEF RowsType, GrantType
<1>6. /\ token' \in [Tokens -> TokenType] /\ token'[t].state = "live" /\ token'[t].grant = g
      /\ \A o \in Tokens \ {t} : token'[o] = token[o]
  BY <1>0, <1>1, <1>2 DEF RowsType, TokenType, NewToken, RequestType
<1>7. \A o \in Tokens \ {t} : token'[o].state = "live" => token'[o].grant # g
  BY <1>0, <1>3, <1>6 DEF TokensHold
<1>8. c \notin Tokens /\ c # t /\ c # None
  BY <1>2, Names
<1>9. /\ TypeOK' /\ RequestsHold' /\ FlowsHold' /\ TokensHold' /\ GrantsRestOnTheLiving'
      /\ ReplaysEndTheGrant'
  <2>1. request[r].kind # "revoke" /\ grant'[request[r].grant].code # None
    BY <1>1, <1>5, <1>8
  <2>2. \A d \in Codes : /\ code'[d].grant = code[d].grant /\ code'[d].scopes = code[d].scopes
                         /\ \/ code'[d].state = code[d].state
                            \/ /\ request[r].kind = "exchange" /\ d = request[r].code
                               /\ code[d].state = "issued" /\ code'[d].state = "consumed" /\ d = c
    BY <1>1, <1>2, <1>4
  <2>3. \A h \in Grants :
          /\ grant'[h].session = grant[h].session /\ grant'[h].revision = grant[h].revision
          /\ grant'[h].flow = grant[h].flow /\ grant'[h].state = grant[h].state
          /\ grant[h].code # None => grant'[h].code # None
    BY <1>5, <1>8
  <2>4. \A o \in Tokens \ {t} :
          /\ token'[o].grant = token[o].grant
          /\ \/ token'[o].state = token[o].state
             \/ /\ request[r].kind = "refresh" /\ o = request[r].token
                /\ token[o].state = "live" /\ token'[o].state = "rotated" /\ o = c
    BY <1>6
  <2>5. \A o \in Tokens \ {t} : token'[o].state = "live" => token'[o].grant # request[r].grant
    BY <1>7
  <2>6. /\ c \in Codes \cup Tokens /\ (c \in Codes => code'[c].state = "consumed")
        /\ (c \in Tokens => token'[c].state = "rotated") /\ token'[t].grant = request[r].grant
    BY <1>2, <1>4, <1>6, <1>8
  <2> QED BY <1>1, <1>2, <1>4, <1>5, <1>6, <1>8, <2>1, <2>2, <2>3, <2>4, <2>5, <2>6, IssuedToken
<1>10. CodesHold'
  <2>1. \A d \in Codes : code'[d].state # "none" <=> code[d].state # "none"
    BY <1>2, <1>4
  <2>2. ASSUME NEW d \in Codes, code'[d].state # "none"
        PROVE  /\ Seen(code[d].grant)' /\ code'[d].scopes # {}
               /\ flow'[grant'[code'[d].grant].flow].status = "complete"
               /\ code'[d].state = "consumed" => grant'[code'[d].grant].code = d
    <3>1. /\ Seen(code[d].grant) /\ code[d].scopes # {} /\ flow[grant[code[d].grant].flow].status = "complete"
          /\ code[d].state = "consumed" => grant[code[d].grant].code = d
      BY <1>0, <2>1, <2>2 DEF CodesHold
    <3>2. d # c => code[d].grant # g
      BY <1>0, <1>2, <2>1, <2>2 DEF CodesHold
    <3> QED BY <1>1, <1>2, <1>4, <1>5, <3>1, <3>2 DEF Seen
  <2>3. \A h \in Grants : grant'[h].code # None =>
          code'[grant'[h].code].state = "consumed" /\ code'[grant'[h].code].grant = h
    <3>1. \A h \in Grants : grant[h].code # None => grant[h].code \in Codes
      BY <1>0 DEF RowsType, GrantType
    <3> QED BY <1>0, <1>2, <1>4, <1>5, <3>1 DEF CodesHold
  <2> QED BY <1>0, <1>4, <2>1, <2>2, <2>3 DEF CodesHold
<1> QED BY <1>9, <1>10 DEF Inv

LEMMA RotateTokenKeeps ==
  ASSUME Inv, NEW r \in Requests, NEW t \in Tokens, RotateToken(r, t)
  PROVE  Inv'
<1> PICK x, g : x = request[r].token /\ g = request[r].grant
  OBVIOUS
<1>1. /\ Holds(r) /\ request[r].kind = "refresh" /\ request[r].found = "live" /\ token[t].state = "none"
      /\ token' = NewToken([token EXCEPT ![x].state = "rotated"], t, r)
      /\ Answers(x) /\ Ends(r) /\ UNCHANGED <<policyVars, session, flow, grant, code, requests, moves>>
  BY DEF RotateToken, Decided, Holds, TokenKinds
<1>0. AllHold(r) /\ request[r] \in RequestType /\ RowsType /\ CodesHold /\ TokensHold /\ ReplaysEndTheGrant
  BY RequestFacts DEF Inv
<1>2. /\ x \in Tokens /\ token[x].state = "live" /\ token[x].grant = g /\ g \in Grants
      /\ grant[g].code # None /\ presented[x] = 0 /\ x # t
  BY <1>0, <1>1 DEF AllHold, RequestHolds, HolderHolds, Holds, TokensHold, Seen
<1>3. /\ token' \in [Tokens -> TokenType] /\ token'[t].state = "live" /\ token'[t].grant = g
      /\ token'[x].state = "rotated" /\ token'[x].grant = g
      /\ \A o \in Tokens \ {t, x} : token'[o] = token[o]
  BY <1>0, <1>1, <1>2 DEF RowsType, TokenType, NewToken, RequestType
<1>4. \A o \in Tokens \ {t} : token'[o].state = "live" => token'[o].grant # g
  BY <1>0, <1>2, <1>3 DEF TokensHold
<1>5. x \notin Codes
  BY <1>2, Names
<1>6. /\ TypeOK' /\ RequestsHold' /\ FlowsHold' /\ TokensHold' /\ GrantsRestOnTheLiving'
      /\ ReplaysEndTheGrant'
  <2>1. /\ request[r].kind # "revoke" /\ grant'[request[r].grant].code # None
        /\ code' \in [Codes -> CodeType] /\ grant' \in [Grants -> GrantType]
    BY <1>0, <1>1, <1>2 DEF RowsType
  <2>2. \A d \in Codes : /\ code'[d].grant = code[d].grant /\ code'[d].scopes = code[d].scopes
                         /\ \/ code'[d].state = code[d].state
                            \/ /\ request[r].kind = "exchange" /\ d = request[r].code
                               /\ code[d].state = "issued" /\ code'[d].state = "consumed" /\ d = x
    BY <1>1
  <2>3. \A h \in Grants :
          /\ grant'[h].session = grant[h].session /\ grant'[h].revision = grant[h].revision
          /\ grant'[h].flow = grant[h].flow /\ grant'[h].state = grant[h].state
          /\ grant[h].code # None => grant'[h].code # None
    BY <1>1
  <2>4. \A o \in Tokens \ {t} :
          /\ token'[o].grant = token[o].grant
          /\ \/ token'[o].state = token[o].state
             \/ /\ request[r].kind = "refresh" /\ o = request[r].token
                /\ token[o].state = "live" /\ token'[o].state = "rotated" /\ o = x
    BY <1>1, <1>2, <1>3
  <2>5. \A o \in Tokens \ {t} : token'[o].state = "live" => token'[o].grant # request[r].grant
    BY <1>4
  <2>6. /\ x \in Codes \cup Tokens /\ (x \in Codes => code'[x].state = "consumed")
        /\ (x \in Tokens => token'[x].state = "rotated") /\ token'[t].grant = request[r].grant
    BY <1>2, <1>3, <1>5
  <2>7. UNCHANGED <<policyVars, session, flow, requests, moves>>
    BY <1>1
  <2>8. Holds(r) /\ Ends(r) /\ Answers(x) /\ token[t].state = "none" /\ presented[x] = 0 /\ x # t
    BY <1>1, <1>2
  <2>9. token' \in [Tokens -> TokenType] /\ token'[t].state = "live"
    BY <1>3
  <2> QED BY <2>1, <2>2, <2>3, <2>4, <2>5, <2>6, <2>7, <2>8, <2>9, IssuedToken
<1>7. CodesHold'
  BY <1>0, <1>1 DEF CodesHold, Seen
<1> QED BY <1>6, <1>7 DEF Inv

(***************************************************************************)
(* Commands                                                                *)
(***************************************************************************)
\* A command on a user changes the policy of nobody else.
OfUser(u) ==
  /\ UNCHANGED <<window, linked, provider, ceiling>>
  /\ \A p \in Parties \ {u} : standing'[p] = standing[p]
  /\ \A v \in Users \ {u} : (v \in member' <=> v \in member) /\ assigned'[v] = assigned[v]

\* What a decided request rests on is shared with it, so that a command waits for it.
LEMMA RestsOnShared ==
  ASSUME Inv, NEW p, PartyFree(p), NEW q \in Requests, Rests(q)
  PROVE  /\ p \notin {"organization", "client", "resource"} /\ request[q].user # p
         /\ request[q].user \in Users /\ request[q].user = GrantUser(request[q].grant)
<1>1. /\ Eligible(request[q].user) /\ request[q].grant \in Grants
      /\ request[q].user = GrantUser(request[q].grant)
  BY RequestFacts DEF AllHold, DecisionHolds
<1>2. Active("client") /\ Active("resource") /\ request[q].user \in Users
  <2>1. {"client", "resource"} \subseteq Parties \ Users
    BY Names DEF Parties
  <2> QED BY <1>1, <2>1, TypeParts DEF Inv, PolicyType, Eligible, Effective
<1>3. q \in Sharing /\ PartiesOf(q) = {request[q].user, "organization", "client", "resource"}
  BY <1>2 DEF Sharing, Rests, PartiesOf, Active
<1> QED BY <1>1, <1>2, <1>3 DEF PartyFree

LEMMA OthersPolicy ==
  ASSUME Inv, NEW u \in Users, OfUser(u), NEW v \in Users \ {u}
  PROVE  SamePolicy(v)
<1>1. /\ standing'[v] = standing[v] /\ \A p \in Parties \ Users : standing'[p] = standing[p]
      /\ standing'["organization"] = standing["organization"]
  BY Names DEF OfUser, Parties
<1>2. Effective(v)' = Effective(v) /\ assigned'[v] = assigned[v]
  BY DEF OfUser, Effective
<1>3. Eligible(v)' = Eligible(v)
  BY <1>1, <1>2 DEF Eligible, Active, OfUser
<1>4. UNCHANGED <<ceiling, provider>>
  BY DEF OfUser
<1>5. \A kind : Permitted(v, kind)' = Permitted(v, kind)
  BY <1>2, <1>3, <1>4 DEF Permitted
<1>6. \A kind \in Kinds : \A revision : Proved(v, kind, revision)' = Proved(v, kind, revision)
  BY <1>1, <1>2, <1>4 DEF Proved, Active
<1> QED BY <1>3, <1>5, <1>6 DEF SamePolicy

\* What is not a request's: no one who decided is disturbed, and what lives rests on the living.
LEMMA MoveKeeps ==
  ASSUME Inv, UNCHANGED protocolVars, PolicyType', session' \in [Sessions -> SessionType], moves' \in Nat,
         SessionsGrow, NEW gs, Ending(gs), GrantsRestOnTheLiving',
         \A q \in Requests : Rests(q) => request[q].grant \notin gs /\ SamePolicy(request[q].user)
  PROVE  Inv'
<1>0. RowsType /\ RestType /\ UNCHANGED <<flow, code, request, presented, requests>>
  BY TypeParts DEF Inv, protocolVars
<1>1. TypeOK'
  BY <1>0, TypePartsNext DEF RowsType, RestType, Ending
<1>2. AnsweredFor
  BY <1>0 DEF AnsweredFor
<1>3. Grows /\ FlowsHold' /\ CodesHold' /\ TokensHold' /\ ReplaysEndTheGrant'
  BY <1>0, <1>2, EndingKeeps
<1>4. \A q \in Requests : AllHold(q)'
  <2>1. \A q \in Requests : Frame(q)
    BY <1>0, EndingFrames
  <2> QED BY <1>1, <1>3, <2>1, FrameKeeps
<1>5. RequestsHold'
  <2>1. OneOpens' /\ OneHolds'
    BY <1>0 DEF Inv, RequestsHold, OneOpens, OneHolds, Opened, Holds
  <2> QED BY <1>4, <2>1 DEF RequestsHold
<1> QED BY <1>1, <1>3, <1>5 DEF Inv

LEMMA TargetKeeps ==
  ASSUME Inv, UNCHANGED <<protocolVars, session>>, PolicyType', moves' \in Nat,
         NEW p \in {"organization", "client", "resource"}, PartyFree(p),
         NEW gs, Ending(gs), GrantsRestOnTheLiving'
  PROVE  Inv'
<1>1. \A q \in Requests : ~Rests(q)
  BY RestsOnShared
<1>2. SessionsGrow /\ session' \in [Sessions -> SessionType]
  BY TypeParts DEF Inv, RowsType, SessionsGrow
<1> QED BY <1>1, <1>2, MoveKeeps

LEMMA UserKeeps ==
  ASSUME Inv, UNCHANGED protocolVars, PolicyType', moves' \in Nat,
         session' \in [Sessions -> SessionType], SessionsGrow,
         NEW u \in Users, PartyFree(u), OfUser(u), NEW gs, \A g \in gs : GrantUser(g) = u, Ending(gs),
         GrantsRestOnTheLiving'
  PROVE  Inv'
<1>1. \A q \in Requests : Rests(q) => request[q].user \in Users \ {u} /\ request[q].grant \notin gs
  BY RestsOnShared
<1> QED BY <1>1, OthersPolicy, MoveKeeps

\* A grant that lives after a step lived before it, of the same user and proof.
LEMMA Survives ==
  ASSUME Inv, NEW gs, Ending(gs), SessionsGrow, NEW g \in Grants, grant'[g].state = "live"
  PROVE  /\ grant[g].state = "live" /\ grant[g].session \in Sessions
         /\ GrantUser(g)' = GrantUser(g) /\ GrantKind(g)' = GrantKind(g)
         /\ GrantUser(g) \in Users /\ GrantKind(g) \in Kinds
         /\ grant'[g].revision = grant[g].revision /\ grant[g].session # None
         /\ \A p \in Parties \ Users : standing[p] = "active"
         /\ standing[GrantUser(g)] = "active" /\ GrantUser(g) \in member
         /\ GrantKind(g) = "directory" =>
              provider["directory"].live /\ provider["directory"].revision = grant[g].revision
<1>1. grant[g].state = "live" /\ grant'[g].session = grant[g].session /\ grant'[g].revision = grant[g].revision
  BY DEF Ending
<1>2. grant[g].session \in Sessions
  BY <1>1 DEF Inv, FlowsHold, Seen
<1>3. session[grant[g].session] \in SessionType
  BY <1>2, TypeParts DEF Inv, RowsType
<1>4. GrantUser(g)' = GrantUser(g) /\ GrantKind(g)' = GrantKind(g) /\ GrantKind(g) \in Kinds /\ GrantUser(g) \in Users
  BY <1>1, <1>2, <1>3, Names DEF GrantUser, GrantKind, SessionsGrow, SessionType
<1> QED BY <1>1, <1>2, <1>4, Names DEF Inv, GrantsRestOnTheLiving, Active

LEMMA LivingNext ==
  ASSUME Inv, NEW gs, Ending(gs), SessionsGrow,
         \A g \in Grants : grant'[g].state = "live" =>
           /\ \A p \in Parties \ Users : standing'[p] = "active"
           /\ standing'[GrantUser(g)] = "active" /\ GrantUser(g) \in member'
           /\ GrantKind(g) = "directory" =>
                provider'["directory"].live /\ provider'["directory"].revision = grant[g].revision
  PROVE  GrantsRestOnTheLiving'
BY Survives DEF GrantsRestOnTheLiving, Active

LEMMA NothingEnds ==
  ASSUME Inv, UNCHANGED <<grant, token>>
  PROVE  Ending({})
BY TypeParts DEF Inv, RowsType, Ending

LEMMA sessionsEnd ==
  ASSUME Inv, NEW u, EndSessions(u)
  PROVE  SessionsGrow /\ session' \in [Sessions -> SessionType]
<1>1. session \in [Sessions -> SessionType]
  BY TypeParts DEF Inv, RowsType
<1> QED BY <1>1 DEF EndSessions, SessionsGrow, SessionType

LEMMA tokensRevoked ==
  ASSUME Inv, NEW gs, revokeGrantContexts(gs), RevokeTokens(gs)
  PROVE  Ending(gs)
<1>1. token \in [Tokens -> TokenType]
  BY TypeParts DEF Inv, RowsType
<1>2. /\ token' \in [Tokens -> TokenType]
      /\ \A t \in Tokens :
           /\ token'[t].grant = token[t].grant /\ (token'[t].state = "none" <=> token[t].state = "none")
           /\ token'[t].state = "live" => token[t].state = "live"
           /\ token[t].state = "live" /\ token'[t].state # "live" => token[t].grant \in gs
  BY <1>1 DEF RevokeTokens, TokenType
<1> QED BY <1>2, revokes DEF Ending

LEMMA tokensLeft ==
  ASSUME Inv, NEW gs, revokeGrantContexts(gs), token' = token
  PROVE  Ending(gs)
BY revokes, TypeParts DEF Ending, Inv, RowsType

LEMMA Commanded ==
  ASSUME Inv, NEW p, Command(p)
  PROVE  /\ moves' \in Nat /\ PartyFree(p)
         /\ PolicyType /\ standing \in [Parties -> {"active", "disabled", "retired", "erased"}]
         /\ "organization" \in Parties \ Users /\ "client" \in Parties \ Users /\ "resource" \in Parties \ Users
BY TypeParts, Names DEF Command, Inv, RestType, PolicyType, Parties

LEMMA SameSessions ==
  ASSUME Inv, UNCHANGED session
  PROVE  SessionsGrow /\ session' \in [Sessions -> SessionType]
BY TypeParts DEF Inv, RowsType, SessionsGrow

\* Commands on a user leave the living of others as they are, and end the user's if it is ended.
LEMMA StandingOfUser ==
  ASSUME Inv, NEW u \in Users, NEW to \in {"active", "disabled", "retired", "erased"}, Set(u, to),
         Command(u), UNCHANGED <<window, linked, provider, ceiling>>,
         \/ UNCHANGED <<member, assigned>>
         \/ member' = member \ {u} /\ assigned' = [assigned EXCEPT ![u] = {}]
  PROVE  /\ PolicyType' /\ OfUser(u) /\ standing'[u] = to
         /\ \A p \in Parties \ {u} : standing'[p] = standing[p]
         /\ \A v \in Users \ {u} : v \in member' <=> v \in member
<1>1. standing \in [Parties -> {"active", "disabled", "retired", "erased"}] /\ u \in Parties /\ PolicyType
  BY Commanded DEF Parties
<1>2. /\ standing' \in [Parties -> {"active", "disabled", "retired", "erased"}] /\ standing'[u] = to
      /\ \A p \in Parties \ {u} : standing'[p] = standing[p]
  BY <1>1 DEF Set
<1>3. /\ member' \subseteq Users /\ assigned' \in [Users -> SUBSET Scopes]
      /\ \A v \in Users \ {u} : (v \in member' <=> v \in member) /\ assigned'[v] = assigned[v]
  BY <1>1 DEF PolicyType
<1> QED BY <1>1, <1>2, <1>3 DEF PolicyType, OfUser

LEMMA GrantsOfUser ==
  ASSUME NEW u
  PROVE  /\ \A g \in GrantsOf(u) : g \in Grants /\ GrantUser(g) = u
         /\ \A g \in Grants : grant[g].session # None /\ GrantUser(g) = u => g \in GrantsOf(u)
BY DEF GrantsOf

\* The end of a user ends what rests on the user.
LEMMA UserEnded ==
  ASSUME Inv, UNCHANGED protocolVars, NEW u \in Users, Command(u), PolicyType', OfUser(u),
         EndSessions(u), revokeGrantContexts(GrantsOf(u)),
         RevokeTokens(GrantsOf(u)) \/ token' = Erased(TokensOf(GrantsOf(u)))
  PROVE  Inv'
<1> PICK gs : gs = GrantsOf(u)
  OBVIOUS
<1> PICK ts : ts = TokensOf(gs)
  OBVIOUS
<1>1. /\ \A g \in gs : g \in Grants /\ GrantUser(g) = u
      /\ \A g \in Grants : grant[g].session # None /\ GrantUser(g) = u => g \in gs
  BY GrantsOfUser
<1>2. Ending(gs)
  <2>1. \A t \in ts : token[t].grant \in gs
    BY DEF TokensOf
  <2>2. revokeGrantContexts(gs) /\ (RevokeTokens(gs) \/ token' = Erased(ts))
    OBVIOUS
  <2> QED BY <2>1, <2>2, tokensRevoked, revokesAndErases
<1>3. SessionsGrow /\ session' \in [Sessions -> SessionType]
  BY sessionsEnd
<1>4. GrantsRestOnTheLiving'
  <2>1. \A g \in gs : grant'[g].state # "live"
    BY <1>1, revokes
  <2>2. ASSUME NEW g \in Grants, grant'[g].state = "live"
        PROVE  /\ \A p \in Parties \ Users : standing'[p] = "active"
               /\ standing'[GrantUser(g)] = "active" /\ GrantUser(g) \in member'
               /\ GrantKind(g) = "directory" =>
                    provider'["directory"].live /\ provider'["directory"].revision = grant[g].revision
    <3>1. /\ GrantUser(g) \in Users /\ grant[g].session # None
          /\ \A p \in Parties \ Users : standing[p] = "active"
          /\ standing[GrantUser(g)] = "active" /\ GrantUser(g) \in member
          /\ GrantKind(g) = "directory" =>
               provider["directory"].live /\ provider["directory"].revision = grant[g].revision
      BY <1>2, <1>3, <2>2, Survives
    <3>2. GrantUser(g) # u
      BY <1>1, <2>1, <2>2, <3>1
    <3> QED BY <3>1, <3>2 DEF OfUser, Parties
  <2> QED BY <1>2, <1>3, <2>2, LivingNext
<1> QED BY <1>1, <1>2, <1>3, <1>4, Commanded, UserKeeps

LEMMA disableUserKeeps ==
  ASSUME Inv, NEW u \in Users, disableUser(u)
  PROVE  Inv'
<1> PICK to : to = (IF standing[u] = "retired" THEN "retired" ELSE "disabled")
  OBVIOUS
<1>1. /\ Command(u) /\ Set(u, to) /\ to \in {"active", "disabled", "retired", "erased"}
      /\ revokeGrantContexts(GrantsOf(u)) /\ EndSessions(u) /\ RevokeTokens(GrantsOf(u))
      /\ UNCHANGED protocolVars /\ UNCHANGED <<member, window, linked, provider, ceiling, assigned>>
  BY DEF disableUser
<1>2. PolicyType' /\ OfUser(u)
  BY <1>1, StandingOfUser
<1> QED BY <1>1, <1>2, UserEnded

LEMMA eraseUserKeeps ==
  ASSUME Inv, NEW u \in Users, eraseUser(u)
  PROVE  Inv'
<1>1. /\ Command(u) /\ Set(u, "erased")
      /\ revokeGrantContexts(GrantsOf(u)) /\ EndSessions(u) /\ token' = Erased(TokensOf(GrantsOf(u)))
      /\ member' = member \ {u} /\ assigned' = [assigned EXCEPT ![u] = {}]
      /\ UNCHANGED protocolVars /\ UNCHANGED <<window, linked, provider, ceiling>>
  BY DEF eraseUser
<1>2. PolicyType' /\ OfUser(u)
  BY <1>1, StandingOfUser
<1> QED BY <1>1, <1>2, UserEnded

LEMMA revokeUserSessionsKeeps ==
  ASSUME Inv, NEW u \in Users, revokeUserSessions(u)
  PROVE  Inv'
<1>1. /\ Command(u) /\ revokeGrantContexts(GrantsOf(u)) /\ EndSessions(u) /\ RevokeTokens(GrantsOf(u))
      /\ UNCHANGED protocolVars /\ UNCHANGED policyVars
  BY DEF revokeUserSessions
<1>2. PolicyType' /\ OfUser(u)
  BY <1>1, Commanded DEF PolicyType, OfUser, policyVars
<1> QED BY <1>1, <1>2, UserEnded

\* A command that ends no grant.
LEMMA UserLeft ==
  ASSUME Inv, UNCHANGED <<protocolVars, session, grant, token>>, NEW u \in Users, Command(u),
         PolicyType', OfUser(u), member' = member, standing[u] = "active" => standing'[u] = "active"
  PROVE  Inv'
<1>1. Ending({}) /\ SessionsGrow /\ session' \in [Sessions -> SessionType]
  BY NothingEnds, SameSessions
<1>2. GrantsRestOnTheLiving'
  <2>1. ASSUME NEW g \in Grants, grant'[g].state = "live"
        PROVE  /\ \A p \in Parties \ Users : standing'[p] = "active"
               /\ standing'[GrantUser(g)] = "active" /\ GrantUser(g) \in member'
               /\ GrantKind(g) = "directory" =>
                    provider'["directory"].live /\ provider'["directory"].revision = grant[g].revision
    <3>1. /\ GrantUser(g) \in Users
          /\ \A p \in Parties \ Users : standing[p] = "active"
          /\ standing[GrantUser(g)] = "active" /\ GrantUser(g) \in member
          /\ GrantKind(g) = "directory" =>
               provider["directory"].live /\ provider["directory"].revision = grant[g].revision
      BY <1>1, <2>1, Survives
    <3> QED BY <3>1 DEF OfUser, Parties
  <2> QED BY <1>1, <2>1, LivingNext
<1> QED BY <1>1, <1>2, Commanded, UserKeeps

LEMMA enableUserKeeps ==
  ASSUME Inv, NEW u \in Users, enableUser(u)
  PROVE  Inv'
<1>1. /\ Command(u) /\ Set(u, "active")
      /\ UNCHANGED <<protocolVars, session, grant, token>>
      /\ UNCHANGED <<member, window, linked, provider, ceiling, assigned>>
  BY DEF enableUser
<1>2. PolicyType' /\ OfUser(u) /\ standing'[u] = "active"
  BY <1>1, StandingOfUser
<1> QED BY <1>1, <1>2, UserLeft

LEMMA retireUserEmailKeeps ==
  ASSUME Inv, NEW u \in Users, retireUserEmail(u)
  PROVE  Inv'
<1>1. /\ Command(u) /\ Set(u, "retired") /\ standing[u] # "active"
      /\ UNCHANGED <<protocolVars, session, grant, token>>
      /\ UNCHANGED <<member, window, linked, provider, ceiling, assigned>>
  BY DEF retireUserEmail
<1>2. PolicyType' /\ OfUser(u)
  BY <1>1, StandingOfUser
<1> QED BY <1>1, <1>2, UserLeft

\* A command on organisation, client or resource that ends every grant.
LEMMA TargetEnded ==
  ASSUME Inv, UNCHANGED <<protocolVars, session>>, PolicyType',
         NEW p \in {"organization", "client", "resource"}, Command(p), revokeGrantContexts(Grants),
         token' = token \/ RevokeTokens(Grants) \/ token' = Erased(Tokens)
  PROVE  Inv'
<1>1. Ending(Grants)
  <2>1. CASE token' = Erased(Tokens)
    <3>1. \A t \in Tokens : token[t].state # "none" => token[t].grant \in Grants
      BY DEF Inv, TokensHold, Seen
    <3>2. /\ token' \in [Tokens -> TokenType]
          /\ \A t \in Tokens :
               /\ token'[t].grant = token[t].grant /\ (token'[t].state = "none" <=> token[t].state = "none")
               /\ token'[t].state = "live" => token[t].state = "live"
      BY <2>1, erases
    <3> QED BY <3>1, <3>2, revokes DEF Ending
  <2> QED BY <2>1, tokensRevoked, tokensLeft
<1>2. GrantsRestOnTheLiving'
  <2>1. \A g \in Grants : grant'[g].state # "live"
    BY revokes
  <2> QED BY <2>1 DEF GrantsRestOnTheLiving
<1> QED BY <1>1, <1>2, Commanded, TargetKeeps

\* One that ends no grant leaves standing what grants rest on.
LEMMA TargetLeft ==
  ASSUME Inv, UNCHANGED <<protocolVars, session, grant, token>>, PolicyType',
         NEW p \in {"organization", "client", "resource"}, Command(p),
         \A x \in Parties : standing[x] = "active" => standing'[x] = "active",
         member \subseteq member', provider'["directory"] = provider["directory"]
  PROVE  Inv'
<1>1. Ending({}) /\ SessionsGrow
  BY NothingEnds, SameSessions
<1>2. GrantsRestOnTheLiving'
  <2>1. ASSUME NEW g \in Grants, grant'[g].state = "live"
        PROVE  /\ \A x \in Parties \ Users : standing'[x] = "active"
               /\ standing'[GrantUser(g)] = "active" /\ GrantUser(g) \in member'
               /\ GrantKind(g) = "directory" =>
                    provider'["directory"].live /\ provider'["directory"].revision = grant[g].revision
    <3>1. /\ GrantUser(g) \in Users
          /\ \A x \in Parties \ Users : standing[x] = "active"
          /\ standing[GrantUser(g)] = "active" /\ GrantUser(g) \in member
          /\ GrantKind(g) = "directory" =>
               provider["directory"].live /\ provider["directory"].revision = grant[g].revision
      BY <1>1, <2>1, Survives
    <3> QED BY <3>1 DEF Parties
  <2> QED BY <1>1, <2>1, LivingNext
<1> QED BY <1>1, <1>2, Commanded, TargetKeeps

LEMMA Standing ==
  ASSUME NEW p \in Parties, NEW to \in {"active", "disabled", "retired", "erased"}, Set(p, to),
         standing \in [Parties -> {"active", "disabled", "retired", "erased"}]
  PROVE  /\ standing' \in [Parties -> {"active", "disabled", "retired", "erased"}]
         /\ standing'[p] = to /\ \A x \in Parties \ {p} : standing'[x] = standing[x]
BY DEF Set

LEMMA removeKeeps ==
  ASSUME Inv, NEW u \in Users, remove(u)
  PROVE  Inv'
<1> PICK gs : gs = GrantsOf(u)
  OBVIOUS
<1>1. /\ Command("organization") /\ member' = member \ {u} /\ assigned' = [assigned EXCEPT ![u] = {}]
      /\ revokeGrantContexts(gs) /\ UNCHANGED protocolVars
      /\ UNCHANGED <<standing, window, linked, provider, ceiling, session, token>>
  BY DEF remove
<1>2. PolicyType'
  BY <1>1, Commanded DEF PolicyType
<1>3. Ending(gs) /\ SessionsGrow
  BY <1>1, tokensLeft, SameSessions
<1>4. \A g \in Grants : grant'[g].state = "live" => GrantUser(g) # u \/ grant[g].session = None
  BY <1>1, GrantsOfUser, revokes
<1>5. GrantsRestOnTheLiving'
  BY <1>1, <1>3, <1>4, Survives, LivingNext
<1> QED BY <1>1, <1>2, <1>3, <1>5, Commanded, TargetKeeps

LEMMA MembersLeft ==
  ASSUME Inv, NEW u \in Users, reinstate(u) \/ updateWindow(u) \/ assign(u)
  PROVE  Inv'
<1>1. /\ Command("organization") /\ UNCHANGED <<protocolVars, session, grant, token>>
      /\ UNCHANGED <<standing, linked, provider, ceiling>> /\ member \subseteq member'
  BY DEF reinstate, updateWindow, assign
<1>2. PolicyType'
  <2>1. /\ member' \subseteq Users /\ window' \subseteq Users
        /\ assigned' \in [Users -> SUBSET Scopes]
    <3>1. PolicyType
      BY <1>1, Commanded
    <3>2. CASE reinstate(u)
      BY <3>1, <3>2 DEF reinstate, PolicyType
    <3>3. CASE updateWindow(u)
      BY <3>1, <3>3 DEF updateWindow, PolicyType
    <3>4. CASE assign(u)
      BY <3>1, <3>4 DEF assign, PolicyType
    <3> QED BY <3>2, <3>3, <3>4
  <2> QED BY <1>1, <2>1, Commanded DEF PolicyType
<1> QED BY <1>1, <1>2, TargetLeft

LEMMA FirmKeeps ==
  ASSUME Inv, FirmCommand
  PROVE  Inv'
<1> PICK o \in {"organization", "client", "resource"} : o = "organization"
  OBVIOUS
<1>1. Command(o) /\ UNCHANGED <<protocolVars, session>> /\ UNCHANGED <<window, linked>>
  BY DEF FirmCommand, disableOrganization, enableOrganization, eraseOrganization, putSsoProvider,
         deleteSsoProvider, setMagicLink, updateCapability
<1>2. PolicyType /\ o \in Parties /\ standing \in [Parties -> {"active", "disabled", "retired", "erased"}]
  BY <1>1, Commanded
<1>3. CASE disableOrganization
  <2>1. /\ Set(o, "disabled") /\ revokeGrantContexts(Grants) /\ token' = token
        /\ UNCHANGED <<member, provider, ceiling, assigned>>
    BY <1>3 DEF disableOrganization
  <2>2. PolicyType'
    BY <1>1, <1>2, <2>1, Standing DEF PolicyType
  <2> QED BY <1>1, <2>1, <2>2, TargetEnded
<1>4. CASE enableOrganization
  <2>1. /\ Set(o, "active") /\ UNCHANGED <<member, provider, ceiling, assigned, grant, token>>
    BY <1>4 DEF enableOrganization
  <2>2. PolicyType' /\ \A x \in Parties : standing[x] = "active" => standing'[x] = "active"
    BY <1>1, <1>2, <2>1, Standing DEF PolicyType
  <2>3. UNCHANGED <<protocolVars, session, grant, token>>
    BY <1>1, <2>1
  <2> QED BY <1>1, <2>1, <2>2, <2>3, TargetLeft
<1>5. CASE eraseOrganization
  <2>1. /\ Set(o, "erased") /\ revokeGrantContexts(Grants) /\ token' = token
        /\ member' = {} /\ assigned' = [u \in Users |-> {}]
        /\ provider' = [k \in Kinds |-> [provider[k] EXCEPT !.live = FALSE]]
        /\ ceiling' = [ceiling EXCEPT !["capability"] = {}, !["renewal"] = {}]
    BY <1>5 DEF eraseOrganization
  <2>2. provider' \in [Kinds -> [live : BOOLEAN, revision : Nat]] /\ ceiling' \in [Ceilings -> SUBSET Scopes]
    BY <1>2, <2>1 DEF PolicyType
  <2>3. PolicyType'
    BY <1>1, <1>2, <2>1, <2>2, Standing DEF PolicyType
  <2> QED BY <1>1, <2>1, <2>3, TargetEnded
<1>6. CASE putSsoProvider \/ deleteSsoProvider
  <2>1. /\ revokeGrantContexts(DirectoryGrants) /\ token' = token
        /\ UNCHANGED <<standing, member, ceiling, assigned>>
    BY <1>6 DEF putSsoProvider, deleteSsoProvider
  <2>2. provider' \in [Kinds -> [live : BOOLEAN, revision : Nat]]
    <3>1. provider \in [Kinds -> [live : BOOLEAN, revision : Nat]] /\ "directory" \in Kinds
      BY <1>2 DEF PolicyType, Kinds
    <3>2. CASE putSsoProvider
      BY <3>1, <3>2 DEF putSsoProvider
    <3>3. CASE deleteSsoProvider
      BY <3>1, <3>3 DEF deleteSsoProvider
    <3> QED BY <1>6, <3>2, <3>3
  <2>3. PolicyType'
    BY <1>1, <1>2, <2>1, <2>2 DEF PolicyType
  <2> PICK gs : gs = DirectoryGrants
    OBVIOUS
  <2>4. Ending(gs) /\ SessionsGrow
    BY <1>1, <2>1, tokensLeft, SameSessions
  <2>5. \A g \in Grants : grant'[g].state = "live" => GrantKind(g) # "directory" \/ grant[g].session = None
    <3>1. \A g \in DirectoryGrants : g \in Grants
      BY DEF DirectoryGrants
    <3>2. \A g \in Grants : grant'[g].state = "live" => g \notin DirectoryGrants
      BY <2>1, revokes
    <3> QED BY <3>2 DEF DirectoryGrants
  <2>6. GrantsRestOnTheLiving'
    BY <2>1, <2>4, <2>5, Survives, LivingNext
  <2> QED BY <1>1, <2>3, <2>4, <2>6, Commanded, TargetKeeps
<1>7. CASE setMagicLink \/ updateCapability
  <2>1. UNCHANGED <<standing, member, assigned, grant, token>>
    BY <1>7 DEF setMagicLink, updateCapability
  <2>2. /\ provider' \in [Kinds -> [live : BOOLEAN, revision : Nat]] /\ ceiling' \in [Ceilings -> SUBSET Scopes]
        /\ provider'["directory"] = provider["directory"]
    <3>1. CASE setMagicLink
      BY <1>2, <3>1 DEF setMagicLink, PolicyType, Kinds
    <3>2. CASE updateCapability
      BY <1>2, <3>2 DEF updateCapability, PolicyType
    <3> QED BY <1>7, <3>1, <3>2
  <2>3. PolicyType'
    BY <1>1, <1>2, <2>1, <2>2 DEF PolicyType
  <2>4. UNCHANGED <<protocolVars, session, grant, token>>
    BY <1>1, <2>1
  <2> QED BY <1>1, <2>1, <2>2, <2>3, <2>4, TargetLeft
<1> QED BY <1>3, <1>4, <1>5, <1>6, <1>7 DEF FirmCommand

LEMMA TargetCommandKeeps ==
  ASSUME Inv, TargetCommand
  PROVE  Inv'
<1> PICK c, s \in {"organization", "client", "resource"} : c = "client" /\ s = "resource"
  OBVIOUS
<1>1. CASE \E disabled \in BOOLEAN : setClientDisabled(disabled) \/ setResourceDisabled(disabled)
  <2> PICK disabled \in BOOLEAN, p \in {c, s} :
        \/ p = c /\ setClientDisabled(disabled)
        \/ p = s /\ setResourceDisabled(disabled)
    BY <1>1
  <2> PICK to \in {"active", "disabled", "retired", "erased"} : to = IF disabled THEN "disabled" ELSE "active"
    OBVIOUS
  <2>1. /\ Command(p) /\ Set(p, to) /\ p \in {"organization", "client", "resource"}
        /\ UNCHANGED <<protocolVars, session>> /\ UNCHANGED <<member, window, linked, provider, ceiling, assigned>>
    BY DEF setClientDisabled, setResourceDisabled
  <2>2. PolicyType' /\ standing'[p] = to /\ \A x \in Parties \ {p} : standing'[x] = standing[x]
    BY <2>1, Commanded, Standing DEF PolicyType
  <2>3. CASE disabled
    <3>1. revokeGrantContexts(Grants) /\ (token' = token \/ RevokeTokens(Grants))
      BY <2>3 DEF setClientDisabled, setResourceDisabled
    <3> QED BY <2>1, <2>2, <3>1, TargetEnded
  <2>4. CASE ~disabled
    <3>1. UNCHANGED <<protocolVars, session, grant, token>>
      BY <2>1, <2>4 DEF setClientDisabled, setResourceDisabled
    <3>2. \A x \in Parties : standing[x] = "active" => standing'[x] = "active"
      BY <2>2, <2>4
    <3>3. UNCHANGED <<member, provider>>
      BY <2>1
    <3> QED BY <2>1, <2>2, <3>1, <3>2, <3>3, TargetLeft
  <2> QED BY <2>3, <2>4
<1>2. CASE rotateSecret
  <2>1. /\ Command(c) /\ UNCHANGED <<protocolVars, session>> /\ UNCHANGED policyVars
        /\ revokeGrantContexts(Grants) /\ RevokeTokens(Grants)
    BY <1>2 DEF rotateSecret
  <2>2. PolicyType'
    BY <2>1, Commanded DEF PolicyType, policyVars
  <2> QED BY <2>1, <2>2, TargetEnded
<1>3. CASE eraseClient \/ eraseResource
  <2> PICK p \in {c, s} : (p = c /\ eraseClient) \/ (p = s /\ eraseResource)
    BY <1>3
  <2>1. /\ Command(p) /\ Set(p, "erased") /\ p \in {"organization", "client", "resource"}
        /\ UNCHANGED <<protocolVars, session>> /\ UNCHANGED <<member, window, provider, ceiling, assigned>>
        /\ linked' \in {linked, FALSE} /\ revokeGrantContexts(Grants)
        /\ token' = token \/ token' = Erased(Tokens)
    BY DEF eraseClient, eraseResource
  <2>2. PolicyType'
    BY <2>1, Commanded, Standing DEF PolicyType
  <2> QED BY <2>1, <2>2, TargetEnded
<1>4. CASE updateClient \/ updateResource \/ linkResource \/ unlinkResource
  <2> PICK p \in {c, s} : (p = c /\ (updateClient \/ linkResource \/ unlinkResource)) \/ (p = s /\ updateResource)
    BY <1>4
  <2>1. /\ Command(p) /\ p \in {"organization", "client", "resource"}
        /\ UNCHANGED <<protocolVars, session, grant, token>>
        /\ UNCHANGED <<standing, member, window, provider, assigned>>
    BY DEF updateClient, updateResource, linkResource, unlinkResource
  <2>2. linked' \in BOOLEAN /\ ceiling' \in [Ceilings -> SUBSET Scopes]
    <3>1. PolicyType
      BY <2>1, Commanded
    <3>2. CASE updateClient \/ updateResource
      BY <3>1, <3>2 DEF updateClient, updateResource, PolicyType
    <3>3. CASE linkResource \/ unlinkResource
      BY <3>1, <3>3 DEF linkResource, unlinkResource, PolicyType
    <3> QED BY <1>4, <3>2, <3>3
  <2>3. PolicyType'
    BY <2>1, <2>2, Commanded DEF PolicyType
  <2> QED BY <2>1, <2>3, TargetLeft
<1> QED BY <1>1, <1>2, <1>3, <1>4 DEF TargetCommand

(***************************************************************************)
(* The invariant                                                           *)
(***************************************************************************)
LEMMA SessionMoves ==
  ASSUME Inv, NEW s \in Sessions, SignIn(s) \/ EndSession(s)
  PROVE  Inv'
<1>0. PolicyType /\ RowsType /\ RestType
  BY TypeParts DEF Inv
<1>1. UNCHANGED policyVars /\ UNCHANGED protocolVars /\ UNCHANGED <<grant, token>> /\ moves' \in Nat
  BY <1>0 DEF SignIn, EndSession, Command, RestType
<1>2. SessionsGrow /\ session' \in [Sessions -> SessionType]
  <2>1. CASE SignIn(s)
    <3>1. session[s].kind \in Kinds /\ provider[session[s].kind].revision \in Nat
      BY <1>0 DEF RowsType, SessionType, PolicyType
    <3> QED BY <1>0, <2>1, <3>1 DEF SignIn, SessionsGrow, RowsType, SessionType
  <2>2. CASE EndSession(s)
    BY <1>0, <2>2 DEF EndSession, SessionsGrow, RowsType, SessionType
  <2> QED BY <2>1, <2>2
<1>3. Ending({}) /\ PolicyType'
  BY <1>0, <1>1, NothingEnds DEF PolicyType, policyVars
<1>4. GrantsRestOnTheLiving'
  <2>1. UNCHANGED <<standing, member, provider>>
    BY <1>1 DEF policyVars
  <2> QED BY <1>2, <1>3, <2>1, Survives, LivingNext
<1> QED BY <1>1, <1>2, <1>3, <1>4, PolicyKept, MoveKeeps

LEMMA ExpireKeeps ==
  ASSUME Inv, NEW g \in Grants, Expire(g)
  PROVE  Inv'
<1>0. PolicyType /\ RowsType /\ RestType
  BY TypeParts DEF Inv
<1>1. /\ UNCHANGED policyVars /\ UNCHANGED protocolVars /\ UNCHANGED <<session, token>>
      /\ moves' \in Nat /\ grant' = [grant EXCEPT ![g].expired = TRUE]
  BY <1>0 DEF Expire, RestType
<1>2. Ending({})
  BY <1>0, <1>1 DEF Ending, RowsType, GrantType
<1>3. SessionsGrow /\ session' \in [Sessions -> SessionType] /\ PolicyType'
  BY <1>0, <1>1, SameSessions DEF PolicyType, policyVars
<1>4. GrantsRestOnTheLiving'
  BY <1>1, <1>2, LivingKeep
<1> QED BY <1>1, <1>2, <1>3, <1>4, PolicyKept, MoveKeeps

LEMMA InitHolds == Init => Inv
<1> SUFFICES ASSUME Init PROVE Inv
  OBVIOUS
<1>1. TypeOK
  BY IdleType, SMTT(30) DEF Init, TypeOK, RequestType, Ceilings, Kinds, OAuthAssumption
<1>2. /\ \A r \in Requests : request[r] = Idle
      /\ \A g \in Grants : grant[g].state = "none" /\ grant[g].code = None /\ ~Seen(g)
      /\ \A c \in Codes : code[c].state = "none" /\ presented[c] = 0
      /\ \A t \in Tokens : token[t].state = "none" /\ presented[t] = 0
      /\ \A f \in Flows : flow[f].status = "none" /\ flow[f].grant = None
  BY DEF Init, Seen
<1>3. RequestsHold
  <2>1. \A r \in Requests : request[r].at = "idle" /\ request[r].kind = "none"
    BY <1>2, IdleType
  <2>2. \A r \in Requests : ~Opened(r) /\ ~Makes(r) /\ ~Holds(r) /\ ~Rests(r)
    BY <2>1 DEF Opened, Makes, Holds, Rests, Resumes, TokenKinds
  <2>3. \A r \in Requests : RequestHolds(r)
    BY <2>1 DEF RequestHolds, Resumes, TokenKinds
  <2> QED BY <2>2, <2>3 DEF RequestsHold, OneOpens, OneHolds, AllHold, OpenedHolds, MakerHolds, HolderHolds,
                            DecisionHolds
<1>4. FlowsHold /\ CodesHold /\ TokensHold
  BY <1>2 DEF FlowsHold, CodesHold, TokensHold
<1>5. GrantsRestOnTheLiving /\ ReplaysEndTheGrant
  BY <1>2 DEF GrantsRestOnTheLiving, ReplaysEndTheGrant
<1> QED BY <1>1, <1>3, <1>4, <1>5 DEF Inv

LEMMA NextKeeps ==
  ASSUME Inv, Next
  PROVE  Inv'
<1>1. CASE \E f \in Flows : start(f)
  BY <1>1, startKeeps
<1>2. CASE \E r \in Requests : Resume(r)
  BY <1>2, resumeKeeps, OpenFlowKeeps, lockKeeps, createResourceGrantKeeps, DecideFlowKeeps, KeepFlowKeeps,
     IssueCodeKeeps DEF Resume
<1>3. CASE \E r \in Requests : TokenRequest(r)
  BY <1>3, ReadCodeKeeps, ReadTokenKeeps, DecideTokenKeeps, ExchangeCodeKeeps, RotateTokenKeeps,
     withNativeCodeReplayKeeps, ReplayUnreferencedKeeps, withNativeRefreshFamilyKeeps, revokeUserTokenKeeps
  DEF TokenRequest
<1>4. CASE \E r \in Requests : Refuse(r)
  BY <1>4, RefuseKeeps
<1>5. CASE \E u \in Users : UserCommand(u)
  BY <1>5, disableUserKeeps, enableUserKeeps, eraseUserKeeps, revokeUserSessionsKeeps, retireUserEmailKeeps,
     removeKeeps, MembersLeft DEF UserCommand
<1>6. CASE \E s \in Sessions : SignIn(s) \/ EndSession(s)
  BY <1>6, SessionMoves
<1>7. CASE \E g \in Grants : Expire(g)
  BY <1>7, ExpireKeeps
<1> QED BY <1>1, <1>2, <1>3, <1>4, <1>5, <1>6, <1>7, FirmKeeps, TargetCommandKeeps DEF Next

LEMMA StepKeeps == Inv /\ [Next]_vars => Inv'
<1> SUFFICES ASSUME Inv, [Next]_vars PROVE Inv'
  OBVIOUS
<1>1. CASE Next
  BY <1>1, NextKeeps
<1>2. CASE UNCHANGED vars
  <2>1. /\ UNCHANGED <<policyVars, session, flow, grant, code, token, presented>>
        /\ UNCHANGED <<request, requests, moves>>
    BY <1>2 DEF vars
  <2>2. TypeOK' /\ \A q \in Requests : Frame(q)
    <3>1. PolicyType' /\ RowsType' /\ RestType'
      BY <2>1, TypeParts DEF Inv, PolicyType, RowsType, RestType, policyVars
    <3>2. \A q \in Requests : Makes(q) => grant[request[q].grant].state = "inserted"
      BY RequestFacts DEF AllHold, MakerHolds
    <3> QED BY <2>1, <3>1, <3>2, TypePartsNext, PolicyKept DEF Frame
  <2>3. Grows
    BY <2>1, GrowsOfSame DEF Seen
  <2>4. \A q \in Requests : AllHold(q)'
    BY <2>2, <2>3, FrameKeeps
  <2>5. OneOpens' /\ OneHolds'
    BY <2>1 DEF Inv, RequestsHold, OneOpens, OneHolds, Opened, Holds
  <2> QED BY <2>1, <2>2, <2>4, <2>5, RowsKept DEF Inv, RequestsHold
<1> QED BY <1>1, <1>2

\* Invariant: what requests have decided stands until they end, and each grant's flow, code and
\* tokens are one line.
THEOREM Invariant == Spec => []Inv
BY InitHolds, StepKeeps, PTL DEF Spec

\* Every variable keeps its type.
THEOREM TypeCorrect == Spec => []TypeOK
<1>1. Inv => TypeOK
  BY DEF Inv
<1> QED BY <1>1, Invariant, PTL

\* Grants that are not revoked rest on what still stands: an active user, member, organisation,
\* client and resource, and for a sign-in by directory its live provider at the grant's revision.
THEOREM LivingFoundations == Spec => []GrantsRestOnTheLiving
<1>1. Inv => GrantsRestOnTheLiving
  BY DEF Inv
<1> QED BY <1>1, Invariant, PTL

\* A flow leaves one line of credentials.
THEOREM OneLine == Spec => []OneLineOfTokens
<1>1. Inv => OneLineOfTokens
  <2> SUFFICES ASSUME Inv PROVE OneLineOfTokens
    OBVIOUS
  <2>1. OneGrantPerFlow
    BY DEF OneGrantPerFlow, Inv, FlowsHold, CodesHold, Seen
  <2>2. OneTokenInUse
    BY DEF OneTokenInUse, Usable, Inv, TokensHold
  <2> QED BY <2>1, <2>2 DEF OneLineOfTokens, Inv
<1> QED BY <1>1, Invariant, PTL

(***************************************************************************)
(* What steps do to grants and tokens: most only revoke                    *)
(***************************************************************************)
Revokes == \E gs : Ending(gs) /\ \A g \in Grants : g \in gs => grant'[g].state # "live"

LEMMA RevokesNothing ==
  ASSUME Inv, UNCHANGED <<grant, token>>
  PROVE  Revokes
BY NothingEnds DEF Revokes

LEMMA RevokesAll ==
  ASSUME Inv, NEW gs, revokeGrantContexts(gs), token' = token \/ RevokeTokens(gs)
  PROVE  Revokes
BY revokes, tokensRevoked, tokensLeft DEF Revokes

LEMMA RevokesErasing ==
  ASSUME Inv, NEW gs, revokeGrantContexts(gs), NEW ts, \A t \in ts : token[t].grant \in gs,
         token' \in {token, Erased(ts)}
  PROVE  Revokes
BY revokes, revokesAndErases DEF Revokes

LEMMA UserRevokes ==
  ASSUME Inv, NEW u \in Users, UserCommand(u)
  PROVE  code' = code /\ Revokes
<1>1. code' = code
  BY DEF UserCommand, disableUser, enableUser, eraseUser, revokeUserSessions, retireUserEmail, remove,
         reinstate, updateWindow, assign, protocolVars
<1>2. CASE enableUser(u) \/ retireUserEmail(u) \/ reinstate(u) \/ updateWindow(u) \/ assign(u)
  <2>1. UNCHANGED <<grant, token>>
    BY <1>2 DEF enableUser, retireUserEmail, reinstate, updateWindow, assign
  <2> QED BY <1>1, <2>1, RevokesNothing
<1>3. CASE disableUser(u) \/ revokeUserSessions(u) \/ remove(u)
  <2>1. revokeGrantContexts(GrantsOf(u)) /\ (token' = token \/ RevokeTokens(GrantsOf(u)))
    BY <1>3 DEF disableUser, revokeUserSessions, remove
  <2> PICK gs : gs = GrantsOf(u)
    OBVIOUS
  <2> QED BY <1>1, <2>1, RevokesAll
<1>4. CASE eraseUser(u)
  <2> PICK gs : gs = GrantsOf(u)
    OBVIOUS
  <2> PICK ts : ts = TokensOf(gs)
    OBVIOUS
  <2>1. revokeGrantContexts(gs) /\ token' = Erased(ts) /\ \A t \in ts : token[t].grant \in gs
    BY <1>4 DEF eraseUser, TokensOf
  <2> QED BY <1>1, <2>1, RevokesErasing
<1> QED BY <1>1, <1>2, <1>3, <1>4 DEF UserCommand

LEMMA FirmRevokes ==
  ASSUME Inv, FirmCommand
  PROVE  code' = code /\ Revokes
<1>1. code' = code
  BY DEF FirmCommand, disableOrganization, enableOrganization, eraseOrganization, putSsoProvider,
         deleteSsoProvider, setMagicLink, updateCapability, protocolVars
<1>2. CASE enableOrganization \/ setMagicLink \/ updateCapability
  <2>1. UNCHANGED <<grant, token>>
    BY <1>2 DEF enableOrganization, setMagicLink, updateCapability
  <2> QED BY <1>1, <2>1, RevokesNothing
<1>3. CASE disableOrganization \/ eraseOrganization \/ putSsoProvider \/ deleteSsoProvider
  <2> PICK gs : (gs = Grants \/ gs = DirectoryGrants) /\ revokeGrantContexts(gs) /\ token' = token
    BY <1>3 DEF disableOrganization, eraseOrganization, putSsoProvider, deleteSsoProvider
  <2> QED BY <1>1, RevokesAll
<1> QED BY <1>1, <1>2, <1>3 DEF FirmCommand

LEMMA TargetRevokes ==
  ASSUME Inv, TargetCommand
  PROVE  code' = code /\ Revokes
<1>1. code' = code
  BY DEF TargetCommand, setClientDisabled, setResourceDisabled, rotateSecret, updateClient, linkResource,
         unlinkResource, eraseClient, updateResource, eraseResource, protocolVars
<1>2. CASE UNCHANGED <<grant, token>>
  BY <1>1, <1>2, RevokesNothing
<1>3. CASE revokeGrantContexts(Grants) /\ (token' = token \/ RevokeTokens(Grants))
  BY <1>1, <1>3, RevokesAll
<1>4. CASE revokeGrantContexts(Grants) /\ token' = Erased(Tokens)
  <2>1. Ending(Grants)
    <3>1. \A t \in Tokens : token[t].state # "none" => token[t].grant \in Grants
      BY DEF Inv, TokensHold, Seen
    <3>2. /\ token' \in [Tokens -> TokenType]
          /\ \A t \in Tokens :
               /\ token'[t].grant = token[t].grant /\ (token'[t].state = "none" <=> token[t].state = "none")
               /\ token'[t].state = "live" => token[t].state = "live"
      BY <1>4, erases
    <3> QED BY <1>4, <3>1, <3>2, revokes DEF Ending
  <2> QED BY <1>1, <1>4, <2>1, revokes DEF Revokes
<1>5. \/ UNCHANGED <<grant, token>>
      \/ revokeGrantContexts(Grants) /\ (token' = token \/ RevokeTokens(Grants))
      \/ revokeGrantContexts(Grants) /\ token' = Erased(Tokens)
  BY DEF TargetCommand, setClientDisabled, setResourceDisabled, rotateSecret, updateClient, linkResource,
         unlinkResource, eraseClient, updateResource, eraseResource
<1> QED BY <1>1, <1>2, <1>3, <1>4, <1>5

LEMMA RequestRevokes ==
  ASSUME Inv, NEW r \in Requests,
         \/ withNativeCodeReplay(r) \/ ReplayUnreferenced(r) \/ withNativeRefreshFamily(r)
         \/ revokeUserToken(r)
  PROVE  code' = code /\ Revokes
<1>1. code' = code
  BY DEF withNativeCodeReplay, ReplayUnreferenced, withNativeRefreshFamily, revokeUserToken
<1>2. CASE withNativeCodeReplay(r)
  <2> PICK gs : gs = {g \in Grants : grant[g].code = request[r].code}
    OBVIOUS
  <2> PICK ts : ts = TokensOf({request[r].grant})
    OBVIOUS
  <2>1. /\ Holds(r) /\ request[r].kind = "exchange" /\ request[r].found = "consumed"
        /\ revokeGrantContexts(gs) /\ token' \in {token, Erased(ts)}
    BY <1>2 DEF withNativeCodeReplay, Decided, Holds, TokenKinds, Cleanup
  <2>2. code[request[r].code].state = "consumed"
    BY <2>1, RequestFacts DEF AllHold, HolderHolds
  <2>3. request[r].grant \in gs
    BY <2>1, <2>2, ReplayedCode DEF Holds
  <2>4. \A t \in ts : token[t].grant \in gs
    BY <2>3 DEF TokensOf
  <2> QED BY <1>1, <2>1, <2>4, RevokesErasing
<1>3. CASE ReplayUnreferenced(r)
  <2> PICK gs : gs = {g \in Grants : grant[g].code = request[r].code}
    OBVIOUS
  <2> PICK ts : ts = TokensOf(gs)
    OBVIOUS
  <2>1. revokeGrantContexts(gs) /\ token' \in {token, Erased(ts)} /\ \A t \in ts : token[t].grant \in gs
    BY <1>3 DEF ReplayUnreferenced, Cleanup, TokensOf
  <2> QED BY <1>1, <2>1, RevokesErasing
<1>4. CASE withNativeRefreshFamily(r)
  <2> PICK gs : gs = {request[r].grant}
    OBVIOUS
  <2> PICK ts : ts = TokensOf(gs)
    OBVIOUS
  <2>1. revokeGrantContexts(gs) /\ token' \in {token, Erased(ts)} /\ \A t \in ts : token[t].grant \in gs
    BY <1>4 DEF withNativeRefreshFamily, Cleanup, TokensOf
  <2> QED BY <1>1, <2>1, RevokesErasing
<1>5. CASE revokeUserToken(r)
  <2> PICK gs, ts : gs = {request[r].grant} /\ ts = {request[r].token}
    OBVIOUS
  <2>1. revokeGrantContexts(gs) /\ token' = Erased(ts) /\ request[r].kind = "revoke"
    BY <1>5 DEF revokeUserToken, Decided
  <2>2. \A t \in ts : token[t].grant \in gs
    BY <2>1, RequestFacts DEF AllHold, RequestHolds
  <2> QED BY <1>1, <2>1, <2>2, RevokesErasing
<1> QED BY <1>1, <1>2, <1>3, <1>4, <1>5

\* All but the steps that make a grant, take it back, or issue.
LEMMA MostOnlyRevoke ==
  ASSUME Inv, Next
  PROVE  \/ code' = code /\ Revokes
         \/ \E r \in Requests :
              \/ (\E g \in Grants : createResourceGrant(r, g)) \/ Refuse(r) \/ KeepFlow(r)
              \/ (\E c \in Codes : IssueCode(r, c))
              \/ (\E t \in Tokens : ExchangeCode(r, t) \/ RotateToken(r, t))
<1>1. CASE \E f \in Flows : start(f)
  <2>1. UNCHANGED <<code, grant, token>>
    BY <1>1 DEF start
  <2> QED BY <2>1, RevokesNothing
<1>2. CASE \E r \in Requests : \/ (\E f \in Flows, s \in Sessions, kind \in Resumes : resume(r, f, s, kind))
                               \/ OpenFlow(r) \/ lockResourceGrantPolicy(r) \/ DecideFlow(r)
                               \/ (\E c \in Codes : ReadCode(r, c))
                               \/ (\E t \in Tokens, kind \in {"refresh", "revoke"} : ReadToken(r, t, kind))
                               \/ DecideToken(r)
  <2>1. UNCHANGED <<code, grant, token>>
    BY <1>2 DEF resume, OpenFlow, lockResourceGrantPolicy, DecideFlow, ReadCode, ReadToken, DecideToken
  <2> QED BY <2>1, RevokesNothing
<1>3. CASE \E s \in Sessions : SignIn(s) \/ EndSession(s)
  <2>1. UNCHANGED <<code, grant, token>>
    BY <1>3 DEF SignIn, EndSession, protocolVars
  <2> QED BY <2>1, RevokesNothing
<1>4. CASE \E g \in Grants : Expire(g)
  <2>1. code' = code
    BY <1>4 DEF Expire, protocolVars
  <2> PICK g \in Grants : Expire(g)
    BY <1>4
  <2>2. Ending({})
    <3>1. RowsType
      BY TypeParts DEF Inv
    <3> QED BY <3>1 DEF Expire, Ending, RowsType, GrantType
  <2> QED BY <2>1, <2>2 DEF Revokes
<1>5. CASE \E u \in Users : UserCommand(u)
  BY <1>5, UserRevokes
<1>6. CASE \E r \in Requests : \/ withNativeCodeReplay(r) \/ ReplayUnreferenced(r)
                               \/ withNativeRefreshFamily(r) \/ revokeUserToken(r)
  BY <1>6, RequestRevokes
<1> QED BY <1>1, <1>2, <1>3, <1>4, <1>5, <1>6, FirmRevokes, TargetRevokes DEF Next, Resume, TokenRequest

(***************************************************************************)
(* What is issued                                                          *)
(***************************************************************************)
Permits ==
  /\ \A c \in Codes : code[c].state = "none" /\ code'[c].state = "issued" =>
       Issuable(code'[c].grant, code'[c].scopes, "authorize")
  /\ \A t \in Tokens : token[t].state = "none" /\ token'[t].state = "live" =>
       Issuable(token'[t].grant, token'[t].scopes, IF code' = code THEN "refresh" ELSE "exchange")

LEMMA Decision ==
  ASSUME Inv, NEW r \in Requests, request[r].at = "decided", Rests(r),
         NEW g, g = request[r].grant, NEW scopes, scopes = request[r].scopes, grant'[g].state = "live",
         NEW kind, kind = Use(r)
  PROVE  Issuable(g, scopes, kind)
<1>1. DecisionHolds(r)
  BY RequestFacts DEF AllHold
<1>2. /\ request[r].user = GrantUser(g) /\ Proved(request[r].user, GrantKind(g), grant[g].revision)
      /\ scopes # {} /\ scopes \subseteq Permitted(request[r].user, kind)
  BY <1>1 DEF DecisionHolds
<1> QED BY <1>2 DEF Issuable

LEMMA IssueCodePermits ==
  ASSUME Inv, NEW r \in Requests, NEW c \in Codes, IssueCode(r, c)
  PROVE  Permits
<1> PICK g, scopes : g = request[r].grant /\ scopes = request[r].scopes
  OBVIOUS
<1>1. /\ request[r].at = "decided" /\ request[r].kind \in {"continue", "accept"} /\ token' = token
      /\ code' = [code EXCEPT ![c] = [state |-> "issued", grant |-> g, scopes |-> scopes]]
      /\ grant' = Visible(g)
  BY DEF IssueCode
<1>2. Rests(r) /\ Use(r) = "authorize"
  BY <1>1 DEF Rests, Use
<1>3. g \in Grants
  BY <1>2, RequestFacts DEF AllHold, DecisionHolds
<1>4. grant'[g].state = "live"
  BY <1>1, <1>3, TypeParts DEF Inv, RowsType, GrantType, Visible
<1>5. Issuable(g, scopes, "authorize")
  BY <1>1, <1>2, <1>4, Decision
<1>6. code'[c].grant = g /\ code'[c].scopes = scopes /\ \A d \in Codes \ {c} : code'[d] = code[d]
  BY <1>1, TypeParts DEF Inv, RowsType
<1>7. Issuable(code'[c].grant, code'[c].scopes, "authorize")
  BY <1>5, <1>6
<1> QED BY <1>1, <1>6, <1>7 DEF Permits

LEMMA ExchangeCodePermits ==
  ASSUME Inv, NEW r \in Requests, NEW t \in Tokens, ExchangeCode(r, t)
  PROVE  Permits
<1> PICK g, c, scopes : g = request[r].grant /\ c = request[r].code /\ scopes = request[r].scopes
  OBVIOUS
<1>0. RowsType /\ RequestHolds(r) /\ HolderHolds(r) /\ DecisionHolds(r)
  BY RequestFacts DEF AllHold
<1>1. /\ request[r].at = "decided" /\ request[r].kind = "exchange" /\ request[r].found = "issued"
      /\ token' = [token EXCEPT ![t] = [state |-> "live", grant |-> g, scopes |-> scopes]]
      /\ code' = [code EXCEPT ![c].state = "consumed"] /\ grant' = [grant EXCEPT ![g].code = c]
  BY DEF ExchangeCode, Decided, NewToken
<1>2. Rests(r) /\ Holds(r) /\ Use(r) = "exchange"
  BY <1>1 DEF Rests, Holds, TokenKinds, Use
<1>3. c \in Codes /\ code[c].state = "issued" /\ g \in Grants /\ grant[g].state = "live"
  BY <1>0, <1>1, <1>2 DEF RequestHolds, HolderHolds, DecisionHolds
<1>4. code'[c].state = "consumed" /\ code' # code /\ \A d \in Codes \ {c} : code'[d] = code[d]
  BY <1>0, <1>1, <1>3 DEF RowsType, CodeType
<1>5. grant'[g].state = "live"
  BY <1>0, <1>1, <1>3 DEF RowsType, GrantType
<1>6. Issuable(g, scopes, "exchange")
  BY <1>1, <1>2, <1>5, Decision
<1>7. token'[t].grant = g /\ token'[t].scopes = scopes /\ \A o \in Tokens \ {t} : token'[o] = token[o]
  BY <1>0, <1>1 DEF RowsType
<1>8. \A d \in Codes : code[d].state = "none" => code'[d].state # "issued"
  BY <1>3, <1>4
<1>9. Issuable(token'[t].grant, token'[t].scopes, IF code' = code THEN "refresh" ELSE "exchange")
  BY <1>4, <1>6, <1>7
<1> QED BY <1>7, <1>8, <1>9 DEF Permits

LEMMA RotateTokenPermits ==
  ASSUME Inv, NEW r \in Requests, NEW t \in Tokens, RotateToken(r, t)
  PROVE  Permits
<1> PICK g, x, scopes : g = request[r].grant /\ x = request[r].token /\ scopes = request[r].scopes
  OBVIOUS
<1>0. RowsType /\ RequestHolds(r) /\ HolderHolds(r) /\ DecisionHolds(r)
  BY RequestFacts DEF AllHold
<1>1. /\ request[r].at = "decided" /\ request[r].kind = "refresh" /\ request[r].found = "live"
      /\ token' = [[token EXCEPT ![x].state = "rotated"] EXCEPT ![t] =
                     [state |-> "live", grant |-> g, scopes |-> scopes]]
      /\ code' = code /\ grant' = grant
  BY DEF RotateToken, Decided, NewToken
<1>2. Rests(r) /\ Holds(r) /\ Use(r) = "refresh"
  BY <1>1 DEF Rests, Holds, TokenKinds, Use
<1>3. x \in Tokens /\ g \in Grants /\ grant'[g].state = "live"
  BY <1>0, <1>1, <1>2 DEF RequestHolds, DecisionHolds
<1>4. Issuable(g, scopes, "refresh")
  BY <1>1, <1>2, <1>3, Decision
<1>5. /\ token'[t].grant = g /\ token'[t].scopes = scopes
      /\ \A o \in Tokens \ {t} : token'[o].state = "live" => token'[o] = token[o]
  BY <1>0, <1>1, <1>3 DEF RowsType, TokenType
<1>6. Issuable(token'[t].grant, token'[t].scopes, IF code' = code THEN "refresh" ELSE "exchange")
  BY <1>1, <1>4, <1>5
<1> QED BY <1>1, <1>5, <1>6 DEF Permits

LEMMA StepPermits == Inv /\ [Next]_vars => Permits
<1> SUFFICES ASSUME Inv, [Next]_vars PROVE Permits
  OBVIOUS
<1>1. ASSUME code' = code, \A t \in Tokens : token[t].state = "none" => token'[t].state # "live"
      PROVE  Permits
  BY <1>1 DEF Permits
<1>2. CASE UNCHANGED vars
  BY <1>1, <1>2 DEF vars
<1>3. CASE code' = code /\ Revokes
  BY <1>1, <1>3 DEF Revokes, Ending
<1>4. CASE \E r \in Requests : (\E g \in Grants : createResourceGrant(r, g)) \/ Refuse(r) \/ KeepFlow(r)
  <2>1. UNCHANGED <<code, token>>
    BY <1>4 DEF createResourceGrant, Refuse, KeepFlow
  <2> QED BY <1>1, <2>1
<1> QED BY <1>2, <1>3, <1>4, MostOnlyRevoke, IssueCodePermits, ExchangeCodePermits, RotateTokenPermits

\* What is issued is permitted at the very step that issues it.
THEOREM Permitting == Spec => IssuesThePermitted
<1>1. Inv /\ [Next]_vars => [Permits]_vars
  BY StepPermits
<1> QED BY <1>1, Invariant, PTL DEF Spec, IssuesThePermitted, Permits

(***************************************************************************)
(* Delegation                                                              *)
(***************************************************************************)
Stages == [g \in Grants |-> Stage(g)]
Used(g) == \E t \in Tokens : token[t].state = "live" /\ token[t].grant = g

\* Tokens in use are of grants that others see, so that a stage is a grant's own.
LEMMA StageIs ==
  ASSUME NEW g \in Grants
  PROVE  Stage(g) = CASE grant[g].state \in {"none", "inserted"} -> "none"
                      [] grant[g].state = "revoked" -> "over"
                      [] OTHER -> IF grant[g].state = "live" /\ Used(g) THEN "used" ELSE "made"
<1>1. grant[g].state \notin {"none", "inserted", "revoked"} =>
        ((\E t \in Tokens : Usable(t) /\ token[t].grant = g) <=> grant[g].state = "live" /\ Used(g))
  BY DEF Usable, Used
<1> QED BY <1>1 DEF Stage

LEMMA StageKept ==
  ASSUME NEW g \in Grants,
         \/ grant[g].state \in {"none", "inserted"} /\ grant'[g].state \in {"none", "inserted"}
         \/ grant'[g].state = grant[g].state /\ (grant[g].state = "live" => Used(g)' = Used(g))
  PROVE  Stages'[g] = Stages[g]
<1>1. Stages[g] = Stage(g) /\ Stages'[g] = Stage(g)'
  BY DEF Stages
<1>2. /\ Stage(g) = CASE grant[g].state \in {"none", "inserted"} -> "none"
                      [] grant[g].state = "revoked" -> "over"
                      [] OTHER -> IF grant[g].state = "live" /\ Used(g) THEN "used" ELSE "made"
      /\ Stage(g)' = CASE grant'[g].state \in {"none", "inserted"} -> "none"
                       [] grant'[g].state = "revoked" -> "over"
                       [] OTHER -> IF grant'[g].state = "live" /\ Used(g)' THEN "used" ELSE "made"
  <2>1. grant'[g].state \notin {"none", "inserted", "revoked"} =>
          ((\E t \in Tokens : Usable(t)' /\ token'[t].grant = g) <=> grant'[g].state = "live" /\ Used(g)')
    BY DEF Usable, Used
  <2>2. Stage(g)' = CASE grant'[g].state \in {"none", "inserted"} -> "none"
                       [] grant'[g].state = "revoked" -> "over"
                       [] OTHER -> IF grant'[g].state = "live" /\ Used(g)' THEN "used" ELSE "made"
    BY <2>1 DEF Stage
  <2> QED BY <2>2, StageIs
<1> QED BY <1>1, <1>2

LEMMA AllKept ==
  ASSUME \A g \in Grants : Stages'[g] = Stages[g]
  PROVE  Stages' = Stages
BY DEF Stages

LEMMA OneMoves ==
  ASSUME NEW g \in Grants, \A h \in Grants \ {g} : Stages'[h] = Stages[h],
         \/ Stages[g] = "none" /\ Stages'[g] = "made"
         \/ Stages[g] = "made" /\ Stages'[g] = "used"
  PROVE  delegation!Next
<1>1. Stages' = [Stages EXCEPT ![g] = Stages'[g]]
  BY DEF Stages
<1>2. delegation!Make(g) \/ delegation!Use(g)
  BY <1>1 DEF Stages, delegation!Make, delegation!Use
<1> QED BY <1>2 DEF delegation!Next

LEMMA ManyEnd ==
  ASSUME NEW gs \in SUBSET Grants, \A g \in gs : Stages[g] \in {"made", "used"} /\ Stages'[g] = "over",
         \A g \in Grants \ gs : Stages'[g] = Stages[g]
  PROVE  delegation!Next
<1>1. Stages' = [g \in Grants |-> IF g \in gs THEN "over" ELSE Stages[g]]
  BY DEF Stages
<1>2. delegation!End(gs)
  BY <1>1 DEF Stages, delegation!End
<1> QED BY <1>2 DEF delegation!Next

LEMMA StageOf ==
  ASSUME NEW g \in Grants
  PROVE  /\ grant[g].state = "live" => Stages[g] = IF Used(g) THEN "used" ELSE "made"
         /\ grant[g].state \in {"none", "inserted"} => Stages[g] = "none"
BY StageIs DEF Stages

LEMMA StageOfNext ==
  ASSUME NEW g \in Grants
  PROVE  /\ grant'[g].state = "live" => Stages'[g] = IF Used(g)' THEN "used" ELSE "made"
         /\ grant'[g].state = "revoked" => Stages'[g] = "over"
<1>1. grant'[g].state = "live" =>
        ((\E t \in Tokens : Usable(t)' /\ token'[t].grant = g) <=> Used(g)')
  BY DEF Usable, Used
<1> QED BY <1>1 DEF Stages, Stage

\* A revocation takes grants to their end, and the tokens of no other.
LEMMA RevokesEnds ==
  ASSUME Inv, Revokes
  PROVE  delegation!Next
<1> PICK gs : Ending(gs) /\ \A g \in Grants : g \in gs => grant'[g].state # "live"
  BY DEF Revokes
<1> DEFINE ended == {g \in Grants : grant[g].state = "live" /\ grant'[g].state # "live"}
<1>1. \A g \in ended : Stages[g] \in {"made", "used"} /\ Stages'[g] = "over"
  <2>1. \A g \in ended : grant[g].state = "live" /\ grant'[g].state = "revoked"
    BY DEF Ending
  <2> QED BY <2>1, StageOf, StageOfNext
<1>2. ASSUME NEW g \in Grants \ ended PROVE Stages'[g] = Stages[g]
  <2>1. grant'[g].state = grant[g].state
    BY DEF Ending
  <2>2. grant[g].state = "live" => g \notin gs
    BY <1>2
  <2>3. grant[g].state = "live" => Used(g)' = Used(g)
    BY <2>2 DEF Ending, Used
  <2> QED BY <2>1, <2>3, StageKept
<1> QED BY <1>1, <1>2, ManyEnd

\* A grant that nobody saw has no token.
LEMMA UnusedUnlessSeen ==
  ASSUME Inv, NEW g \in Grants, ~Seen(g) \/ grant[g].code = None
  PROVE  ~Used(g)
BY DEF Inv, TokensHold, Used

LEMMA FlowDelegates ==
  ASSUME Inv, NEW r \in Requests,
         \/ (\E g \in Grants : createResourceGrant(r, g)) \/ Refuse(r) \/ KeepFlow(r)
         \/ (\E c \in Codes : IssueCode(r, c))
  PROVE  [delegation!Next]_Stages
<1>0. RowsType /\ AllHold(r)
  BY RequestFacts
<1>1. token' = token
  BY DEF createResourceGrant, Refuse, KeepFlow, IssueCode
<1>2. \A g \in Grants : Used(g)' = Used(g)
  BY <1>1 DEF Used
<1>3. ASSUME \A g \in Grants : \/ grant[g].state \in {"none", "inserted"} /\ grant'[g].state \in {"none", "inserted"}
                               \/ grant'[g].state = grant[g].state
      PROVE  [delegation!Next]_Stages
  BY <1>2, <1>3, StageKept, AllKept
<1>4. CASE \E g \in Grants : createResourceGrant(r, g)
  BY <1>0, <1>3, <1>4 DEF createResourceGrant, RowsType
<1>5. CASE Refuse(r)
  <2>1. Makes(r) => request[r].grant \in Grants /\ grant[request[r].grant].state = "inserted"
    BY <1>0 DEF AllHold, MakerHolds
  <2>2. grant' = IF Makes(r)
                 THEN [grant EXCEPT ![request[r].grant] =
                         [state |-> "none", session |-> None, revision |-> 0,
                          flow |-> None, code |-> None, expired |-> FALSE]]
                 ELSE grant
    BY <1>5 DEF Refuse, Makes
  <2> QED BY <1>0, <1>3, <2>1, <2>2 DEF RowsType
<1>6. CASE grant' = grant
  BY <1>3, <1>6
<1>7. ASSUME request[r].kind \in Resumes, request[r].at = "decided", grant' = Visible(request[r].grant)
      PROVE  [delegation!Next]_Stages
  <2> PICK g \in Grants : g = request[r].grant
    BY <1>7, DecidedFlow
  <2>1. /\ grant'[g].state = "live" /\ \A h \in Grants \ {g} : grant'[h] = grant[h]
        /\ grant[g].state \in {"inserted", "live"}
    BY <1>0, <1>7, DecidedFlow DEF Visible, RowsType, GrantType
  <2>2. CASE grant[g].state = "live"
    BY <1>3, <2>1, <2>2
  <2>3. CASE grant[g].state = "inserted"
    <3>1. ~Used(g) /\ ~Used(g)'
      BY <1>2, <2>3, UnusedUnlessSeen DEF Seen
    <3>2. Stages[g] = "none" /\ Stages'[g] = "made"
      BY <2>1, <2>3, <3>1, StageOf, StageOfNext
    <3>3. \A h \in Grants \ {g} : Stages'[h] = Stages[h]
      BY <1>2, <2>1, StageKept
    <3> QED BY <3>2, <3>3, OneMoves
  <2> QED BY <2>1, <2>2, <2>3
<1>8. CASE KeepFlow(r) \/ (\E c \in Codes : IssueCode(r, c))
  <2>1. \/ grant' = grant
        \/ /\ request[r].kind \in Resumes /\ request[r].at = "decided"
           /\ grant' = Visible(request[r].grant)
    BY <1>8 DEF KeepFlow, IssueCode, Resumes
  <2> QED BY <1>6, <1>7, <2>1
<1> QED BY <1>4, <1>5, <1>8

LEMMA TokenDelegates ==
  ASSUME Inv, NEW r \in Requests, NEW t \in Tokens, ExchangeCode(r, t) \/ RotateToken(r, t)
  PROVE  [delegation!Next]_Stages
<1> PICK g : g = request[r].grant
  OBVIOUS
<1>0. RowsType /\ AllHold(r) /\ Holds(r) /\ request[r].at = "decided" /\ Rests(r) /\ request[r].kind \notin Resumes
  BY RequestFacts DEF ExchangeCode, RotateToken, Decided, Holds, Rests, TokenKinds, Resumes
<1>1. g \in Grants /\ grant[g].state = "live"
  BY <1>0 DEF AllHold, DecisionHolds, Resumes
<1>2. ASSUME \A h \in Grants : grant'[h].state = grant[h].state, token[t].state = "none",
             token'[t].state = "live" /\ token'[t].grant = g,
             \A o \in Tokens \ {t} : \/ token'[o] = token[o]
                                     \/ token[o].grant = g /\ token'[o].grant = g
      PROVE  Used(g)' /\ grant'[g].state = "live" /\ \A h \in Grants \ {g} : Stages'[h] = Stages[h]
  <2>1. \A h \in Grants \ {g} : Used(h)' = Used(h)
    BY <1>2 DEF Used
  <2> QED BY <1>1, <1>2, <2>1, StageKept DEF Used
<1>3. CASE ExchangeCode(r, t)
  <2>1. /\ grant' = [grant EXCEPT ![g].code = request[r].code] /\ token[t].state = "none"
        /\ token' = NewToken(token, t, r) /\ request[r].kind = "exchange" /\ request[r].found = "issued"
        /\ grant[g].code \in {None, request[r].code}
    BY <1>3 DEF ExchangeCode, Decided
  <2>2. /\ \A h \in Grants : grant'[h].state = grant[h].state
        /\ token'[t].state = "live" /\ token'[t].grant = g /\ \A o \in Tokens \ {t} : token'[o] = token[o]
    BY <1>0, <1>1, <2>1 DEF RowsType, GrantType, NewToken
  <2>3. ~Used(g)
    <3>1. code[request[r].code].state = "issued"
      BY <1>0, <2>1 DEF AllHold, HolderHolds
    <3>2. grant[g].code = None
      BY <1>1, <2>1, <3>1 DEF Inv, CodesHold
    <3> QED BY <1>1, <3>2, UnusedUnlessSeen
  <2>4. Stages[g] = "made" /\ Stages'[g] = "used" /\ \A h \in Grants \ {g} : Stages'[h] = Stages[h]
    BY <1>1, <1>2, <2>1, <2>2, <2>3, StageOf, StageOfNext
  <2> QED BY <1>1, <2>4, OneMoves
<1>4. CASE RotateToken(r, t)
  <2> PICK x : x = request[r].token
    OBVIOUS
  <2>1. /\ grant' = grant /\ token[t].state = "none" /\ request[r].kind = "refresh" /\ request[r].found = "live"
        /\ token' = NewToken([token EXCEPT ![x].state = "rotated"], t, r)
    BY <1>4 DEF RotateToken, Decided
  <2>2. x \in Tokens /\ token[x].state = "live" /\ token[x].grant = g
    BY <1>0, <2>1 DEF AllHold, RequestHolds, HolderHolds
  <2>3. /\ token'[t].state = "live" /\ token'[t].grant = g /\ token'[x].grant = g
        /\ \A o \in Tokens \ {t, x} : token'[o] = token[o]
    BY <1>0, <2>1, <2>2 DEF RowsType, TokenType, NewToken
  <2>4. Used(g)
    BY <2>2 DEF Used
  <2>5. Used(g)' /\ grant'[g].state = "live" /\ \A h \in Grants \ {g} : Stages'[h] = Stages[h]
    BY <1>2, <2>1, <2>2, <2>3
  <2>6. Stages'[g] = Stages[g]
    BY <1>1, <2>4, <2>5, StageOf, StageOfNext
  <2> QED BY <2>5, <2>6, AllKept
<1> QED BY <1>3, <1>4

LEMMA StepDelegates == Inv /\ [Next]_vars => [delegation!Next]_Stages
<1> SUFFICES ASSUME Inv, [Next]_vars PROVE [delegation!Next]_Stages
  OBVIOUS
<1>1. CASE UNCHANGED vars
  <2>1. UNCHANGED <<grant, token>>
    BY <1>1 DEF vars
  <2>2. \A g \in Grants : Used(g)' = Used(g)
    BY <2>1 DEF Used
  <2> QED BY <2>1, <2>2, StageKept, AllKept
<1> QED BY <1>1, MostOnlyRevoke, RevokesEnds, FlowDelegates, TokenDelegates

\* A grant is made once, exchanged once, keeps its one token until it is revoked, and stays so.
THEOREM Delegating == Spec => IsDelegation
<1>1. Init => delegation!Init
  BY DEF Init, delegation!Init, Stage
<1>2. Inv /\ [Next]_vars => [delegation!Next]_([g \in Grants |-> Stage(g)])
  BY StepDelegates DEF Stages
<1> QED BY <1>1, <1>2, Invariant, PTL DEF Spec, IsDelegation, delegation!Spec
=============================================================================
