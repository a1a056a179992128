----------------------------- MODULE TenantPolicy -----------------------------
(***************************************************************************)
(* A tenant's policy under concurrent commands of the admin API            *)
(* (apps/id/src/services, db/queries): who is a member, in a group,        *)
(* entitled to an application and a resource, and what is erased with what. *)
(*                                                                         *)
(* Commands run at READ COMMITTED.  A statement reads what is committed    *)
(* when it starts, locks the rows it found one by one, waiting for those   *)
(* who hold them, and then acts on the rows that are still live.  Rows are *)
(* erased by a mark and keep a key, so a new row's foreign keys demand live *)
(* parents and lock them; PostgreSQL's check that an erased row has no     *)
(* children is left out, and NoOrphans shows the commands never meet it.   *)
(* Keys are unique among the rows that are not erased: a row that takes an *)
(* erased one's key is another row, and only an insert waits for it.       *)
(*                                                                         *)
(* One tenant, group and resource, and two applications, of which one is   *)
(* entitled; the platform owns them and the resource.  Left out: authority *)
(* (AdminAuthority), grants and tokens (OAuthGrants), windows, scopes,     *)
(* domains and providers.                                                  *)
(***************************************************************************)
EXTENDS Naturals, Sequences, FiniteSets

CONSTANTS
  Users,        \* people
  Commands,     \* transactions at a time
  MaxCommands   \* bound: how many commands are begun

ASSUME PolicyAssumption == Users \cap {"it", "group", "all"} = {} /\ MaxCommands \in Nat

(***************************************************************************)
(* Rows, by table and what tells them apart                                *)
(***************************************************************************)
organization == <<"organization", "it">>
group == <<"group", "it">>
resource == <<"resource", "it">>
capability == <<"capability", "it">>
Client(k) == <<"client", k>>
Link(k) == <<"link", k>>
User(u) == <<"user", u>>
Member(u) == <<"member", u>>
Assignment(u) == <<"assignment", u>>
Entitlement(p) == <<"entitlement", p>>

\* Whom an entitlement is for: a member, the group, or every member.
Principals == Users \cup {"group", "all"}
Tables(names, keys) == names \X keys
Clients == {"web", "cli"}
client == Client("web")
Rows == Tables({"organization", "group", "resource", "capability"}, {"it"})
        \cup Tables({"client", "link"}, Clients)
        \cup Tables({"user", "member", "assignment"}, Users)
        \cup Tables({"entitlement"}, Principals)

PrincipalOf(p) == IF p \in Users THEN {Member(p)} ELSE IF p = "group" THEN {group} ELSE {}

\* The foreign keys that demand live rows.
Parents(row) ==
  CASE row[1] = "group" -> {organization}
    [] row[1] = "member" -> {organization, User(row[2])}
    [] row[1] = "assignment" -> {organization, group, Member(row[2])}
    [] row[1] = "entitlement" -> {organization, client, resource} \cup PrincipalOf(row[2])
    [] row[1] = "capability" -> {organization, client, resource}
    [] row[1] = "link" -> {Client(row[2]), resource}
    [] OTHER -> {}

VARIABLES
  live,      \* committed rows that are not erased
  revoked,   \* the users whose membership is revoked
  revision,  \* each row's revision
  command,   \* each transaction
  begun      \* how many have been begun

worldVars == <<live, revoked, revision>>
vars == <<worldVars, command, begun>>

None == "none"
Idle == [name |-> None, of |-> None, expected |-> {}, next |-> <<>>, started |-> FALSE,
         pending |-> {}, held |-> {}, added |-> {}, removed |-> {}, changed |-> {}, seen |-> {}]

\* A tenant in use, or one with nothing assigned yet.
Init ==
  /\ \E joined \in (SUBSET Users) \ {{}} :
       LET base == {organization, group, resource} \cup {Client(k) : k \in Clients}
                   \cup {User(u) : u \in Users} \cup {Member(u) : u \in joined} IN
       live \in {base, base \cup {row \in Rows : Parents(row) \subseteq base}}
  /\ revoked = {} /\ revision = [row \in Rows |-> 0]
  /\ command = [c \in Commands |-> Idle] /\ begun = 0

(***************************************************************************)
(* Statements                                                              *)
(***************************************************************************)
Statement(do, rows, mode) == [do |-> do, rows |-> rows, mode |-> mode]

Take(row, mode) == <<Statement("take", {row}, mode)>>      \* SELECT ... FOR mode, found or refused
Hold(rows) == <<Statement("hold", rows, "update")>>        \* SELECT ... FOR UPDATE
Found(row) == <<Statement("found", {row}, None)>>          \* SELECT, found or refused
Free(rows) == <<Statement("free", rows, None)>>            \* refused while one is live
Insert(row) == <<Statement("insert", {row}, None)>>        \* refused if there is one
Put(row) == <<Statement("put", {row}, None)>>              \* on conflict, what is there stays
Upsert(row) == <<Statement("upsert", {row}, "update")>>    \* on conflict, it is changed
Delete(rows) == <<Statement("delete", rows, "update")>>    \* UPDATE ... SET deleted_at
Change(row) == <<Statement("change", {row}, "nokey")>>     \* UPDATE of other columns
assertRevision(row) == <<Statement("assert", {row}, None)>>

lockOrganizationForCommand == Take(organization, "update")
lockedGroup == lockOrganizationForCommand \o Take(group, "update")
readClient == Take(client, "share")
readResourceForPolicy == Take(resource, "share")
lockClientForCommand(k) == Take(Client(k), "update")
lockResourceForCommand == Take(resource, "update")

\* A membership is read, not locked, before it is assigned something.
findMemberForAssignment(u) == <<Statement("assignable", {Member(u)}, None)>>

\* The members an entitlement reaches, and the rows that say so.
Reached(p, rows) == {u \in Users : /\ Member(u) \in rows
                                   /\ p \in Users => u = p
                                   /\ p = "group" => Assignment(u) \in rows}
AudienceRows(p, rows) == LET us == Reached(p, rows) IN
  {Member(u) : u \in us} \cup (IF p = "group" THEN {Assignment(u) : u \in us} ELSE {})

\* Mutant: the audience is read and not locked.
readEntitlementAudienceUnlocked(p) == <<Statement("audience", {Entitlement(p)}, "none")>>

readEntitlementAudience(p) == <<Statement("audience", {Entitlement(p)}, "share")>>

(***************************************************************************)
(* Commands, as the statements they run                                    *)
(***************************************************************************)
Principal(p) == IF p \in Users THEN findMemberForAssignment(p)
                ELSE IF p = "group" THEN Take(group, "update") ELSE <<>>

createEntitlement(p) ==
  lockOrganizationForCommand \o Principal(p) \o readClient \o readResourceForPolicy
  \o Insert(Entitlement(p)) \o readEntitlementAudience(p)

lockedEntitlement(p) == lockOrganizationForCommand \o Take(Entitlement(p), "update")

updateEntitlement(p) ==
  lockedEntitlement(p) \o assertRevision(Entitlement(p)) \o readResourceForPolicy
  \o Change(Entitlement(p)) \o readEntitlementAudience(p)

removeEntitlement(p) ==
  lockedEntitlement(p) \o Delete({Entitlement(p)}) \o readEntitlementAudience(p)

validateTarget == readClient \o readResourceForPolicy
createCapability == lockOrganizationForCommand \o validateTarget \o Insert(capability)

\* Mutant: the organisation is not locked.
updateCapabilityUnlocked ==
  Found(capability) \o assertRevision(capability) \o validateTarget \o Change(capability)

updateCapability ==
  lockOrganizationForCommand \o Found(capability) \o assertRevision(capability)
  \o validateTarget \o Change(capability)

removeCapability == lockOrganizationForCommand \o Found(capability) \o Delete({capability})

createGroup == lockOrganizationForCommand \o Insert(group)
updateGroup == lockedGroup \o assertRevision(group) \o Change(group)

putMember(u) ==
  lockedGroup \o findMemberForAssignment(u) \o Hold({Assignment(u)})
  \o assertRevision(Assignment(u)) \o Upsert(Assignment(u))

removeMember(u) == lockedGroup \o Take(Assignment(u), "update") \o Delete({Assignment(u)})

deleteGroup ==
  Delete({Assignment(u) : u \in Users}) \o Delete({Entitlement("group")}) \o Delete({group})
eraseGroup == lockedGroup \o deleteGroup

\* Mutant: what a member holds is removed before the membership is revoked, without the
\* organisation's lock.
removeUnlocked(u) ==
  Found(Member(u)) \o Delete({Entitlement(u)}) \o Delete({Assignment(u)}) \o Change(Member(u))

removeMemberAssignments(u) == Delete({Entitlement(u)}) \o Delete({Assignment(u)})
remove(u) ==
  lockOrganizationForCommand \o Found(Member(u)) \o Change(Member(u)) \o removeMemberAssignments(u)

updateWindow(u) ==
  lockOrganizationForCommand \o Take(Member(u), "update") \o assertRevision(Member(u))
  \o Change(Member(u))

reinstate(u) == lockOrganizationForCommand \o Found(Member(u)) \o Change(Member(u))

\* The first sign-in's insert, which takes no lock but its foreign keys'.
provisionMembership(u) == Put(Member(u))

deleteUser(u) ==
  Hold({Member(u)}) \o Delete({Entitlement(u)}) \o Delete({Assignment(u)})
  \o Delete({Member(u)}) \o Delete({User(u)})
eraseUser(u) == Take(User(u), "update") \o deleteUser(u)

updateClient(k) == lockClientForCommand(k) \o assertRevision(Client(k)) \o Change(Client(k))

\* Mutant: the resource is locked first.
linkResourceTurned(k) == lockResourceForCommand \o lockClientForCommand(k) \o Put(Link(k))

linkResource(k) == lockClientForCommand(k) \o lockResourceForCommand \o Put(Link(k))
unlinkResource(k) == lockClientForCommand(k) \o readResourceForPolicy \o Delete({Link(k)})

requireNoCapabilityReferences == Free({capability})
AnyEntitlement == {Entitlement(p) : p \in Principals}
OfClient(k, rows) == IF Client(k) = client THEN rows ELSE {}
deleteClient(k) == Delete({Link(k)}) \o Delete({Client(k)})
eraseClient(k) ==
  lockClientForCommand(k) \o Free(OfClient(k, AnyEntitlement)) \o Free(OfClient(k, {capability}))
  \o deleteClient(k)

updateResource == lockResourceForCommand \o assertRevision(resource) \o Change(resource)
eraseResource ==
  lockResourceForCommand \o Free(AnyEntitlement) \o Free({Link(k) : k \in Clients})
  \o requireNoCapabilityReferences  \o Delete({resource})

updateOrganization ==
  lockOrganizationForCommand \o assertRevision(organization) \o Change(organization)

deleteOrganization ==
  Delete(AnyEntitlement) \o Delete({Assignment(u) : u \in Users})
  \o Delete({Member(u) : u \in Users}) \o Delete({group}) \o Delete({capability})
  \o Delete({organization})
eraseOrganization == lockOrganizationForCommand \o deleteOrganization

Offer(name, of, next) == [name |-> name, of |-> of, next |-> next]
EntitlementOffers == UNION {
  {Offer("createEntitlement", p, createEntitlement(p)),
   Offer("updateEntitlement", p, updateEntitlement(p)),
   Offer("removeEntitlement", p, removeEntitlement(p))} : p \in Principals}
CapabilityOffers ==
  {Offer("createCapability", "it", createCapability),
   Offer("updateCapability", "it", updateCapability),
   Offer("removeCapability", "it", removeCapability)}
\* setStatus, which shares the group's assignments and entitlements too, is not offered.
GroupOffers ==
  {Offer("createGroup", "it", createGroup), Offer("updateGroup", "it", updateGroup),
   Offer("eraseGroup", "it", eraseGroup)}
  \cup UNION {{Offer("putMember", u, putMember(u)),
               Offer("removeMember", u, removeMember(u))} : u \in Users}
MemberOffers == UNION {
  {Offer("updateWindow", u, updateWindow(u)), Offer("remove", u, remove(u)),
   Offer("reinstate", u, reinstate(u))} : u \in Users}
UserOffers == {Offer("eraseUser", u, eraseUser(u)) : u \in Users}
SignInOffers == {Offer("provisionMembership", u, provisionMembership(u)) : u \in Users}
\* createClient, and the secret's rotation, are not offered; setDisabled is an updateClient
\* without a condition.
ClientOffers == UNION {
  {Offer("updateClient", k, updateClient(k)), Offer("eraseClient", k, eraseClient(k)),
   Offer("linkResource", k, linkResource(k)),
   Offer("unlinkResource", k, unlinkResource(k))} : k \in Clients}
ResourceOffers ==
  {Offer("updateResource", "it", updateResource), Offer("eraseResource", "it", eraseResource)}
OrganizationOffers ==
  {Offer("updateOrganization", "it", updateOrganization),
   Offer("eraseOrganization", "it", eraseOrganization)}

Offers ==
  EntitlementOffers \cup CapabilityOffers \cup GroupOffers \cup MemberOffers \cup UserOffers
  \cup SignInOffers \cup ClientOffers \cup ResourceOffers \cup OrganizationOffers

(***************************************************************************)
(* Locks                                                                   *)
(***************************************************************************)
Modes == {"key", "share", "nokey", "update", "insert"}
Lock(row, mode) == [row |-> row, mode |-> mode]
Excludes(a, b) == a.row = b.row /\ {a.mode, b.mode} \in
  {{"update"}, {"update", "nokey"}, {"update", "share"}, {"update", "key"},
   {"nokey"}, {"nokey", "share"}, {"insert"}}
Blockers(c, lock) == {d \in Commands \ {c} : \E held \in command[d].held : Excludes(held, lock)}

\* What a transaction sees: what is committed and what it did.
Visible(c) == (live \cup command[c].added) \ command[c].removed
Current(c) == Head(command[c].next)

\* Linking and unlinking also move the revisions of the two rows linked.
Touched(rows) == UNION {Parents(row) : row \in {row \in rows : row[1] = "link"}}

Inserts == {"insert", "put", "upsert"}

\* What a statement locks, by what it sees when it starts.  An insert refers to its row's parents,
\* and keeps others from inserting a row of the same key; nobody else sees the row yet.
Needs(c) ==
  LET st == Current(c)  rows == st.rows \cap Visible(c)
      fresh == IF st.do \in Inserts THEN st.rows \ Visible(c) ELSE {} IN
  {Lock(parent, "key") : parent \in UNION {Parents(row) : row \in fresh}}
  \cup {Lock(row, st.mode) : row \in
         CASE st.do \in {"take", "hold", "change", "delete"} -> rows
           [] st.do = "audience" -> AudienceRows(command[c].of, Visible(c))
           [] OTHER -> {}}
  \cup {Lock(row, "insert") : row \in fresh}
  \cup {Lock(row, "nokey") : row \in Touched(IF st.do = "delete" THEN rows ELSE fresh)}

(***************************************************************************)
(* A command                                                               *)
(***************************************************************************)
Asserted(next) == UNION {next[i].rows : i \in {j \in DOMAIN next : next[j].do = "assert"}}

\* A conditional command accepts the revision its sender read, and one that puts a row may
\* accept that there was none.
Accepts(x) ==
  LET rows == Asserted(x.next) IN
  {{}} \cup IF rows # {} /\ (rows \subseteq live \/ x.name = "putMember")
           THEN {{{revision[row] : row \in rows \cap live}}} ELSE {}

Begin(c, x) ==
  /\ command[c] = Idle /\ begun < MaxCommands /\ begun' = begun + 1
  /\ \E expected \in Accepts(x) :
       command' = [command EXCEPT ![c] = [Idle EXCEPT
         !.name = x.name, !.of = x.of, !.next = x.next, !.expected = expected]]
  /\ UNCHANGED worldVars

Start(c) ==
  LET x == command[c] IN
  /\ x.next # <<>> /\ ~x.started /\ Needs(c) \ x.held # {}
  /\ command' = [command EXCEPT ![c].started = TRUE, ![c].pending = Needs(c) \ x.held]
  /\ UNCHANGED <<worldVars, begun>>

\* A statement locks its rows in no order, but a membership before the assignment joined to it.
Turn(c, lock) ==
  Current(c).do = "audience" /\ lock.row[1] = "assignment"
    => Lock(Member(lock.row[2]), "share") \notin command[c].pending

Acquire(c) ==
  /\ \E lock \in command[c].pending :
       /\ Blockers(c, lock) = {} /\ Turn(c, lock)
       /\ command' = [command EXCEPT ![c].pending = @ \ {lock}, ![c].held = @ \cup {lock}]
  /\ UNCHANGED <<worldVars, begun>>

Ready(c) ==
  LET x == command[c] IN
  x.next # <<>> /\ x.pending = {} /\ (x.started \/ Needs(c) \subseteq x.held)

\* A statement that finds something else than its command needs ends it.
Refused(c) ==
  LET st == Current(c)  rows == st.rows \cap Visible(c)
      unborn == ~(UNION {Parents(row) : row \in st.rows} \subseteq Visible(c)) IN
  CASE st.do \in {"take", "found", "change"} -> rows # st.rows
    [] st.do = "assignable" -> rows # st.rows \/ command[c].of \in revoked
    [] st.do = "free" -> rows # {}
    [] st.do = "insert" -> rows # {} \/ unborn
    [] st.do \in {"put", "upsert"} -> rows = {} /\ unborn
    [] st.do = "assert" -> command[c].expected \notin {{}, {{revision[row] : row \in rows}}}
    [] OTHER -> FALSE

\* The rows a statement works on: those it locked that are still there.
Holds(c, row, mode) == row \in Visible(c) /\ Lock(row, mode) \in command[c].held

Finish(c) ==
  LET x == command[c]  st == Current(c)
      worked == {row \in st.rows : Holds(c, row, st.mode)}
      fresh == IF st.do \in Inserts THEN st.rows \ Visible(c) ELSE {}
      gone == IF st.do = "delete" THEN worked ELSE {} IN
  /\ Ready(c) /\ ~Refused(c)
  /\ command' = [command EXCEPT ![c] =
       [x EXCEPT !.next = Tail(@), !.started = FALSE,
          !.added = @ \cup fresh, !.removed = @ \cup gone,
          !.changed = @ \cup Touched(fresh \cup gone)
                        \cup IF st.do \in {"change", "upsert"} THEN worked ELSE {},
          !.seen = IF st.do = "audience"
                   THEN Reached(x.of, {row \in Rows : Holds(c, row, st.mode)}) ELSE @]]
  /\ UNCHANGED <<worldVars, begun>>

End(c) == command' = [command EXCEPT ![c] = Idle] /\ UNCHANGED begun

\* Also by a failed statement, a lost connection, or as the victim of a deadlock.
Refuse(c) ==
  /\ command[c] # Idle /\ Ready(c) => Refused(c)
  /\ End(c) /\ UNCHANGED worldVars

\* Mutant: the removal of an entitlement revokes whom it was for.
RevokedByAny(x) ==
  CASE x.name \in {"remove", "removeEntitlement"} -> revoked \cup {x.of}
    [] x.name = "reinstate" -> revoked \ {x.of}
    [] OTHER -> revoked

Revoked(x) ==
  CASE x.name = "remove" -> revoked \cup {x.of}
    [] x.name = "reinstate" -> revoked \ {x.of}
    [] OTHER -> revoked

Written(x) == x.added \cup x.removed \cup x.changed
Commit(c) ==
  LET x == command[c] IN
  /\ x # Idle /\ x.next = <<>> /\ End(c)
  /\ live' = (live \cup x.added) \ x.removed
  /\ revision' = [row \in Rows |-> IF row \in Written(x) THEN revision[row] + 1 ELSE revision[row]]
  /\ revoked' = Revoked(x)

Next ==
  \/ \E c \in Commands, x \in Offers : Begin(c, x)
  \/ \E c \in Commands : Start(c) \/ Acquire(c) \/ Finish(c) \/ Refuse(c) \/ Commit(c)

Spec == Init /\ [][Next]_vars

(***************************************************************************)
(* Properties                                                              *)
(***************************************************************************)
\* Every variable keeps its type.
TypeOK ==
  /\ live \subseteq Rows /\ revoked \subseteq Users /\ revision \in [Rows -> Nat]
  /\ \A c \in Commands : LET x == command[c] IN
       /\ x.pending \cup x.held \subseteq [row : Rows, mode : Modes]
       /\ Written(x) \subseteq Rows /\ x.seen \subseteq Users
  /\ begun \in 0..MaxCommands

\* Nothing that is live refers to an erased row: whoever erases a tenant, a person, a group, an
\* application or a resource erases, or has looked for, everything on it, whatever another
\* command was adding meanwhile.
NoOrphans == \A row \in live : Parents(row) \subseteq live

\* A revoked member is in no group and has no entitlement of its own: no assignment passes the
\* removal that revokes the member.
RevokedHoldNothing == \A u \in revoked : {Assignment(u), Entitlement(u)} \cap live = {}

\* Nothing outlives what it rests on: no row its parents, and no assignment or
\* entitlement the decision that ended it.
NothingOutlives == NoOrphans /\ RevokedHoldNothing

Commits(c) == command[c] # Idle /\ command'[c] = Idle /\ worldVars' # worldVars
Audited == {"createEntitlement", "updateEntitlement", "removeEntitlement"}

\* The audience an entitlement's event records is the one it reaches when the event is
\* committed: nobody joins, leaves or is erased between the reading and the commit.
AudienceIsExact ==
  [][\A c \in Commands : Commits(c) /\ command[c].name \in Audited
       => command[c].seen = Reached(command[c].of, live')]_vars

\* A conditional change builds on what its sender read: nobody commits another change of the row
\* between the check of its revision and the commit.
ChangesBuildOnWhatWasRead ==
  [][\A c \in Commands : Commits(c) => \A row \in command[c].changed \cap live :
       command[c].expected # {} /\ command[c].name \notin {"linkResource", "unlinkResource"}
         => command[c].expected = {{revision[row]}}]_vars

WaitsFor(c) ==
  LET turns == {lock \in command[c].pending : Turn(c, lock)} IN
  IF \A lock \in turns : Blockers(c, lock) # {}
  THEN UNION {Blockers(c, lock) : lock \in turns} ELSE {}
Deadlocked(cs) == cs # {} /\ \A c \in cs : WaitsFor(c) \cap cs # {}
Circle(cs) == Deadlocked(cs) /\ \A ds \in SUBSET cs : Deadlocked(ds) => ds = cs
Named(cs) == {command[c].name : c \in cs}

\* Which commands PostgreSQL may have to end for waiting in a circle, with none to spare in it: the
\* erasure of a user, whose memberships are locked before what they hold, meeting those who lock a
\* member's entitlement first; and unlinkings of one resource, which each of them shares and then
\* changes.
OnlyErasuresDeadlock ==
  \A cs \in SUBSET Commands : Circle(cs) =>
    \/ Named(cs) = {"unlinkResource"}
    \/ /\ "eraseUser" \in Named(cs)
       /\ Named(cs) \subseteq
            {"eraseUser", "eraseOrganization", "updateEntitlement", "removeEntitlement"}
===============================================================================
