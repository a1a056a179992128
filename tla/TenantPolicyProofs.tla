-------------------------- MODULE TenantPolicyProofs --------------------------
(***************************************************************************)
(* Proofs about TenantPolicy, for any number of users, of commands at a    *)
(* time and of commands begun.                                             *)
(*                                                                         *)
(* Inv says of each command, of any list of statements, what it relies     *)
(* on: that the locks it holds exclude those of the others; that what it   *)
(* has added rests on rows it keeps; that what it will erase is promised   *)
(* to be bare by then, since the rows under which a child could be added   *)
(* are locked; that whom it assigns something stands, or will be asked     *)
(* for; that the audience it read is shared; and that a revision it        *)
(* checked is of a row nobody else can change.  The first part shows that  *)
(* a step of one command leaves the others what they rely on, the second   *)
(* that each statement keeps it for its own command, and the third that    *)
(* every list of statements the code runs has it from the start.           *)
(*                                                                         *)
(* InPlace adds how far each command has come in what the code runs for    *)
(* it, and that it waits for and holds only what those statements lock,    *)
(* in their order.  From both follows who can wait for whom, and so which  *)
(* commands can wait in a circle.                                          *)
(***************************************************************************)
EXTENDS TenantPolicy, TLAPS

(***************************************************************************)
(* Types                                                                   *)
(***************************************************************************)
\* The modes in which a row is locked that others may see.
Firm == {"key", "share", "nokey", "update"}
Locks == [row : Rows, mode : Modes]
Whoms == Users \cup {"group", "all", "it", "web", "cli", None}
Deeds == {"take", "hold", "found", "assignable", "free", "delete", "change", "assert", "audience"}
         \cup Inserts

\* Statements that are about one row, and the locks they take.
Sound(st) ==
  /\ st.do \in {"take", "hold", "change"} \cup Inserts => \E row \in Rows : st.rows = {row}
  /\ st.do \in {"take", "hold", "change", "delete", "audience"} => st.mode \in Firm
  /\ st.do \in {"hold", "delete", "upsert"} => st.mode = "update"
  /\ st.do = "audience" => st.mode = "share"
  /\ st.do = "change" => st.mode = "nokey"
  /\ st.do = "upsert" => \E u \in Users : st.rows = {Assignment(u)}
  /\ st.do \in {"take", "hold"} => \A k \in Clients : Link(k) \notin st.rows
Statements == {st \in [do : Deeds, rows : SUBSET Rows, mode : Modes \cup {None}] : Sound(st)}

Names == Audited \cup {
  "createCapability", "updateCapability", "removeCapability", "createGroup", "updateGroup",
  "eraseGroup", "putMember", "removeMember", "updateWindow", "remove", "reinstate", "eraseUser",
  "provisionMembership", "updateClient", "eraseClient", "linkResource", "unlinkResource",
  "updateResource", "eraseResource", "updateOrganization", "eraseOrganization", None}
Asking == [name : Names, of : Whoms, expected : SUBSET (SUBSET Nat), next : Seq(Statements),
           started : BOOLEAN, pending : SUBSET Locks, held : SUBSET Locks,
           added : SUBSET Rows, removed : SUBSET Rows, changed : SUBSET Rows, seen : SUBSET Users]

Typed ==
  /\ live \subseteq Rows /\ revoked \subseteq Users /\ revision \in [Rows -> Nat]
  /\ command \in [Commands -> Asking] /\ begun \in 0..MaxCommands

\* Each named row is one of the rows.
LEMMA RowForms ==
  /\ organization \in Rows /\ group \in Rows /\ resource \in Rows /\ capability \in Rows
  /\ \A k \in Clients : Client(k) \in Rows /\ Link(k) \in Rows
  /\ \A u \in Users : User(u) \in Rows /\ Member(u) \in Rows /\ Assignment(u) \in Rows
  /\ \A p \in Principals : Entitlement(p) \in Rows
BY DEF organization, group, resource, capability, Client, Link, User, Member, Assignment,
       Entitlement, Rows, Tables

\* And there are no other rows.
LEMMA RowCases ==
  ASSUME NEW row \in Rows
  PROVE  \/ row \in {organization, group, resource, capability}
         \/ \E k \in Clients : row = Client(k) \/ row = Link(k)
         \/ \E u \in Users : row = User(u) \/ row = Member(u) \/ row = Assignment(u)
         \/ \E p \in Principals : row = Entitlement(p)
BY DEF organization, group, resource, capability, Client, Link, User, Member, Assignment,
       Entitlement, Rows, Tables

\* What each row rests on.
LEMMA ParentForms ==
  /\ Parents(organization) = {} /\ Parents(resource) = {} /\ Parents(group) = {organization}
  /\ Parents(capability) = {organization, client, resource}
  /\ \A k : Parents(Client(k)) = {} /\ Parents(Link(k)) = {Client(k), resource}
  /\ \A u : /\ Parents(User(u)) = {} /\ Parents(Member(u)) = {organization, User(u)}
            /\ Parents(Assignment(u)) = {organization, group, Member(u)}
  /\ \A p : Parents(Entitlement(p)) = {organization, client, resource} \cup PrincipalOf(p)
BY DEF organization, group, resource, capability, Client, Link, User, Member, Assignment,
       Entitlement, Parents

\* What an entitlement's principal adds to that.
LEMMA PrincipalForms ==
  /\ \A u \in Users : PrincipalOf(u) = {Member(u)}
  /\ PrincipalOf("group") = {group} /\ PrincipalOf("all") = {}
BY PolicyAssumption DEF PrincipalOf

\* Rows rest on rows.
LEMMA ParentsAreRows == \A row \in Rows : Parents(row) \subseteq Rows
<1> SUFFICES ASSUME NEW row \in Rows PROVE Parents(row) \subseteq Rows
  OBVIOUS
<1>1. client \in Rows
  BY RowForms DEF client, Clients
<1>2. \A p \in Principals : PrincipalOf(p) \subseteq Rows
  BY RowForms, PrincipalForms DEF Principals
<1> QED BY <1>1, <1>2, RowCases, RowForms, ParentForms

\* A sequence is empty if it has no elements.
LEMMA EmptyForms ==
  ASSUME NEW S, NEW s \in Seq(S)
  PROVE  s = <<>> <=> Len(s) = 0
OBVIOUS

\* The statement a command is at, and those after it.
LEMMA FirstStatement ==
  ASSUME NEW x \in Asking, x.next # <<>>
  PROVE  /\ Head(x.next) = x.next[1] /\ x.next[1] \in Statements /\ 1 \in DOMAIN x.next
         /\ Len(x.next) \in Nat \ {0} /\ DOMAIN x.next = 1..Len(x.next)
         /\ Tail(x.next) \in Seq(Statements) /\ Len(Tail(x.next)) = Len(x.next) - 1
         /\ DOMAIN Tail(x.next) = 1..(Len(x.next) - 1)
         /\ \A i \in 1..(Len(x.next) - 1) : Tail(x.next)[i] = x.next[i + 1]
<1> x.next \in Seq(Statements)
  BY DEF Asking
<1> QED OBVIOUS

(***************************************************************************)
(* What a command x has done and will do, while l is live                  *)
(***************************************************************************)
Sees(l, x) == (l \cup x.added) \ x.removed
Alone(x, row) == Lock(row, "update") \in x.held

\* Nobody erases a row, or adds it, or a row under it, without x's leave.
Settled(l, x, p) ==
  \/ Alone(x, p) /\ p \in l \cup x.added
  \/ p \notin Sees(l, x) /\ \E q \in Parents(p) : Alone(x, q)

\* A row is not there, and will not be before x ends.
Cut(l, x, row) == row \notin Sees(l, x) /\ \E p \in Parents(row) : Settled(l, x, p)

\* Statement g of x takes a row for update; before statement j, p will be settled.
Takes(x, g, do, p) == x.next[g] = Statement(do, {p}, "update")
Settles(l, x, p, j) ==
  \/ Settled(l, x, p)
  \/ \E g \in 1..(j - 1) :
       \/ Takes(x, g, "take", p)
       \/ /\ Takes(x, g, "hold", p)
          /\ \E q \in Parents(p) : Alone(x, q) \/ \E h \in 1..(g - 1) : Takes(x, h, "take", q)

\* Statement j of x finds no such row, or erases it.
Clears(l, x, row, j) ==
  /\ x.next[j].do \in {"delete", "free"} /\ row \in x.next[j].rows
  /\ \E p \in Parents(row) : Settles(l, x, p, j)
  /\ j = 1 /\ x.started /\ x.next[j].do = "delete"
       => row \notin Sees(l, x) \/ Lock(row, "update") \in x.pending \cup x.held

\* Before statement i, the row will be cut.
Promised(l, x, row, i) == Cut(l, x, row) \/ \E j \in 1..(i - 1) : Clears(l, x, row, j)

Without(x, deeds) == \A i \in DOMAIN x.next : x.next[i].do \notin deeds

\* Commands insert or erase.
OneWay(x) ==
  \/ x.removed = {} /\ Without(x, {"delete"})
  \/ x.added = {} /\ Without(x, Inserts)

\* What is added rests on rows that stay.
Rests(l, x) == \A row \in x.added : \A p \in Parents(row) :
                 p \in Sees(l, x) /\ Lock(p, "key") \in x.held

\* What is erased is locked and has nothing on it, nor has what will be erased.
Erases(l, x) ==
  /\ \A row \in x.removed : Alone(x, row)
  /\ \A row \in Rows : Parents(row) \cap x.removed # {} => row \notin Sees(l, x)
  /\ \A i \in DOMAIN x.next : x.next[i].do = "delete" =>
       \A row \in Rows : Parents(row) \cap x.next[i].rows # {} => Promised(l, x, row, i)

\* A statement that has started has locked, or waits for, what it will work on.
Waits(x) ==
  IF x.started
  THEN LET st == x.next[1]  locks == x.pending \cup x.held IN
       /\ x.next # <<>>
       /\ st.do \in Inserts => \A row \in st.rows :
            Lock(row, "insert") \in locks /\ \A p \in Parents(row) : Lock(p, "key") \in locks
       /\ st.do \in {"take", "hold", "change"} => \A row \in st.rows : Lock(row, st.mode) \in locks
  ELSE x.pending = {}

\* The organisation is locked, or will be first.
OfTenant(x) == Alone(x, organization) \/ (x.next # <<>> /\ Takes(x, 1, "take", organization))

Own(u) == {Assignment(u), Entitlement(u)}
Revokes(l, x) == x.name = "remove" =>
  /\ x.of \in Users /\ OfTenant(x) /\ x.added = {} /\ Without(x, Inserts)
  /\ \A row \in Own(x.of) : Promised(l, x, row, Len(x.next) + 1)

\* Who is assigned something is not revoked, or will be asked for.
Standing(rv, x, u) == u \notin rv /\ Alone(x, organization)
Assigns(rv, x) == \A u \in Users :
  /\ Own(u) \cap x.added # {} => Standing(rv, x, u)
  /\ \A i \in DOMAIN x.next : x.next[i].do \in Inserts /\ Own(u) \cap x.next[i].rows # {} =>
       /\ x.of = u /\ OfTenant(x)
       /\ Standing(rv, x, u) \/ \E j \in 1..(i - 1) : x.next[j].do = "assignable"

\* The audience is what x sees, and shared, once it is read; nobody joins it meanwhile.
Shared(l, x, locks) == \A row \in AudienceRows(x.of, Sees(l, x)) : Lock(row, "share") \in locks
Hears(l, x) ==
  /\ x.name \in Audited =>
       /\ OfTenant(x)
       /\ IF x.next = <<>> THEN x.seen = Reached(x.of, Sees(l, x)) /\ Shared(l, x, x.held)
          ELSE x.next[Len(x.next)].do = "audience"
  /\ \A i \in DOMAIN x.next : x.next[i].do = "audience" => x.name \in Audited
  /\ x.started /\ x.next[1].do = "audience" => Shared(l, x, x.pending \cup x.held)

\* What is written is locked, and a capability is written under the organisation's lock.
Writing == Inserts \cup {"delete", "change"}
Writes(l, x) ==
  /\ \A row \in x.added : Lock(row, "insert") \in x.held /\ row \notin l
  /\ \A row \in x.changed : Alone(x, row) \/ Lock(row, "nokey") \in x.held
  /\ capability \in Written(x) => Alone(x, organization)
  /\ \A i \in DOMAIN x.next :
       x.next[i].do \in Writing /\ capability \in x.next[i].rows => OfTenant(x)
  /\ \A k \in Clients, m \in {"update", "insert"} : Lock(Link(k), m) \in x.pending \cup x.held =>
       \A p \in Parents(Link(k)) : Lock(p, "nokey") \in x.pending \cup x.held

\* What a conditional command will change is as its sender read it, or will be asked.
Guarded(x, row) == Alone(x, row) \/ (row = capability /\ Alone(x, organization))
Checked(l, rev, x, row) ==
  \/ row \in Sees(l, x) /\ x.expected = {{rev[row]}} /\ Guarded(x, row)
  \/ row \notin Sees(l, x) /\ \E q \in Parents(row) : Alone(x, q)
Asks(l, x, row, j) ==
  /\ x.next[j].do = "assert" /\ x.next[j].rows = {row}
  /\ \/ Settles(l, x, row, j)
     \/ row = capability /\ (Alone(x, organization)
                             \/ \E g \in 1..(j - 1) : Takes(x, g, "take", organization))
Matches(l, rev, x) == x.expected # {} =>
  /\ x.removed = {} /\ Without(x, {"insert", "put", "delete"})
  /\ \A row \in x.changed : row \in Sees(l, x) /\ x.expected = {{rev[row]}} /\ Guarded(x, row)
  /\ \A i \in DOMAIN x.next :
       /\ x.next[i].do = "upsert" => i = Len(x.next)
       /\ x.next[i].do \in {"change", "upsert"} => \A row \in x.next[i].rows :
            Checked(l, rev, x, row) \/ \E j \in 1..(i - 1) : Asks(l, x, row, j)

Fine(l, rv, rev, x) ==
  /\ OneWay(x) /\ Rests(l, x) /\ Erases(l, x) /\ Waits(x) /\ Revokes(l, x) /\ Assigns(rv, x)
  /\ Hears(l, x) /\ Writes(l, x) /\ Matches(l, rev, x)

Apart(x, z) == \A a \in x.held, b \in z.held : ~Excludes(a, b)

Inv ==
  /\ Typed /\ NothingOutlives
  /\ \A c \in Commands : Fine(live, revoked, revision, command[c])
  /\ \A c, d \in Commands : c # d => Apart(command[c], command[d])

(***************************************************************************)
(* Locks                                                                   *)
(***************************************************************************)
LEMMA LockForms ==
  ASSUME NEW row \in Rows, NEW m \in Modes
  PROVE  /\ Lock(row, m) \in Locks /\ Lock(row, m).row = row /\ Lock(row, m).mode = m
         /\ \A other, n : Lock(row, m) = Lock(other, n) => row = other /\ m = n
BY DEF Lock, Locks

\* A row locked for update is locked by nobody else.
LEMMA AloneExcludes ==
  ASSUME NEW x, NEW z, Apart(x, z), NEW row, Alone(x, row), NEW m \in Firm
  PROVE  Lock(row, m) \notin z.held
<1>1. {"update", m} \in {{"update"}, {"update", "nokey"}, {"update", "share"}, {"update", "key"},
                         {"nokey"}, {"nokey", "share"}, {"insert"}}
  <2>1. {"update", "update"} = {"update"}
    OBVIOUS
  <2> QED BY <2>1 DEF Firm
<1>2. Excludes(Lock(row, "update"), Lock(row, m))
  BY <1>1 DEF Excludes, Lock
<1> QED BY <1>2 DEF Apart, Alone

\* Nor do two commands insert a row of the same key.
LEMMA InsertExcludes ==
  ASSUME NEW x, NEW z, Apart(x, z), NEW row, Lock(row, "insert") \in x.held
  PROVE  Lock(row, "insert") \notin z.held
<1>1. {"insert", "insert"} = {"insert"}
  OBVIOUS
<1>2. Excludes(Lock(row, "insert"), Lock(row, "insert"))
  BY <1>1 DEF Excludes, Lock
<1> QED BY <1>2 DEF Apart

(***************************************************************************)
(* Another command commits                                                 *)
(***************************************************************************)
\* While x and z exclude each other, and z keeps to the rules, what z commits leaves x what it
\* relies on.
LEMMA SeenStays ==
  ASSUME NEW l, NEW x, NEW z, Apart(x, z), Rests(l, z), \A row \in z.removed : Alone(z, row)
  PROVE  /\ \A row : \A m \in Firm : Lock(row, m) \in x.held /\ row \in Sees(l, x)
                                   => row \in Sees(Sees(l, z), x)
         /\ \A row : row \notin Sees(l, x) /\ (\E q \in Parents(row) : Alone(x, q))
                     => row \notin Sees(Sees(l, z), x)
<1>0. Apart(z, x)
  <2>1. \A a, b : {a.mode, b.mode} = {b.mode, a.mode}
    OBVIOUS
  <2>2. \A a, b : Excludes(a, b) <=> Excludes(b, a)
    BY <2>1, Zenon DEF Excludes
  <2> QED BY <2>2, Zenon DEF Apart
<1>1. ASSUME NEW row, NEW m \in Firm, Lock(row, m) \in x.held, row \in Sees(l, x)
      PROVE  row \in Sees(Sees(l, z), x)
  <2>1. row \notin z.removed
    BY <1>0, <1>1, AloneExcludes
  <2> QED BY <1>1, <2>1 DEF Sees
<1>2. ASSUME NEW row, row \notin Sees(l, x), NEW q \in Parents(row), Alone(x, q)
      PROVE  row \notin Sees(Sees(l, z), x)
  <2>1. row \notin z.added
    <3>1. "key" \in Firm
      BY DEF Firm
    <3> QED BY <1>2, <3>1, AloneExcludes DEF Rests
  <2> QED BY <1>2, <2>1 DEF Sees
<1> QED BY <1>1, <1>2

\* Whoever x has locked out of a row, or has made sure is not there, stays out.
LEMMA SettledStays ==
  ASSUME NEW l, NEW x, NEW z, Apart(x, z), Rests(l, z), \A row \in z.removed : Alone(z, row),
         \A row \in x.removed : Alone(x, row)
  PROVE  /\ \A p : Settled(l, x, p) => Settled(Sees(l, z), x, p)
         /\ \A row : Cut(l, x, row) => Cut(Sees(l, z), x, row)
<1>1. ASSUME NEW p, Settled(l, x, p) PROVE Settled(Sees(l, z), x, p)
  <2>1. CASE Alone(x, p) /\ p \in l \cup x.added
    <3>1. "update" \in Firm
      BY DEF Firm
    <3>2. p \notin z.removed
      BY <2>1, <3>1, AloneExcludes DEF Alone
    <3> QED BY <2>1, <3>2 DEF Settled, Sees
  <2>2. CASE p \notin Sees(l, x) /\ \E q \in Parents(p) : Alone(x, q)
    BY <2>2, SeenStays DEF Settled
  <2> QED BY <1>1, <2>1, <2>2 DEF Settled
<1>2. ASSUME NEW row, Cut(l, x, row) PROVE row \notin Sees(Sees(l, z), x)
  <2>1. PICK p \in Parents(row) : Settled(l, x, p)
    BY <1>2 DEF Cut
  <2>2. CASE Alone(x, p)
    BY <1>2, <2>2, SeenStays DEF Cut
  <2>3. CASE p \notin Sees(l, x) /\ \E q \in Parents(p) : Alone(x, q)
    <3> SUFFICES ASSUME row \in Sees(Sees(l, z), x) PROVE FALSE
      OBVIOUS
    <3>1. row \in z.added
      BY <1>2 DEF Cut, Sees
    <3>2. p \in Sees(l, z) /\ Lock(p, "key") \in z.held
      BY <3>1 DEF Rests
    <3>3. "key" \in Firm
      BY DEF Firm
    <3>4. p \notin x.removed
      BY <3>2, <3>3, AloneExcludes
    <3>5. p \in z.added
      BY <2>3, <3>2, <3>4 DEF Sees
    <3> QED BY <2>3, <3>3, <3>5, AloneExcludes DEF Rests
  <2> QED BY <2>1, <2>2, <2>3 DEF Settled
<1> QED BY <1>1, <1>2, Zenon DEF Cut

\* Then what was promised stays promised.
LEMMA PromisedStays ==
  ASSUME NEW l, NEW m, NEW x, \A p : Settled(l, x, p) => Settled(m, x, p),
         \A row : Cut(l, x, row) => Cut(m, x, row)
  PROVE  /\ \A p, j : Settles(l, x, p, j) => Settles(m, x, p, j)
         /\ \A row, i : Promised(l, x, row, i) => Promised(m, x, row, i)
<1>1. ASSUME NEW p, NEW j, Settles(l, x, p, j) PROVE Settles(m, x, p, j)
  BY <1>1, Zenon DEF Settles
<1>2. ASSUME NEW row, NEW j, Clears(l, x, row, j) PROVE Clears(m, x, row, j)
  <2>1. PICK p \in Parents(row) : Settles(l, x, p, j)
    BY <1>2, Zenon DEF Clears
  <2>2. Settles(m, x, p, j)
    BY <1>1, <2>1, Zenon
  <2>3. ASSUME j = 1, row \notin Sees(l, x) PROVE row \notin Sees(m, x)
    <3>1. Settled(l, x, p)
      BY <2>1, <2>3 DEF Settles
    <3> QED BY <2>3, <3>1, Zenon DEF Cut
  <2> QED BY <1>2, <2>2, <2>3, Zenon DEF Clears
<1> QED BY <1>1, <1>2, Zenon DEF Promised

\* An audience x has shared, of a tenant x has locked, stays as it is.
LEMMA AudienceStays ==
  ASSUME NEW l, NEW x, NEW z, Apart(x, z), Rests(l, z), \A row \in z.removed : Alone(z, row),
         Alone(x, organization), NEW locks, Shared(l, x, locks)
  PROVE  /\ Shared(Sees(l, z), x, locks)
         /\ Shared(l, x, x.held) => Reached(x.of, Sees(Sees(l, z), x)) = Reached(x.of, Sees(l, x))
<1> DEFINE m == Sees(l, z)
<1>1. \A u : organization \in Parents(Member(u)) /\ organization \in Parents(Assignment(u))
  BY ParentForms
<1>2. \A u : /\ Member(u) \in Sees(m, x) => Member(u) \in Sees(l, x)
             /\ Assignment(u) \in Sees(m, x) => Assignment(u) \in Sees(l, x)
  BY <1>1, SeenStays
<1>3. Reached(x.of, Sees(m, x)) \subseteq Reached(x.of, Sees(l, x))
  BY <1>2 DEF Reached
<1>4. AudienceRows(x.of, Sees(m, x)) \subseteq AudienceRows(x.of, Sees(l, x))
  BY <1>3, Zenon DEF AudienceRows
<1>5. ASSUME Shared(l, x, x.held), NEW u \in Reached(x.of, Sees(l, x))
      PROVE  u \in Reached(x.of, Sees(m, x))
  <2>1. "share" \in Firm
    BY DEF Firm
  <2>2. Member(u) \in AudienceRows(x.of, Sees(l, x))
    BY <1>5 DEF AudienceRows
  <2>3. Member(u) \in Sees(l, x) /\ Lock(Member(u), "share") \in x.held
    BY <1>5, <2>2 DEF Reached, Shared
  <2>4. Member(u) \in Sees(m, x)
    BY <2>1, <2>3, SeenStays, Zenon
  <2>5. CASE x.of = "group"
    <3>1. Assignment(u) \in AudienceRows(x.of, Sees(l, x))
      BY <1>5, <2>5 DEF AudienceRows
    <3>2. Assignment(u) \in Sees(l, x) /\ Lock(Assignment(u), "share") \in x.held
      BY <1>5, <2>5, <3>1 DEF Reached, Shared
    <3>3. Assignment(u) \in Sees(m, x)
      BY <2>1, <3>2, SeenStays, Zenon
    <3> QED BY <1>5, <2>4, <3>3 DEF Reached
  <2>6. CASE x.of # "group"
    BY <1>5, <2>4, <2>6 DEF Reached
  <2> QED BY <2>5, <2>6
<1> QED BY <1>3, <1>4, <1>5 DEF Shared

\* A revision x relies on is not moved, and a row it checked stays as it found it.
LEMMA CheckedStays ==
  ASSUME NEW l, NEW rev, NEW x, NEW z, Apart(x, z), Rests(l, z), Writes(l, x), Writes(l, z),
         z.next = <<>>, \A row \in z.removed : Alone(z, row),
         NEW next, \A row \in Rows : row \notin Written(z) => next[row] = rev[row]
  PROVE  /\ \A row \in Rows : Guarded(x, row) /\ row \in Sees(l, x) =>
              next[row] = rev[row] /\ row \in Sees(Sees(l, z), x)
         /\ \A row \in Rows : Checked(l, rev, x, row) => Checked(Sees(l, z), next, x, row)
<1>1. ASSUME NEW row \in Rows, Guarded(x, row), row \in Sees(l, x) PROVE row \notin Written(z)
  <2>1. "update" \in Firm /\ "nokey" \in Firm
    BY DEF Firm
  <2>2. row \in z.removed \cup z.changed => Alone(z, row) \/ Lock(row, "nokey") \in z.held
    BY Zenon DEF Writes
  <2>3. ASSUME row \in Written(z), row = capability PROVE Alone(z, organization)
    BY <2>3 DEF Writes
  <2>4. row \notin z.added
    <3>1. ~(Lock(row, "insert") \in x.held /\ Lock(row, "insert") \in z.held)
      BY InsertExcludes
    <3> QED BY <1>1, <3>1 DEF Writes, Sees
  <2> QED BY <1>1, <2>1, <2>2, <2>3, <2>4, AloneExcludes DEF Guarded, Alone, Written
<1>2. ASSUME NEW row \in Rows, Guarded(x, row), row \in Sees(l, x) PROVE row \in Sees(Sees(l, z), x)
  BY <1>1, <1>2 DEF Sees, Written
<1>3. ASSUME NEW row \in Rows, Checked(l, rev, x, row) PROVE Checked(Sees(l, z), next, x, row)
  <2>1. CASE row \in Sees(l, x) /\ x.expected = {{rev[row]}} /\ Guarded(x, row)
    BY <1>1, <1>2, <2>1 DEF Checked
  <2>2. CASE row \notin Sees(l, x) /\ \E q \in Parents(row) : Alone(x, q)
    BY <2>2, SeenStays DEF Checked
  <2> QED BY <1>3, <2>1, <2>2 DEF Checked
<1> QED BY <1>1, <1>2, <1>3

\* So what z commits leaves x as it should be.
LEMMA CommitOfAnother ==
  ASSUME NEW l, NEW rv, NEW rev, NEW x \in Asking, NEW z \in Asking, Apart(x, z),
         Fine(l, rv, rev, x), Fine(l, rv, rev, z), z.next = <<>>,
         NEW rv2, \A u : u \in rv2 => u \in rv \/ (z.name = "remove" /\ u = z.of),
         NEW next, \A row \in Rows : row \notin Written(z) => next[row] = rev[row]
  PROVE  Fine(Sees(l, z), rv2, next, x)
<1> DEFINE m == Sees(l, z)
<1>0. /\ Rests(l, z) /\ \A row \in z.removed : Alone(z, row)
      /\ \A row \in x.removed : Alone(x, row)
  BY DEF Fine, Erases
<1>1. /\ \A p : Settled(l, x, p) => Settled(m, x, p)
      /\ \A row : Cut(l, x, row) => Cut(m, x, row)
  BY <1>0, SettledStays
<1>2. /\ \A p, j : Settles(l, x, p, j) => Settles(m, x, p, j)
      /\ \A row, i : Promised(l, x, row, i) => Promised(m, x, row, i)
  BY <1>1, PromisedStays
<1>3. Rests(m, x)
  <2>1. "key" \in Firm
    BY DEF Firm
  <2>2. \A row : \A n \in Firm :
          Lock(row, n) \in x.held /\ row \in Sees(l, x) => row \in Sees(m, x)
    BY <1>0, SeenStays
  <2> QED BY <2>1, <2>2, Zenon DEF Fine, Rests
<1>4. Erases(m, x)
  <2>1. ASSUME NEW row \in Rows, Parents(row) \cap x.removed # {} PROVE row \notin Sees(m, x)
    BY <1>0, <2>1, SeenStays DEF Fine, Erases
  <2> QED BY <1>2, <2>1, Zenon DEF Fine, Erases
<1>5. Revokes(m, x)
  BY <1>2, Zenon DEF Fine, Revokes
<1>6. Assigns(rv2, x)
  <2>1. ASSUME NEW u, Standing(rv, x, u) PROVE Standing(rv2, x, u)
    <3>1. z.name = "remove" => Alone(z, organization)
      BY DEF Fine, Revokes, OfTenant
    <3>2. z.name # "remove"
      <4>1. "update" \in Firm
        BY DEF Firm
      <4> QED BY <2>1, <3>1, <4>1, AloneExcludes DEF Standing, Alone
    <3> QED BY <2>1, <3>2 DEF Standing
  <2> QED BY <2>1, Zenon DEF Fine, Assigns
<1>7. Hears(m, x)
  <2>1. ASSUME x.name \in Audited, x.next = <<>>
        PROVE  x.seen = Reached(x.of, Sees(m, x)) /\ Shared(m, x, x.held)
    <3>1. Alone(x, organization) /\ x.seen = Reached(x.of, Sees(l, x)) /\ Shared(l, x, x.held)
      BY <2>1 DEF Fine, Hears, OfTenant
    <3> QED BY <1>0, <3>1, AudienceStays
  <2>2. ASSUME x.next[1].do = "audience", x.started PROVE Shared(m, x, x.pending \cup x.held)
    <3>1. x.next # <<>> /\ 1 \in DOMAIN x.next
      BY <2>2, FirstStatement DEF Fine, Waits
    <3>2. Alone(x, organization)
      BY <2>2, <3>1 DEF Fine, Hears, OfTenant, Takes, Statement
    <3>3. Shared(l, x, x.pending \cup x.held)
      BY <2>2 DEF Fine, Hears
    <3> QED BY <1>0, <3>2, <3>3, AudienceStays
  <2> QED BY <2>1, <2>2, Zenon DEF Fine, Hears
<1>8. Writes(m, x)
  <2>1. ASSUME NEW row \in x.added PROVE row \notin m
    <3>1. Lock(row, "insert") \in x.held /\ row \notin l
      BY DEF Fine, Writes
    <3>2. row \notin z.added
      BY <3>1, InsertExcludes DEF Fine, Writes
    <3> QED BY <3>1, <3>2 DEF Sees
  <2> QED BY <2>1, Zenon DEF Fine, Writes
<1>9. Matches(m, next, x)
  <2>1. /\ \A row \in Rows : Guarded(x, row) /\ row \in Sees(l, x) =>
             next[row] = rev[row] /\ row \in Sees(m, x)
        /\ \A row \in Rows : Checked(l, rev, x, row) => Checked(m, next, x, row)
    BY <1>0, CheckedStays DEF Fine
  <2>2. \A row, j : Asks(l, x, row, j) => Asks(m, x, row, j)
    BY <1>2, Zenon DEF Asks
  <2>3. x.changed \subseteq Rows /\ \A i \in DOMAIN x.next : x.next[i].rows \subseteq Rows
    BY DEF Asking, Statements
  <2>4. ASSUME x.expected # {}, NEW row \in x.changed
        PROVE  row \in Sees(m, x) /\ x.expected = {{next[row]}} /\ Guarded(x, row)
    BY <2>1, <2>3, <2>4 DEF Fine, Matches
  <2>5. ASSUME x.expected # {}, NEW i \in DOMAIN x.next, x.next[i].do \in {"change", "upsert"},
               NEW row \in x.next[i].rows
        PROVE  Checked(m, next, x, row) \/ \E j \in 1..(i - 1) : Asks(m, x, row, j)
    <3>1. Checked(l, rev, x, row) \/ \E j \in 1..(i - 1) : Asks(l, x, row, j)
      BY <2>5, Zenon DEF Fine, Matches
    <3> QED BY <2>1, <2>2, <2>3, <3>1, Zenon
  <2> QED BY <2>4, <2>5, Zenon DEF Fine, Matches
<1> QED BY <1>3, <1>4, <1>5, <1>6, <1>7, <1>8, <1>9, Zenon DEF Fine

(***************************************************************************)
(* What a statement needs                                                  *)
(***************************************************************************)
\* The rows a statement touches are rows.
LEMMA TouchedForms ==
  ASSUME NEW rows \in SUBSET Rows
  PROVE  /\ Touched(rows) \subseteq Rows
         /\ \A k \in Clients : Link(k) \in rows => Parents(Link(k)) \subseteq Touched(rows)
         /\ \A p \in Touched(rows) : \E k \in Clients : Link(k) \in rows /\ p \in Parents(Link(k))
<1>1. \A row \in rows : row[1] = "link" => \E k \in Clients : row = Link(k)
  BY DEF Rows, Tables, Link
<1>2. \A k \in Clients : Link(k)[1] = "link"
  BY DEF Link
<1>3. Touched(rows) \subseteq Rows
  BY ParentsAreRows DEF Touched
<1> QED BY <1>1, <1>2, <1>3 DEF Touched

\* What each kind of statement locks.
LEMMA NeedForms ==
  ASSUME NEW c \in Commands, command[c] \in Asking, live \subseteq Rows,
         command[c].next # <<>>, NEW st, st = command[c].next[1]
  PROVE  /\ Needs(c) \subseteq Locks
         /\ st.do \in Inserts =>
              /\ \A row \in st.rows \ Visible(c) :
                   /\ Lock(row, "insert") \in Needs(c)
                   /\ \A p \in Parents(row) : Lock(p, "key") \in Needs(c)
              /\ st.rows \subseteq Visible(c) => Needs(c) = {}
         /\ st.do \in {"take", "hold", "change", "delete"} =>
              \A row \in st.rows \cap Visible(c) : Lock(row, st.mode) \in Needs(c)
         /\ st.do \in {"take", "hold", "change"} /\ st.rows \cap Visible(c) = {} => Needs(c) = {}
         /\ st.do = "audience" =>
              \A row \in AudienceRows(command[c].of, Visible(c)) : Lock(row, "share") \in Needs(c)
         /\ \A k \in Clients, m \in {"update", "insert"} : Lock(Link(k), m) \in Needs(c) =>
              \A p \in Parents(Link(k)) : Lock(p, "nokey") \in Needs(c)
<1> DEFINE x == command[c]
           rows == st.rows \cap Visible(c)
           fresh == IF st.do \in Inserts THEN st.rows \ Visible(c) ELSE {}
           keys == {Lock(p, "key") : p \in UNION {Parents(row) : row \in fresh}}
           own == {Lock(row, st.mode) : row \in
                    CASE st.do \in {"take", "hold", "change", "delete"} -> rows
                      [] st.do = "audience" -> AudienceRows(x.of, Visible(c))
                      [] OTHER -> {}}
           news == {Lock(row, "insert") : row \in fresh}
           touched == {Lock(row, "nokey") : row \in
                        Touched(IF st.do = "delete" THEN rows ELSE fresh)}
<1>0. st \in Statements /\ Current(c) = st
  BY FirstStatement DEF Current
<1>1. Needs(c) = keys \cup own \cup news \cup touched
  BY <1>0 DEF Needs
<1>2. st.rows \subseteq Rows /\ rows \subseteq Rows /\ fresh \subseteq Rows /\ Sound(st)
  BY <1>0 DEF Statements
<1>3. Inserts \cap {"take", "hold", "change", "delete", "audience"} = {}
  BY DEF Inserts
<1>4. /\ st.do \in {"take", "hold", "change", "delete"} => own = {Lock(row, st.mode) : row \in rows}
      /\ st.do = "audience" =>
           own = {Lock(row, st.mode) : row \in AudienceRows(x.of, Visible(c))}
      /\ st.do \notin {"take", "hold", "change", "delete", "audience"} => own = {}
  OBVIOUS
<1>5. Touched({}) = {}
  BY DEF Touched
<1>6. AudienceRows(x.of, Visible(c)) \subseteq Rows
  BY RowForms DEF AudienceRows, Reached
<1>7. /\ {"key", "nokey", "share", "update", "insert"} = Modes
      /\ {"key", "nokey", "share", "update"} = Firm /\ Firm \subseteq Modes
  BY DEF Modes, Firm
<1>8. Needs(c) \subseteq Locks
  <2>1. keys \subseteq Locks
    <3>1. UNION {Parents(row) : row \in fresh} \subseteq Rows
      BY <1>2, ParentsAreRows
    <3> QED BY <3>1, <1>7, LockForms
  <2>2. touched \subseteq Locks
    <3>1. Touched(IF st.do = "delete" THEN rows ELSE fresh) \subseteq Rows
      BY <1>2, TouchedForms
    <3>2. \A row \in Touched(IF st.do = "delete" THEN rows ELSE fresh) :
             Lock(row, "nokey") \in Locks
      BY <3>1, <1>7, LockForms
    <3> QED BY <3>2
  <2>3. own \subseteq Locks
    <3>1. CASE st.do \in {"take", "hold", "change", "delete"}
      <4>1. st.mode \in Modes
        BY <1>2, <1>7, <3>1 DEF Sound
      <4> QED BY <1>2, <1>4, <3>1, <4>1, LockForms
    <3>2. CASE st.do = "audience"
      <4>1. st.mode \in Modes
        BY <1>2, <1>7, <3>2 DEF Sound
      <4> QED BY <1>4, <1>6, <3>2, <4>1, LockForms
    <3>3. CASE st.do \notin {"take", "hold", "change", "delete", "audience"}
      BY <1>4, <3>3
    <3> QED BY <3>1, <3>2, <3>3
  <2>4. news \subseteq Locks
    BY <1>2, <1>7, LockForms
  <2> QED BY <1>1, <2>1, <2>2, <2>3, <2>4
<1>9. ASSUME st.do \in Inserts
      PROVE  /\ \A row \in st.rows \ Visible(c) :
                  /\ Lock(row, "insert") \in Needs(c)
                  /\ \A p \in Parents(row) : Lock(p, "key") \in Needs(c)
             /\ st.rows \subseteq Visible(c) => Needs(c) = {}
  <2>1. fresh = st.rows \ Visible(c) /\ st.do # "delete"
    BY <1>3, <1>9
  <2>2. own = {}
    BY <1>3, <1>4, <1>9
  <2>3. st.rows \subseteq Visible(c) => keys = {} /\ news = {} /\ touched = {}
    BY ZenonT(30), <1>5, <2>1, <2>2
  <2> QED BY ZenonT(30), <1>1, <2>1, <2>2, <2>3
<1>10. st.do \in {"take", "hold", "change", "delete"} =>
         \A row \in st.rows \cap Visible(c) : Lock(row, st.mode) \in Needs(c)
  BY <1>1, <1>4
<1>11. ASSUME st.do \in {"take", "hold", "change"}, st.rows \cap Visible(c) = {}
       PROVE  Needs(c) = {}
  <2>1. fresh = {} /\ rows = {} /\ st.do # "delete"
    BY <1>3, <1>11
  <2>2. own = {}
    BY <1>4, <1>11, <2>1
  <2>3. touched = {} /\ keys = {} /\ news = {}
    BY <1>5, <2>1
  <2> QED BY <1>1, <2>2, <2>3
<1>12. ASSUME st.do = "audience", NEW row \in AudienceRows(x.of, Visible(c))
       PROVE  Lock(row, "share") \in Needs(c)
  <2>1. st.mode = "share"
    BY <1>2, <1>12 DEF Sound
  <2> QED BY <1>1, <1>4, <1>12, <2>1
<1>13. ASSUME NEW k \in Clients, NEW m \in {"update", "insert"}, Lock(Link(k), m) \in Needs(c),
              NEW p \in Parents(Link(k))
       PROVE  Lock(p, "nokey") \in Needs(c)
  <2>0. Link(k) \in Rows /\ m \in Modes
    BY RowForms, <1>7
  <2>1. Lock(Link(k), m) \in own \cup news
    <3>1. \A row : Lock(Link(k), m) # Lock(row, "key") /\ Lock(Link(k), m) # Lock(row, "nokey")
      BY <2>0, LockForms
    <3> QED BY SMTT(30), <1>1, <1>13, <3>1
  <2>2. CASE Lock(Link(k), m) \in own
    <3>1. PICK row : Lock(Link(k), m) = Lock(row, st.mode)
                     /\ row \in CASE st.do \in {"take", "hold", "change", "delete"} -> rows
                                  [] st.do = "audience" -> AudienceRows(x.of, Visible(c))
                                  [] OTHER -> {}
      BY <2>2
    <3>2. row = Link(k) /\ st.mode = m
      BY <2>0, <3>1, LockForms
    <3>3. CASE st.do = "delete"
      <4>1. Link(k) \in rows
        BY <3>1, <3>2, <3>3
      <4>2. p \in Touched(rows)
        BY <1>2, <1>13, <4>1, TouchedForms
      <4> QED BY <1>1, <3>3, <4>2
    <3>4. CASE st.do \in {"take", "hold"}
      BY <1>2, <3>1, <3>2, <3>4 DEF Sound
    <3>5. CASE st.do = "change"
      BY <1>2, <3>2, <3>5 DEF Sound
    <3>6. CASE st.do = "audience"
      BY <1>2, <3>2, <3>6 DEF Sound
    <3>7. st.do \in {"take", "hold", "change", "delete", "audience"}
      BY <1>4, <2>2
    <3> QED BY <3>3, <3>4, <3>5, <3>6, <3>7
  <2>3. CASE Lock(Link(k), m) \in news
    <3>1. PICK row \in fresh : Lock(Link(k), m) = Lock(row, "insert")
      BY <2>3
    <3>2. Link(k) \in fresh
      BY <2>0, <3>1, LockForms
    <3>3. st.do # "delete"
      BY <1>3, <3>2
    <3>4. p \in Touched(fresh)
      BY <1>2, <1>13, <3>2, TouchedForms
    <3> QED BY <1>1, <3>3, <3>4
  <2> QED BY <2>1, <2>2, <2>3
<1> QED BY <1>8, <1>9, <1>10, <1>11, <1>12, <1>13

(***************************************************************************)
(* A command starts a statement, or gets a lock                            *)
(***************************************************************************)
\* Locks only add to what is settled.
LEMMA MoreLocks ==
  ASSUME NEW l, NEW x \in Asking, NEW y \in Asking,
         y.next = x.next, y.added = x.added, y.removed = x.removed, x.held \subseteq y.held,
         x.pending \cup x.held \subseteq y.pending \cup y.held,
         y.started /\ y.next[1].do = "delete" =>
           x.started \/ \A row \in y.next[1].rows :
                          row \notin Sees(l, y) \/ Lock(row, "update") \in y.pending \cup y.held
  PROVE  /\ \A row : Alone(x, row) => Alone(y, row)
         /\ \A p, j : Settles(l, x, p, j) => Settles(l, y, p, j)
         /\ \A row, i : Promised(l, x, row, i) => Promised(l, y, row, i)
<1>1. \A row : Alone(x, row) => Alone(y, row)
  BY DEF Alone
<1>2. Sees(l, y) = Sees(l, x)
  BY DEF Sees
<1>3. \A p : Settled(l, x, p) => Settled(l, y, p)
  BY <1>1, <1>2, Zenon DEF Settled
<1>4. \A g, do, p : Takes(x, g, do, p) <=> Takes(y, g, do, p)
  BY Zenon DEF Takes
<1>5. \A p, j : Settles(l, x, p, j) => Settles(l, y, p, j)
  BY <1>1, <1>3, <1>4, Zenon DEF Settles
<1>6. ASSUME NEW row, NEW j, Clears(l, x, row, j) PROVE Clears(l, y, row, j)
  <2>1. /\ y.next[j].do \in {"delete", "free"} /\ row \in y.next[j].rows
        /\ \E p \in Parents(row) : Settles(l, y, p, j)
    BY <1>5, <1>6, Zenon DEF Clears
  <2>2. ASSUME j = 1, y.started, y.next[j].do = "delete"
        PROVE  row \notin Sees(l, y) \/ Lock(row, "update") \in y.pending \cup y.held
    <3>1. CASE x.started
      BY <1>2, <1>6, <2>2, <3>1 DEF Clears
    <3>2. CASE ~x.started
      BY <1>6, <2>2, <3>2 DEF Clears
    <3> QED BY <3>1, <3>2
  <2> QED BY <2>1, <2>2, Zenon DEF Clears
<1>7. \A row : Cut(l, x, row) => Cut(l, y, row)
  BY <1>2, <1>3, Zenon DEF Cut
<1> QED BY <1>1, <1>5, <1>6, <1>7, Zenon DEF Promised

\* A command that only gets more locks goes on as it should.
LEMMA OwnLocks ==
  ASSUME NEW l, NEW rv, NEW rev, NEW x \in Asking, NEW y \in Asking, Fine(l, rv, rev, x),
         y.name = x.name, y.of = x.of, y.expected = x.expected, y.next = x.next,
         y.added = x.added, y.removed = x.removed, y.changed = x.changed, y.seen = x.seen,
         x.next # <<>>, x.held \subseteq y.held,
         x.pending \cup x.held \subseteq y.pending \cup y.held,
         Waits(y),
         y.started /\ y.next[1].do = "delete" =>
           x.started \/ \A row \in y.next[1].rows :
                          row \notin Sees(l, y) \/ Lock(row, "update") \in y.pending \cup y.held,
         y.started /\ y.next[1].do = "audience" =>
           x.started \/ Shared(l, y, y.pending \cup y.held),
         \A k \in Clients, m \in {"update", "insert"} :
           Lock(Link(k), m) \in y.pending \cup y.held =>
             \A p \in Parents(Link(k)) : Lock(p, "nokey") \in y.pending \cup y.held
  PROVE  Fine(l, rv, rev, y)
<1>1. /\ \A row : Alone(x, row) => Alone(y, row)
      /\ \A p, j : Settles(l, x, p, j) => Settles(l, y, p, j)
      /\ \A row, i : Promised(l, x, row, i) => Promised(l, y, row, i)
  BY MoreLocks
<1>2. Sees(l, y) = Sees(l, x)
  BY DEF Sees
<1>3. \A g, do, p : Takes(x, g, do, p) <=> Takes(y, g, do, p)
  BY Zenon DEF Takes
<1>4. OfTenant(x) => OfTenant(y)
  BY <1>1, <1>3, Zenon DEF OfTenant
<1>5. OneWay(y)
  BY Zenon DEF Fine, OneWay, Without
<1>6. Rests(l, y)
  BY <1>2 DEF Fine, Rests
<1>7. Erases(l, y)
  BY <1>1, <1>2, Zenon DEF Fine, Erases
<1>8. Revokes(l, y)
  BY <1>1, <1>4, Zenon DEF Fine, Revokes, Without
<1>9. Assigns(rv, y)
  BY <1>1, <1>4, ZenonT(30) DEF Fine, Assigns, Standing
<1>10. Hears(l, y)
  <2>1. \A locks : Shared(l, x, locks) <=> Shared(l, y, locks)
    BY <1>2, Zenon DEF Shared
  <2>2. ASSUME y.next[1].do = "audience", y.started PROVE Shared(l, y, y.pending \cup y.held)
    <3>1. CASE x.started
      BY <1>2, <2>2, <3>1 DEF Fine, Hears, Shared
    <3> QED BY <2>2, <3>1
  <2> QED BY <1>1, <1>4, <2>2, Zenon DEF Fine, Hears
<1>11. Writes(l, y)
  <2>1. Written(y) = Written(x)
    BY DEF Written
  <2>2. \A row \in y.changed : Alone(y, row) \/ Lock(row, "nokey") \in y.held
    BY <1>1 DEF Fine, Writes
  <2> QED BY <1>1, <1>4, <2>1, <2>2, Zenon DEF Fine, Writes
<1>12. Matches(l, rev, y)
  <2>1. \A row : Guarded(x, row) => Guarded(y, row)
    BY <1>1, Zenon DEF Guarded
  <2>2. \A row : Checked(l, rev, x, row) => Checked(l, rev, y, row)
    BY <1>1, <1>2, <2>1, Zenon DEF Checked
  <2>3. \A row, j : Asks(l, x, row, j) => Asks(l, y, row, j)
    BY <1>1, <1>3, Zenon DEF Asks
  <2> QED BY <1>2, <2>1, <2>2, <2>3, Zenon DEF Fine, Matches, Without
<1> QED BY <1>5, <1>6, <1>7, <1>8, <1>9, <1>10, <1>11, <1>12, Zenon DEF Fine

\* A statement that starts.
LEMMA StartKeeps ==
  ASSUME Typed, NEW c \in Commands, Fine(live, revoked, revision, command[c]), Start(c)
  PROVE  /\ command'[c] \in Asking /\ command'[c].held = command[c].held
         /\ Fine(live, revoked, revision, command'[c])
<1> DEFINE x == command[c]
<1>0. PICK y : y = command'[c]
  OBVIOUS
<1>1. x \in Asking /\ live \subseteq Rows
  BY DEF Typed
<1>2. x.next # <<>> /\ ~x.started /\ Needs(c) \ x.held # {}
  BY DEF Start
<1>3. y = [x EXCEPT !.started = TRUE, !.pending = Needs(c) \ x.held]
  BY <1>0 DEF Start, Typed
<1>4. PICK st : st = x.next[1]
  OBVIOUS
<1>5. Needs(c) \subseteq Locks
  BY <1>1, <1>2, <1>4, NeedForms
<1>6. y \in Asking
  BY <1>1, <1>3, <1>5 DEF Asking
<1>7. /\ y.name = x.name /\ y.of = x.of /\ y.expected = x.expected /\ y.next = x.next
      /\ y.added = x.added /\ y.removed = x.removed /\ y.changed = x.changed /\ y.seen = x.seen
      /\ y.held = x.held /\ y.started = TRUE /\ y.pending = Needs(c) \ x.held
  BY <1>1, <1>3 DEF Asking
<1>8. x.pending = {} /\ y.pending \cup y.held = Needs(c) \cup x.held
  BY <1>2, <1>7 DEF Fine, Waits
<1>9. Visible(c) = Sees(live, x) /\ Sees(live, y) = Sees(live, x)
  BY <1>7 DEF Visible, Sees
<1>10. st \in Statements
  BY <1>1, <1>2, <1>4, FirstStatement
<1>11. ASSUME st.do \in Inserts, NEW row \in st.rows
       PROVE  /\ Lock(row, "insert") \in y.pending \cup y.held
              /\ \A p \in Parents(row) : Lock(p, "key") \in y.pending \cup y.held
  <2>1. PICK other : st.rows = {other}
    BY <1>10, <1>11 DEF Statements, Sound
  <2>2. ~(st.rows \subseteq Visible(c))
    BY <1>1, <1>2, <1>4, <1>11, NeedForms
  <2>3. row \in st.rows \ Visible(c)
    BY <1>11, <2>1, <2>2
  <2> QED BY <1>1, <1>2, <1>4, <1>8, <1>11, <2>3, NeedForms
<1>12. ASSUME st.do \in {"take", "hold", "change"}, NEW row \in st.rows
       PROVE  Lock(row, st.mode) \in y.pending \cup y.held
  <2>1. PICK other : st.rows = {other}
    BY <1>10, <1>12 DEF Statements, Sound
  <2>2. st.rows \cap Visible(c) # {}
    BY <1>1, <1>2, <1>4, <1>12, NeedForms
  <2>3. row \in st.rows \cap Visible(c)
    BY <1>12, <2>1, <2>2
  <2> QED BY <1>1, <1>2, <1>4, <1>8, <1>12, <2>3, NeedForms
<1>13. Waits(y)
  BY <1>2, <1>4, <1>7, <1>11, <1>12 DEF Waits
<1>14. ASSUME st.do = "delete", NEW row \in st.rows
       PROVE  row \notin Sees(live, y) \/ Lock(row, "update") \in y.pending \cup y.held
  <2>1. st.mode = "update"
    BY <1>10, <1>14 DEF Statements, Sound
  <2> QED BY <1>1, <1>2, <1>4, <1>8, <1>9, <1>14, <2>1, NeedForms
<1>15. ASSUME st.do = "audience" PROVE Shared(live, y, y.pending \cup y.held)
  BY <1>1, <1>2, <1>4, <1>7, <1>8, <1>9, <1>15, NeedForms DEF Shared
<1>16. ASSUME NEW k \in Clients, NEW m \in {"update", "insert"},
              Lock(Link(k), m) \in y.pending \cup y.held, NEW p \in Parents(Link(k))
       PROVE  Lock(p, "nokey") \in y.pending \cup y.held
  <2>1. CASE Lock(Link(k), m) \in Needs(c)
    BY <1>1, <1>2, <1>4, <1>8, <1>16, <2>1, NeedForms
  <2>2. CASE Lock(Link(k), m) \in x.held
    BY <1>8, <1>16, <2>2 DEF Fine, Writes
  <2> QED BY <1>8, <1>16, <2>1, <2>2
<1>17. x.held \subseteq y.held /\ x.pending \cup x.held \subseteq y.pending \cup y.held
  BY <1>7, <1>8
<1>18. Fine(live, revoked, revision, y)
  BY <1>1, <1>2, <1>4, <1>6, <1>7, <1>13, <1>14, <1>15, <1>16, <1>17, OwnLocks
<1> QED BY <1>0, <1>6, <1>7, <1>18

\* A lock that is got.
LEMMA AcquireKeeps ==
  ASSUME Typed, NEW c \in Commands, Fine(live, revoked, revision, command[c]), Acquire(c)
  PROVE  /\ command'[c] \in Asking /\ Fine(live, revoked, revision, command'[c])
         /\ \A d \in Commands \ {c} :
              Apart(command[c], command[d]) => Apart(command'[c], command[d])
<1> DEFINE x == command[c]
<1>0. PICK y : y = command'[c]
  OBVIOUS
<1>1. x \in Asking
  BY DEF Typed
<1>2. PICK lock \in x.pending :
        Blockers(c, lock) = {} /\ y = [x EXCEPT !.pending = @ \ {lock}, !.held = @ \cup {lock}]
  BY <1>0 DEF Acquire, Typed
<1>3. y \in Asking
  BY <1>1, <1>2 DEF Asking
<1>4. /\ y.name = x.name /\ y.of = x.of /\ y.expected = x.expected /\ y.next = x.next
      /\ y.added = x.added /\ y.removed = x.removed /\ y.changed = x.changed /\ y.seen = x.seen
      /\ y.held = x.held \cup {lock} /\ y.started = x.started /\ y.pending = x.pending \ {lock}
  BY <1>1, <1>2 DEF Asking
<1>5. y.pending \cup y.held = x.pending \cup x.held /\ x.held \subseteq y.held
  BY <1>4
<1>6. Waits(y) /\ x.started /\ x.next # <<>>
  BY <1>2, <1>4, <1>5 DEF Fine, Waits
<1>7. \A k \in Clients, m \in {"update", "insert"} :
        Lock(Link(k), m) \in y.pending \cup y.held =>
          \A p \in Parents(Link(k)) : Lock(p, "nokey") \in y.pending \cup y.held
  BY <1>5, Zenon DEF Fine, Writes
<1>8. Fine(live, revoked, revision, y)
  BY <1>1, <1>3, <1>4, <1>5, <1>6, <1>7, OwnLocks
<1>9. ASSUME NEW d \in Commands \ {c}, Apart(x, command[d]) PROVE Apart(y, command[d])
  <2>1. \A b \in command[d].held : ~Excludes(b, lock)
    BY <1>2 DEF Blockers
  <2>2. \A b : {b.mode, lock.mode} = {lock.mode, b.mode}
    OBVIOUS
  <2>3. \A b \in command[d].held : ~Excludes(lock, b)
    BY <2>1, <2>2, Zenon DEF Excludes
  <2> QED BY <1>4, <1>9, <2>3, Zenon DEF Apart
<1> QED BY <1>0, <1>3, <1>8, <1>9

(***************************************************************************)
(* A command finishes a statement                                          *)
(***************************************************************************)
Fresh(c) == IF Current(c).do \in Inserts THEN Current(c).rows \ Visible(c) ELSE {}
Worked(c) == {row \in Current(c).rows : Holds(c, row, Current(c).mode)}
Gone(c) == IF Current(c).do = "delete" THEN Worked(c) ELSE {}

\* What is ready to be finished has its locks.
LEMMA ReadyForms ==
  ASSUME Typed, NEW c \in Commands, Fine(live, revoked, revision, command[c]), Ready(c)
  PROVE  /\ command[c].next # <<>> /\ command[c].pending = {}
         /\ Current(c) = command[c].next[1] /\ Current(c) \in Statements
         /\ \A row \in Fresh(c) : /\ Lock(row, "insert") \in command[c].held
                                  /\ \A p \in Parents(row) : Lock(p, "key") \in command[c].held
         /\ Current(c).do \in {"take", "hold", "change"} =>
              \A row \in Current(c).rows \cap Visible(c) :
                Lock(row, Current(c).mode) \in command[c].held
         /\ Current(c).do = "delete" /\ ~command[c].started =>
              \A row \in Current(c).rows \cap Visible(c) : Alone(command[c], row)
         /\ Current(c).do = "audience" => Shared(live, command[c], command[c].held)
<1> DEFINE x == command[c]
           st == Current(c)
<1>1. x \in Asking /\ live \subseteq Rows
  BY DEF Typed
<1>2. x.next # <<>> /\ x.pending = {} /\ (x.started \/ Needs(c) \subseteq x.held)
  BY DEF Ready
<1>3. st = x.next[1] /\ st \in Statements
  BY <1>1, <1>2, FirstStatement DEF Current
<1>4. Visible(c) = Sees(live, x)
  BY DEF Visible, Sees
<1>5. ASSUME NEW row \in Fresh(c)
      PROVE  Lock(row, "insert") \in x.held /\ \A p \in Parents(row) : Lock(p, "key") \in x.held
  <2>1. st.do \in Inserts /\ row \in st.rows \ Visible(c)
    BY <1>5 DEF Fresh
  <2>2. CASE x.started
    BY <1>2, <1>3, <2>1, <2>2 DEF Fine, Waits
  <2>3. CASE Needs(c) \subseteq x.held
    BY <1>1, <1>2, <1>3, <2>1, <2>3, NeedForms
  <2> QED BY <1>2, <2>2, <2>3
<1>6. ASSUME st.do \in {"take", "hold", "change"}, NEW row \in st.rows \cap Visible(c)
      PROVE  Lock(row, st.mode) \in x.held
  <2>1. CASE x.started
    BY <1>2, <1>3, <1>6, <2>1 DEF Fine, Waits
  <2>2. CASE Needs(c) \subseteq x.held
    BY <1>1, <1>2, <1>3, <1>6, <2>2, NeedForms
  <2> QED BY <1>2, <2>1, <2>2
<1>7. ASSUME st.do = "delete", ~x.started, NEW row \in st.rows \cap Visible(c)
      PROVE  Alone(x, row)
  <2>1. st.mode = "update"
    BY <1>3, <1>7 DEF Statements, Sound
  <2> QED BY <1>1, <1>2, <1>3, <1>7, <2>1, NeedForms DEF Alone
<1>8. ASSUME st.do = "audience" PROVE Shared(live, x, x.held)
  <2>1. CASE x.started
    BY <1>2, <1>3, <1>8, <2>1 DEF Fine, Hears, Shared
  <2>2. CASE Needs(c) \subseteq x.held
    BY <1>1, <1>2, <1>3, <1>4, <1>8, <2>2, NeedForms DEF Shared
  <2> QED BY <1>2, <2>1, <2>2
<1> QED BY <1>2, <1>3, <1>5, <1>6, <1>7, <1>8

\* What finishing a statement leaves.
LEMMA FinishForms ==
  ASSUME Typed, NEW c \in Commands, Finish(c), NEW y, y = command'[c]
  PROVE  /\ y \in Asking /\ Ready(c) /\ ~Refused(c)
         /\ y.name = command[c].name /\ y.of = command[c].of /\ y.expected = command[c].expected
         /\ y.next = Tail(command[c].next) /\ y.started = FALSE
         /\ y.pending = command[c].pending /\ y.held = command[c].held
         /\ y.added = command[c].added \cup Fresh(c) /\ y.removed = command[c].removed \cup Gone(c)
         /\ y.changed = command[c].changed \cup Touched(Fresh(c) \cup Gone(c))
                        \cup IF Current(c).do \in {"change", "upsert"} THEN Worked(c) ELSE {}
         /\ y.seen = IF Current(c).do = "audience"
                     THEN Reached(command[c].of, {row \in Rows : Holds(c, row, Current(c).mode)})
                     ELSE command[c].seen
         /\ Fresh(c) \subseteq Rows /\ Gone(c) \subseteq Rows
<1> DEFINE x == command[c]
           changed == x.changed \cup Touched(Fresh(c) \cup Gone(c))
                      \cup IF Current(c).do \in {"change", "upsert"} THEN Worked(c) ELSE {}
           seen == IF Current(c).do = "audience"
                   THEN Reached(x.of, {row \in Rows : Holds(c, row, Current(c).mode)}) ELSE x.seen
<1>1. x \in Asking /\ Ready(c) /\ ~Refused(c) /\ x.next # <<>>
  BY DEF Typed, Finish, Ready
<1>2. y = [x EXCEPT !.next = Tail(@), !.started = FALSE,
             !.added = @ \cup Fresh(c), !.removed = @ \cup Gone(c),
             !.changed = @ \cup Touched(Fresh(c) \cup Gone(c))
                           \cup IF Current(c).do \in {"change", "upsert"} THEN Worked(c) ELSE {},
             !.seen = IF Current(c).do = "audience"
                      THEN Reached(x.of, {row \in Rows : Holds(c, row, Current(c).mode)}) ELSE @]
  BY Zenon DEF Finish, Fresh, Gone, Worked, Typed
<1>3. Current(c) \in Statements /\ Tail(x.next) \in Seq(Statements)
  BY <1>1, FirstStatement DEF Current
<1>4. Fresh(c) \subseteq Rows /\ Gone(c) \subseteq Rows /\ Worked(c) \subseteq Rows
  BY <1>3 DEF Fresh, Gone, Worked, Statements
<1>5. changed \subseteq Rows
  <2>1. Fresh(c) \cup Gone(c) \in SUBSET Rows
    BY <1>4
  <2>2. Touched(Fresh(c) \cup Gone(c)) \subseteq Rows
    BY <2>1, TouchedForms
  <2> QED BY <1>1, <1>4, <2>2 DEF Asking
<1>6. seen \subseteq Users
  BY <1>1 DEF Asking, Reached
<1>7. /\ y.name = x.name /\ y.of = x.of /\ y.expected = x.expected
      /\ y.next = Tail(x.next) /\ y.started = FALSE /\ y.pending = x.pending /\ y.held = x.held
      /\ y.added = x.added \cup Fresh(c) /\ y.removed = x.removed \cup Gone(c)
      /\ y.changed = changed /\ y.seen = seen
  BY <1>1, <1>2 DEF Asking
<1>8. y \in Asking
  <2>1. y = [x EXCEPT !.next = y.next, !.started = FALSE, !.added = y.added,
               !.removed = y.removed, !.changed = y.changed, !.seen = y.seen]
    BY <1>1, <1>2, <1>7 DEF Asking
  <2>2. y.added \subseteq Rows /\ y.removed \subseteq Rows
    BY <1>1, <1>4, <1>7 DEF Asking
  <2> HIDE DEF changed, seen
  <2>3. y.changed \subseteq Rows /\ y.seen \subseteq Users /\ y.next \in Seq(Statements)
    BY <1>3, <1>5, <1>6, <1>7
  <2> QED BY ZenonT(30), <1>1, <2>1, <2>2, <2>3 DEF Asking
<1> QED BY <1>1, <1>4, <1>7, <1>8

\* A statement that inserts nothing brings each promise one statement closer.
LEMMA Advances ==
  ASSUME NEW l, NEW x \in Asking, NEW y \in Asking, x.next # <<>>, y.next = Tail(x.next),
         y.held = x.held, y.added = x.added, y.started = FALSE, Sees(l, y) \subseteq Sees(l, x),
         \A p : Takes(x, 1, "take", p) => Alone(x, p) /\ p \in Sees(l, x),
         \A p : Takes(x, 1, "hold", p) => p \notin Sees(l, x) \/ Alone(x, p),
         \A row \in x.next[1].rows :
           /\ x.next[1].do = "free" => row \notin Sees(l, x)
           /\ x.next[1].do = "delete"
              /\ (x.started =>
                    row \notin Sees(l, x) \/ Lock(row, "update") \in x.pending \cup x.held)
                => row \notin Sees(l, y)
  PROVE  /\ \A p : Settled(l, x, p) => Settled(l, y, p)
         /\ \A do, p : \A g \in 2..Len(x.next) : Takes(x, g, do, p) => Takes(y, g - 1, do, p)
         /\ \A p : \A j \in 2..(Len(x.next) + 1) : Settles(l, x, p, j) => Settles(l, y, p, j - 1)
         /\ \A row : \A i \in 2..(Len(x.next) + 1) :
              Promised(l, x, row, i) => Promised(l, y, row, i - 1)
<1>0. /\ Len(x.next) \in Nat \ {0} /\ Len(y.next) = Len(x.next) - 1
      /\ \A i \in 1..(Len(x.next) - 1) : y.next[i] = x.next[i + 1]
  BY FirstStatement
<1>1. \A row : Alone(y, row) <=> Alone(x, row)
  BY Zenon DEF Alone
<1>2. \A p : Settled(l, x, p) => Settled(l, y, p)
  BY <1>1 DEF Settled
<1>3. \A do, p : \A g \in 2..Len(x.next) : Takes(x, g, do, p) => Takes(y, g - 1, do, p)
  <2>1. ASSUME NEW g \in 2..Len(x.next) PROVE y.next[g - 1] = x.next[g]
    <3>1. g - 1 \in 1..(Len(x.next) - 1) /\ (g - 1) + 1 = g
      BY <1>0
    <3> QED BY <1>0, <3>1
  <2> QED BY <2>1 DEF Takes
<1>4. ASSUME NEW p, NEW j \in 2..(Len(x.next) + 1), Settles(l, x, p, j)
      PROVE  Settles(l, y, p, j - 1)
  <2>1. CASE Settled(l, x, p)
    BY <1>2, <2>1 DEF Settles
  <2>2. ASSUME NEW g \in 1..(j - 1), Takes(x, g, "take", p) PROVE Settles(l, y, p, j - 1)
    <3>1. CASE g = 1
      BY <1>1, <2>2, <3>1 DEF Settles, Settled, Sees
    <3>2. CASE g # 1
      <4>1. g \in 2..Len(x.next) /\ g - 1 \in 1..((j - 1) - 1)
        BY <1>0, <3>2
      <4> QED BY <1>3, <2>2, <4>1 DEF Settles
    <3> QED BY <3>1, <3>2
  <2>3. ASSUME NEW g \in 1..(j - 1), Takes(x, g, "hold", p), NEW q \in Parents(p),
               Alone(x, q) \/ \E h \in 1..(g - 1) : Takes(x, h, "take", q)
        PROVE  Settles(l, y, p, j - 1)
    <3>1. CASE g = 1
      <4>1. Alone(y, q)
        BY <1>1, <2>3, <3>1
      <4>2. p \notin Sees(l, y) \/ (Alone(y, p) /\ p \in l \cup y.added)
        BY <1>1, <2>3, <3>1 DEF Sees
      <4> QED BY <4>1, <4>2 DEF Settles, Settled
    <3>2. CASE g # 1
      <4>1. g \in 2..Len(x.next) /\ g - 1 \in 1..((j - 1) - 1)
        BY <1>0, <3>2
      <4>2. Takes(y, g - 1, "hold", p)
        BY <1>3, <2>3, <4>1
      <4>3. Alone(y, q) \/ \E h \in 1..((g - 1) - 1) : Takes(y, h, "take", q)
        <5>1. CASE Alone(x, q)
          BY <1>1, <5>1
        <5>2. ASSUME NEW h \in 1..(g - 1), Takes(x, h, "take", q)
              PROVE  Alone(y, q) \/ \E k \in 1..((g - 1) - 1) : Takes(y, k, "take", q)
          <6>1. CASE h = 1
            BY <1>1, <5>2, <6>1
          <6>2. CASE h # 1
            <7>1. h \in 2..Len(x.next) /\ h - 1 \in 1..((g - 1) - 1)
              BY <1>0, <6>2
            <7> QED BY <1>3, <5>2, <7>1
          <6> QED BY <6>1, <6>2
        <5> QED BY <2>3, <5>1, <5>2
      <4> QED BY <4>1, <4>2, <4>3 DEF Settles
    <3> QED BY <3>1, <3>2
  <2> QED BY <1>4, <2>1, <2>2, <2>3 DEF Settles
<1>5. \A row : Cut(l, x, row) => Cut(l, y, row)
  BY <1>2 DEF Cut
<1>6. ASSUME NEW row, Clears(l, x, row, 1) PROVE Cut(l, y, row)
  <2>1. PICK p \in Parents(row) : Settles(l, x, p, 1)
    BY <1>6 DEF Clears
  <2>2. Settled(l, y, p)
    BY <1>2, <2>1 DEF Settles
  <2>3. row \notin Sees(l, y)
    <3>1. CASE x.next[1].do = "free"
      BY <1>6, <3>1 DEF Clears
    <3>2. CASE x.next[1].do = "delete"
      BY <1>6, <3>2 DEF Clears
    <3> QED BY <1>6, <3>1, <3>2 DEF Clears
  <2> QED BY <2>2, <2>3 DEF Cut
<1>7. ASSUME NEW row, NEW j \in 2..Len(x.next), Clears(l, x, row, j) PROVE Clears(l, y, row, j - 1)
  <2>1. y.next[j - 1] = x.next[j]
    <3>1. j - 1 \in 1..(Len(x.next) - 1) /\ (j - 1) + 1 = j
      BY <1>0
    <3> QED BY <1>0, <3>1
  <2>2. \E p \in Parents(row) : Settles(l, y, p, j - 1)
    <3>1. j \in 2..(Len(x.next) + 1)
      BY <1>0
    <3> QED BY <1>4, <1>7, <3>1 DEF Clears
  <2> QED BY <1>7, <2>1, <2>2 DEF Clears
<1>8. ASSUME NEW row, NEW i \in 2..(Len(x.next) + 1), Promised(l, x, row, i)
      PROVE  Promised(l, y, row, i - 1)
  <2>1. CASE Cut(l, x, row)
    BY <1>5, <2>1 DEF Promised
  <2>2. ASSUME NEW j \in 1..(i - 1), Clears(l, x, row, j) PROVE Promised(l, y, row, i - 1)
    <3>1. CASE j = 1
      BY <1>6, <2>2, <3>1 DEF Promised
    <3>2. CASE j # 1
      <4>1. j \in 2..Len(x.next) /\ j - 1 \in 1..((i - 1) - 1)
        BY <1>0, <3>2
      <4> QED BY <1>7, <2>2, <4>1 DEF Promised
    <3> QED BY <3>1, <3>2
  <2> QED BY <1>8, <2>1, <2>2 DEF Promised
<1> QED BY <1>2, <1>3, <1>4, <1>8

\* What a command sees after each kind of statement.
LEMMA FinishSees ==
  ASSUME Typed, NEW c \in Commands, Fine(live, revoked, revision, command[c]), Finish(c),
         NEW y, y = command'[c], NEW x, x = command[c], NEW st, st = Current(c)
  PROVE  /\ \A row \in Gone(c) : row \in st.rows /\ Alone(x, row) /\ st.do = "delete"
         /\ st.do \notin Inserts => Fresh(c) = {} /\ Sees(live, y) \subseteq Sees(live, x)
         /\ st.do \in Inserts => /\ x.removed = {} /\ Gone(c) = {} /\ Without(x, {"delete"})
                                 /\ Sees(live, y) = Sees(live, x) \cup Fresh(c)
         /\ st.do \notin Inserts \cup {"delete"} => /\ Gone(c) = {} /\ Fresh(c) = {}
                                                    /\ Sees(live, y) = Sees(live, x)
         /\ st.do = "delete" => x.added = {} /\ Without(x, Inserts)
         /\ \A row \in Fresh(c) : Parents(row) \subseteq Sees(live, x)
         /\ \A p : Alone(y, p) <=> Alone(x, p)
         /\ OfTenant(x) /\ st.do # "take" => Alone(x, organization)
         /\ OfTenant(x) => Alone(y, organization)
<1>1. /\ y.added = x.added \cup Fresh(c) /\ y.removed = x.removed \cup Gone(c)
      /\ y.held = x.held /\ y.next = Tail(x.next) /\ Ready(c) /\ ~Refused(c)
  BY FinishForms
<1>2. x.next # <<>> /\ st = x.next[1] /\ 1 \in DOMAIN x.next /\ st \in Statements
  BY <1>1, ReadyForms, FirstStatement DEF Typed
<1>3. Inserts \cap {"take", "hold", "delete", "change", "audience", "free"} = {}
  BY DEF Inserts
<1>4. Visible(c) = Sees(live, x)
  BY DEF Visible, Sees
<1>5. ASSUME NEW row \in Gone(c) PROVE row \in st.rows /\ Alone(x, row) /\ st.do = "delete"
  <2>1. st.do = "delete" /\ row \in Worked(c)
    BY <1>5 DEF Gone
  <2>2. st.mode = "update"
    BY <1>2, <2>1 DEF Statements, Sound
  <2> QED BY <2>1, <2>2 DEF Worked, Holds, Alone
<1>6. st.do \notin Inserts => Fresh(c) = {} /\ Sees(live, y) \subseteq Sees(live, x)
  BY <1>1 DEF Fresh, Sees
<1>7. ASSUME st.do \in Inserts
      PROVE  /\ x.removed = {} /\ Gone(c) = {} /\ Without(x, {"delete"})
             /\ Sees(live, y) = Sees(live, x) \cup Fresh(c)
  <2>1. x.removed = {} /\ Without(x, {"delete"})
    BY <1>2, <1>7 DEF Fine, OneWay, Without
  <2>2. Gone(c) = {}
    BY <1>3, <1>7 DEF Gone
  <2> QED BY <1>1, <2>1, <2>2 DEF Sees
<1>8. st.do \notin Inserts \cup {"delete"} => /\ Gone(c) = {} /\ Fresh(c) = {}
                                              /\ Sees(live, y) = Sees(live, x)
  BY <1>1 DEF Fresh, Gone, Sees
<1>9. st.do = "delete" => x.added = {} /\ Without(x, Inserts)
  BY <1>2 DEF Fine, OneWay, Without
<1>10. ASSUME NEW row \in Fresh(c) PROVE Parents(row) \subseteq Sees(live, x)
  <2>1. st.do \in Inserts /\ row \in st.rows \ Visible(c)
    BY <1>10 DEF Fresh
  <2>2. st.rows = {row}
    BY <1>2, <2>1 DEF Statements, Sound
  <2>3. st.rows \cap Visible(c) = {}
    BY <2>1, <2>2
  <2>4. UNION {Parents(r) : r \in st.rows} = Parents(row)
    BY <2>2
  <2>5. UNION {Parents(r) : r \in st.rows} \subseteq Visible(c)
    <3>1. CASE st.do = "insert"
      BY <1>1, <3>1 DEF Refused
    <3>2. CASE st.do \in {"put", "upsert"}
      BY <1>1, <2>3, <3>2 DEF Refused
    <3> QED BY <2>1, <3>1, <3>2 DEF Inserts
  <2> QED BY <1>4, <2>4, <2>5
<1>11. \A p : Alone(y, p) <=> Alone(x, p)
  BY <1>1 DEF Alone
<1>12. OfTenant(x) /\ st.do # "take" => Alone(x, organization)
  BY <1>2 DEF OfTenant, Takes, Statement
<1>13. OfTenant(x) => Alone(y, organization)
  <2>1. ASSUME Takes(x, 1, "take", organization) PROVE Alone(x, organization)
    <3>1. st.do = "take" /\ st.rows = {organization} /\ st.mode = "update"
      BY <1>2, <2>1 DEF Takes, Statement
    <3>2. organization \in Visible(c)
      BY <1>1, <3>1 DEF Refused
    <3> QED BY <1>1, <3>1, <3>2, ReadyForms DEF Alone
  <2> QED BY <1>11, <2>1 DEF OfTenant
<1> QED BY <1>5, <1>6, <1>7, <1>8, <1>9, <1>10, <1>11, <1>12, <1>13

\* Finishing a statement that inserts nothing advances the command.
LEMMA FinishAdvances ==
  ASSUME Typed, NEW c \in Commands, Fine(live, revoked, revision, command[c]), Finish(c),
         NEW y, y = command'[c], NEW x, x = command[c], Current(c).do \notin Inserts
  PROVE  /\ \A p : Settled(live, x, p) => Settled(live, y, p)
         /\ \A do, p : \A g \in 2..Len(x.next) : Takes(x, g, do, p) => Takes(y, g - 1, do, p)
         /\ \A p : \A j \in 2..(Len(x.next) + 1) :
              Settles(live, x, p, j) => Settles(live, y, p, j - 1)
         /\ \A row : \A i \in 2..(Len(x.next) + 1) :
              Promised(live, x, row, i) => Promised(live, y, row, i - 1)
<1> DEFINE st == Current(c)
<1>1. /\ y.added = x.added \cup Fresh(c) /\ y.removed = x.removed \cup Gone(c)
      /\ y.held = x.held /\ y.next = Tail(x.next) /\ y.started = FALSE /\ Ready(c) /\ ~Refused(c)
      /\ x \in Asking /\ y \in Asking
  BY FinishForms DEF Typed
<1>2. x.next # <<>> /\ st = x.next[1] /\ st \in Statements /\ x.pending = {}
  BY <1>1, ReadyForms
<1>3. Sees(live, y) \subseteq Sees(live, x) /\ Visible(c) = Sees(live, x)
  BY FinishSees DEF Visible, Sees
<1>4. ASSUME NEW p, Takes(x, 1, "take", p) PROVE Alone(x, p) /\ p \in Sees(live, x)
  <2>1. st.do = "take" /\ st.rows = {p} /\ st.mode = "update"
    BY <1>2, <1>4 DEF Takes, Statement
  <2>2. p \in Visible(c)
    BY <1>1, <2>1 DEF Refused
  <2> QED BY <1>1, <1>3, <2>1, <2>2, ReadyForms DEF Alone
<1>5. ASSUME NEW p, Takes(x, 1, "hold", p) PROVE p \notin Sees(live, x) \/ Alone(x, p)
  <2>1. st.do = "hold" /\ st.rows = {p} /\ st.mode = "update"
    BY <1>2, <1>5 DEF Takes, Statement
  <2> QED BY <1>1, <1>3, <2>1, ReadyForms DEF Alone
<1>6. ASSUME NEW row \in st.rows, st.do = "free" PROVE row \notin Sees(live, x)
  BY <1>1, <1>3, <1>6 DEF Refused
<1>7. ASSUME NEW row \in st.rows, st.do = "delete",
             x.started => row \notin Sees(live, x) \/ Lock(row, "update") \in x.pending \cup x.held
      PROVE  row \notin Sees(live, y)
  <2>1. row \notin Sees(live, x) \/ Alone(x, row)
    BY <1>1, <1>2, <1>3, <1>7, ReadyForms DEF Alone
  <2>2. CASE row \in Sees(live, x) /\ Alone(x, row)
    <3>1. st.mode = "update"
      BY <1>2, <1>7 DEF Statements, Sound
    <3>2. row \in Gone(c)
      BY <1>3, <1>7, <2>2, <3>1 DEF Gone, Worked, Holds, Alone
    <3> QED BY <1>1, <3>2 DEF Sees
  <2> QED BY <1>3, <2>1, <2>2
<1>8. y.added = x.added
  BY <1>1 DEF Fresh
<1> QED BY <1>1, <1>2, <1>3, <1>4, <1>5, <1>6, <1>7, <1>8, Advances

\* The command's rows, and what it plans for them, are as they should be afterwards.
LEMMA FinishKeepsRows ==
  ASSUME Typed, NEW c \in Commands, Fine(live, revoked, revision, command[c]), Finish(c),
         NEW y, y = command'[c]
  PROVE  /\ OneWay(y) /\ Rests(live, y) /\ Erases(live, y) /\ Waits(y)
         /\ Revokes(live, y) /\ Assigns(revoked, y)
<1>0. PICK x : x = command[c]
  OBVIOUS
<1>1. PICK st : st = Current(c)
  OBVIOUS
<1>2. /\ y.name = x.name /\ y.of = x.of /\ y.next = Tail(x.next) /\ y.started = FALSE
      /\ y.pending = x.pending /\ y.held = x.held
      /\ y.added = x.added \cup Fresh(c) /\ y.removed = x.removed \cup Gone(c)
      /\ Ready(c) /\ ~Refused(c) /\ x \in Asking /\ Fine(live, revoked, revision, x)
  BY <1>0, FinishForms DEF Typed
<1>3. x.next # <<>> /\ st = x.next[1] /\ st \in Statements /\ x.pending = {} /\ 1 \in DOMAIN x.next
  BY <1>0, <1>1, <1>2, ReadyForms, FirstStatement
<1>4. /\ Len(x.next) \in Nat \ {0} /\ Len(y.next) = Len(x.next) - 1
      /\ DOMAIN x.next = 1..Len(x.next) /\ DOMAIN y.next = 1..(Len(x.next) - 1)
      /\ \A i \in DOMAIN y.next : y.next[i] = x.next[i + 1] /\ i + 1 \in DOMAIN x.next
                                 /\ i + 1 \in 2..Len(x.next)
  BY <1>2, <1>3, FirstStatement
<1>5. \A deeds : Without(x, deeds) => Without(y, deeds)
  BY <1>4, Zenon DEF Without
<1>6. Visible(c) = Sees(live, x)
  BY <1>0 DEF Visible, Sees
<1>7. OneWay(y)
  <2>1. CASE st.do \in Inserts
    <3>1. x.removed = {} /\ Gone(c) = {} /\ Without(x, {"delete"})
      BY <1>0, <1>1, <2>1, FinishSees
    <3> QED BY <1>2, <1>5, <3>1 DEF OneWay
  <2>2. CASE st.do = "delete"
    <3>1. x.added = {} /\ Without(x, Inserts) /\ Fresh(c) = {}
      <4>1. st.do \notin Inserts
        BY <2>2 DEF Inserts
      <4> QED BY <1>0, <1>1, <2>2, <4>1, FinishSees
    <3> QED BY <1>2, <1>5, <3>1 DEF OneWay
  <2>3. CASE st.do \notin Inserts \cup {"delete"}
    <3>1. Gone(c) = {} /\ Fresh(c) = {}
      BY <1>0, <1>1, <2>3, FinishSees
    <3> QED BY <1>2, <1>5, <3>1 DEF Fine, OneWay
  <2> QED BY <2>1, <2>2, <2>3
<1>8. Rests(live, y)
  <2>1. ASSUME NEW row \in x.added, NEW p \in Parents(row)
        PROVE  p \in Sees(live, y) /\ Lock(p, "key") \in y.held
    <3>1. st.do # "delete"
      BY <1>0, <1>1, <2>1, FinishSees
    <3>2. Sees(live, x) \subseteq Sees(live, y)
      BY <1>0, <1>1, <3>1, FinishSees
    <3> QED BY <1>2, <2>1, <3>2 DEF Fine, Rests
  <2>2. ASSUME NEW row \in Fresh(c), NEW p \in Parents(row)
        PROVE  p \in Sees(live, y) /\ Lock(p, "key") \in y.held
    <3>1. st.do \in Inserts
      BY <1>1, <2>2 DEF Fresh
    <3>2. p \in Sees(live, x) /\ Sees(live, x) \subseteq Sees(live, y)
      BY <1>0, <1>1, <2>2, <3>1, FinishSees
    <3> QED BY <1>0, <1>2, <2>2, <3>2, ReadyForms
  <2> QED BY <1>2, <2>1, <2>2 DEF Rests
<1>9. Waits(y)
  BY <1>2, <1>3 DEF Waits
<1>10. Erases(live, y)
  <2>1. CASE st.do \in Inserts
    <3>1. x.removed = {} /\ Gone(c) = {} /\ Without(x, {"delete"})
      BY <1>0, <1>1, <2>1, FinishSees
    <3>2. Without(y, {"delete"}) /\ y.removed = {}
      BY <1>2, <1>5, <3>1
    <3> QED BY <3>2 DEF Erases, Without
  <2>2. CASE st.do \notin Inserts
    <3>1. \A row \in y.removed : Alone(y, row)
      <4>1. \A row \in Gone(c) : Alone(x, row)
        BY <1>0, <1>1, FinishSees
      <4> QED BY <1>2, <4>1 DEF Fine, Erases, Alone
    <3>2. ASSUME NEW row \in Rows, NEW p \in Parents(row), p \in y.removed
          PROVE  row \notin Sees(live, y)
      <4>1. Sees(live, y) \subseteq Sees(live, x)
        BY <1>0, <1>1, <2>2, FinishSees
      <4>2. CASE p \in x.removed
        BY <1>2, <3>2, <4>1, <4>2 DEF Fine, Erases
      <4>3. CASE p \in Gone(c)
        <5>1. p \in st.rows /\ st.do = "delete"
          BY <1>0, <1>1, <4>3, FinishSees
        <5>2. Parents(row) \cap x.next[1].rows # {}
          BY <1>3, <3>2, <5>1
        <5>3. Promised(live, x, row, 1)
          BY <1>2, <1>3, <5>1, <5>2, Zenon DEF Fine, Erases
        <5>4. Cut(live, x, row)
          BY <5>3 DEF Promised
        <5> QED BY <4>1, <5>4 DEF Cut
      <4> QED BY <1>2, <3>2, <4>2, <4>3
    <3>3. ASSUME NEW i \in DOMAIN y.next, y.next[i].do = "delete", NEW row \in Rows,
                 Parents(row) \cap y.next[i].rows # {}
          PROVE  Promised(live, y, row, i)
      <4>1. Promised(live, x, row, i + 1)
        BY <1>2, <1>4, <3>3, Zenon DEF Fine, Erases
      <4>2. i + 1 \in 2..(Len(x.next) + 1) /\ (i + 1) - 1 = i
        BY <1>4
      <4>3. Promised(live, y, row, (i + 1) - 1)
        BY <1>0, <1>1, <1>2, <2>2, <4>1, <4>2, FinishAdvances
      <4> QED BY <4>2, <4>3
    <3> QED BY <3>1, <3>2, <3>3 DEF Erases
  <2> QED BY <2>1, <2>2
<1>11. OfTenant(x) => OfTenant(y)
  BY <1>0, <1>1, <1>2, FinishSees DEF OfTenant
<1>12. Revokes(live, y)
  <2> SUFFICES ASSUME y.name = "remove"
               PROVE  /\ y.of \in Users /\ OfTenant(y) /\ y.added = {} /\ Without(y, Inserts)
                      /\ \A row \in Own(y.of) : Promised(live, y, row, Len(y.next) + 1)
    BY DEF Revokes
  <2>1. /\ x.of \in Users /\ OfTenant(x) /\ x.added = {} /\ Without(x, Inserts)
        /\ \A row \in Own(x.of) : Promised(live, x, row, Len(x.next) + 1)
    BY <1>2 DEF Fine, Revokes
  <2>2. st.do \notin Inserts
    BY <1>3, <2>1 DEF Without
  <2>3. Fresh(c) = {}
    BY <1>0, <1>1, <2>2, FinishSees
  <2>4. ASSUME NEW row \in Own(y.of) PROVE Promised(live, y, row, Len(y.next) + 1)
    <3>1. Len(x.next) + 1 \in 2..(Len(x.next) + 1) /\ (Len(x.next) + 1) - 1 = Len(y.next) + 1
      BY <1>4
    <3>2. Promised(live, y, row, (Len(x.next) + 1) - 1)
      BY <1>0, <1>1, <1>2, <2>1, <2>2, <2>4, <3>1, FinishAdvances
    <3> QED BY <3>1, <3>2
  <2> QED BY <1>2, <1>5, <1>11, <2>1, <2>3, <2>4
<1>13. Assigns(revoked, y)
  <2>1. \A u : Standing(revoked, y, u) <=> Standing(revoked, x, u)
    BY <1>2, Zenon DEF Standing, Alone
  <2>2. ASSUME NEW u \in Users, Own(u) \cap y.added # {} PROVE Standing(revoked, y, u)
    <3>1. CASE Own(u) \cap x.added # {}
      BY <1>2, <2>1, <3>1 DEF Fine, Assigns
    <3>2. CASE Own(u) \cap Fresh(c) # {}
      <4>1. st.do \in Inserts /\ Own(u) \cap st.rows # {}
        BY <1>1, <3>2 DEF Fresh
      <4>2. Standing(revoked, x, u) \/ \E j \in 1..(1 - 1) : x.next[j].do = "assignable"
        BY <1>2, <1>3, <4>1, Zenon DEF Fine, Assigns
      <4> QED BY <2>1, <4>2
    <3> QED BY <1>2, <2>2, <3>1, <3>2
  <2>3. ASSUME NEW u \in Users, NEW i \in DOMAIN y.next, y.next[i].do \in Inserts,
               Own(u) \cap y.next[i].rows # {}
        PROVE  /\ y.of = u /\ OfTenant(y)
               /\ Standing(revoked, y, u) \/ \E j \in 1..(i - 1) : y.next[j].do = "assignable"
    <3>1. /\ x.of = u /\ OfTenant(x)
          /\ Standing(revoked, x, u) \/ \E j \in 1..((i + 1) - 1) : x.next[j].do = "assignable"
      BY <1>2, <1>4, <2>3, Zenon DEF Fine, Assigns
    <3>2. ASSUME NEW j \in 1..((i + 1) - 1), x.next[j].do = "assignable"
          PROVE  Standing(revoked, x, u) \/ \E k \in 1..(i - 1) : y.next[k].do = "assignable"
      <4>1. CASE j = 1
        <5>1. u \notin revoked
          BY <1>0, <1>1, <1>2, <1>3, <3>1, <3>2, <4>1 DEF Refused
        <5>2. Alone(x, organization)
          BY <1>0, <1>1, <1>3, <3>1, <3>2, <4>1, FinishSees, <1>2
        <5> QED BY <5>1, <5>2 DEF Standing
      <4>2. CASE j # 1
        <5>1. j - 1 \in 1..(i - 1) /\ j - 1 \in DOMAIN y.next /\ (j - 1) + 1 = j
          BY <1>4, <4>2
        <5> QED BY <1>4, <3>2, <5>1
      <4> QED BY <4>1, <4>2
    <3> QED BY <1>2, <1>11, <2>1, <3>1, <3>2
  <2> QED BY <2>2, <2>3, Zenon DEF Assigns
<1> QED BY <1>7, <1>8, <1>9, <1>10, <1>12, <1>13

\* The audience a statement reads is the one the command sees.
LEMMA HeardIsSeen ==
  ASSUME Typed, NEW c \in Commands, Fine(live, revoked, revision, command[c]), Ready(c),
         Current(c).do = "audience"
  PROVE  Reached(command[c].of, {row \in Rows : Holds(c, row, "share")})
           = Reached(command[c].of, Sees(live, command[c]))
<1> DEFINE x == command[c]
           rows == {row \in Rows : Holds(c, row, "share")}
<1>1. Visible(c) = Sees(live, x)
  BY DEF Visible, Sees
<1>2. rows \subseteq Sees(live, x)
  BY <1>1 DEF Holds
<1>3. Reached(x.of, rows) \subseteq Reached(x.of, Sees(live, x))
  BY <1>2 DEF Reached
<1>4. ASSUME NEW u \in Reached(x.of, Sees(live, x)) PROVE u \in Reached(x.of, rows)
  <2>1. \A row \in AudienceRows(x.of, Sees(live, x)) : Lock(row, "share") \in x.held
    BY ReadyForms DEF Shared
  <2>2. Member(u) \in AudienceRows(x.of, Sees(live, x))
    BY <1>4 DEF AudienceRows
  <2>3. u \in Users /\ Member(u) \in Sees(live, x) /\ (x.of \in Users => u = x.of)
        /\ (x.of = "group" => Assignment(u) \in Sees(live, x))
    BY <1>4 DEF Reached
  <2>4. Member(u) \in rows
    BY <1>1, <2>1, <2>2, <2>3, RowForms DEF Holds
  <2>5. ASSUME x.of = "group" PROVE Assignment(u) \in rows
    <3>1. Assignment(u) \in AudienceRows(x.of, Sees(live, x))
      BY <1>4, <2>5 DEF AudienceRows
    <3> QED BY <1>1, <2>1, <2>3, <2>5, <3>1, RowForms DEF Holds
  <2> QED BY <2>3, <2>4, <2>5 DEF Reached
<1> QED BY <1>3, <1>4

\* So are what it hears, what it writes and what it checked.
LEMMA FinishKeepsRest ==
  ASSUME Typed, NEW c \in Commands, Fine(live, revoked, revision, command[c]), Finish(c),
         NEW y, y = command'[c]
  PROVE  Hears(live, y) /\ Writes(live, y) /\ Matches(live, revision, y)
<1>0. PICK x : x = command[c]
  OBVIOUS
<1>1. PICK st : st = Current(c)
  OBVIOUS
<1>2. /\ y.name = x.name /\ y.of = x.of /\ y.expected = x.expected /\ y.next = Tail(x.next)
      /\ y.started = FALSE /\ y.pending = x.pending /\ y.held = x.held
      /\ y.added = x.added \cup Fresh(c) /\ y.removed = x.removed \cup Gone(c)
      /\ y.changed = x.changed \cup Touched(Fresh(c) \cup Gone(c))
                     \cup IF st.do \in {"change", "upsert"} THEN Worked(c) ELSE {}
      /\ y.seen = IF st.do = "audience"
                  THEN Reached(x.of, {row \in Rows : Holds(c, row, st.mode)}) ELSE x.seen
      /\ Fresh(c) \subseteq Rows /\ Gone(c) \subseteq Rows
      /\ Ready(c) /\ ~Refused(c) /\ x \in Asking /\ Fine(live, revoked, revision, x)
  <2>1. y.seen = IF Current(c).do = "audience"
                 THEN Reached(command[c].of, {row \in Rows : Holds(c, row, Current(c).mode)})
                 ELSE command[c].seen
    BY FinishForms, Zenon
  <2>2. y.seen = IF st.do = "audience"
                 THEN Reached(x.of, {row \in Rows : Holds(c, row, st.mode)}) ELSE x.seen
    BY <1>0, <1>1, <2>1, Zenon
  <2>3. y.changed = x.changed \cup Touched(Fresh(c) \cup Gone(c))
                    \cup IF st.do \in {"change", "upsert"} THEN Worked(c) ELSE {}
    BY <1>0, <1>1, FinishForms
  <2>4. /\ y.name = x.name /\ y.of = x.of /\ y.expected = x.expected /\ y.next = Tail(x.next)
        /\ y.started = FALSE /\ y.pending = x.pending /\ y.held = x.held
        /\ y.added = x.added \cup Fresh(c) /\ y.removed = x.removed \cup Gone(c)
        /\ Fresh(c) \subseteq Rows /\ Gone(c) \subseteq Rows
        /\ Ready(c) /\ ~Refused(c) /\ x \in Asking /\ Fine(live, revoked, revision, x)
    BY <1>0, FinishForms DEF Typed
  <2> QED BY <2>2, <2>3, <2>4
<1>3. /\ x.next # <<>> /\ st = x.next[1] /\ st \in Statements /\ Sound(st) /\ x.pending = {}
      /\ 1 \in DOMAIN x.next
  BY <1>0, <1>1, <1>2, ReadyForms, FirstStatement DEF Statements
<1>4. /\ Len(x.next) \in Nat \ {0} /\ Len(y.next) = Len(x.next) - 1
      /\ DOMAIN x.next = 1..Len(x.next) /\ DOMAIN y.next = 1..(Len(x.next) - 1)
      /\ \A i \in DOMAIN y.next : y.next[i] = x.next[i + 1] /\ i + 1 \in DOMAIN x.next
                                 /\ i + 1 \in 2..Len(x.next)
      /\ y.next = <<>> <=> Len(x.next) = 1
  <2>1. Tail(x.next) \in Seq(Statements) /\ Len(Tail(x.next)) = Len(x.next) - 1
    BY <1>2, <1>3, FirstStatement
  <2>2. Tail(x.next) = <<>> <=> Len(Tail(x.next)) = 0
    BY <2>1, EmptyForms
  <2>3. x \in Asking
    BY <1>2
  <2>4. /\ Len(x.next) \in Nat \ {0} /\ DOMAIN x.next = 1..Len(x.next)
        /\ DOMAIN Tail(x.next) = 1..(Len(x.next) - 1)
        /\ \A i \in 1..(Len(x.next) - 1) : Tail(x.next)[i] = x.next[i + 1]
    BY <1>3, <2>3, FirstStatement
  <2> QED BY <1>2, <2>1, <2>2, <2>4
<1>5. \A deeds : Without(x, deeds) => Without(y, deeds)
  BY <1>4, Zenon DEF Without
<1>6. Visible(c) = Sees(live, x)
  BY <1>0 DEF Visible, Sees
<1>7. OfTenant(x) => Alone(y, organization) /\ OfTenant(y)
  BY <1>0, <1>1, <1>2, FinishSees DEF OfTenant
<1>8. Inserts \cap {"take", "hold", "delete", "change", "audience", "free", "assert"} = {}
  BY DEF Inserts
<1>9. \A p : Alone(y, p) <=> Alone(x, p)
  BY <1>2, Zenon DEF Alone
<1>10. /\ \A row \in Fresh(c) \cup Gone(c) : /\ row \in st.rows
                                             /\ st.do \in Inserts \cup {"delete"}
       /\ \A row \in Gone(c) : Alone(x, row)
       /\ \A row \in Fresh(c) : Lock(row, "insert") \in x.held /\ row \notin Visible(c)
  <2>1. \A row \in Gone(c) : row \in st.rows /\ Alone(x, row) /\ st.do = "delete"
    BY <1>0, <1>1, FinishSees
  <2>2. \A row \in Fresh(c) : Lock(row, "insert") \in x.held
    BY <1>0, <1>2, ReadyForms
  <2>3. \A row \in Fresh(c) : row \in st.rows /\ st.do \in Inserts /\ row \notin Visible(c)
    BY <1>1 DEF Fresh
  <2> QED BY <2>1, <2>2, <2>3
<1>11. Hears(live, y)
  <2>1. ASSUME y.name \in Audited
        PROVE  /\ OfTenant(y)
               /\ IF y.next = <<>> THEN /\ y.seen = Reached(y.of, Sees(live, y))
                                        /\ Shared(live, y, y.held)
                  ELSE y.next[Len(y.next)].do = "audience"
    <3>1. OfTenant(x) /\ x.next[Len(x.next)].do = "audience"
      BY <1>2, <1>3, <2>1 DEF Fine, Hears
    <3>2. CASE y.next = <<>>
      <4>1. st.do = "audience" /\ st.mode = "share"
        BY <1>3, <1>4, <3>1, <3>2 DEF Sound
      <4>2. Sees(live, y) = Sees(live, x)
        BY <1>0, <1>1, <1>8, <4>1, FinishSees
      <4>3. y.seen = Reached(x.of, Sees(live, x))
        BY <1>0, <1>1, <1>2, <4>1, HeardIsSeen
      <4>4. Shared(live, x, x.held)
        BY <1>0, <1>1, <1>2, <4>1, ReadyForms
      <4>5. Shared(live, y, y.held)
        BY <1>2, <4>2, <4>4, Zenon DEF Shared
      <4> QED BY <1>2, <1>7, <3>1, <3>2, <4>2, <4>3, <4>5
    <3>3. CASE y.next # <<>>
      <4>1. Len(y.next) \in DOMAIN y.next /\ Len(y.next) + 1 = Len(x.next)
        BY <1>4, <3>3
      <4> QED BY <1>4, <1>7, <3>1, <3>3, <4>1
    <3> QED BY <3>2, <3>3
  <2>2. \A i \in DOMAIN y.next : y.next[i].do = "audience" => y.name \in Audited
    BY <1>2, <1>4, Zenon DEF Fine, Hears
  <2> QED BY <1>2, <2>1, <2>2 DEF Hears
<1>12. Writes(live, y)
  <2>1. \A row \in y.added : Lock(row, "insert") \in y.held /\ row \notin live
    <3>1. ASSUME NEW row \in Fresh(c) PROVE Lock(row, "insert") \in y.held /\ row \notin live
      <4>1. st.do \in Inserts
        BY <1>1, <3>1 DEF Fresh
      <4>2. x.removed = {}
        BY <1>0, <1>1, <4>1, FinishSees
      <4> QED BY <1>2, <1>6, <1>10, <3>1, <4>2 DEF Sees
    <3> QED BY <1>2, <3>1 DEF Fine, Writes
  <2>2. ASSUME NEW p \in Touched(Fresh(c) \cup Gone(c))
        PROVE  Lock(p, "nokey") \in y.held /\ p # capability
    <3>1. PICK k \in Clients : Link(k) \in Fresh(c) \cup Gone(c) /\ p \in Parents(Link(k))
      <4>1. Fresh(c) \cup Gone(c) \in SUBSET Rows
        BY <1>2
      <4> QED BY <2>2, <4>1, TouchedForms
    <3>2. PICK m \in {"update", "insert"} : Lock(Link(k), m) \in x.pending \cup x.held
      BY <1>10, <3>1 DEF Alone
    <3>3. Lock(p, "nokey") \in x.pending \cup x.held
      BY <1>2, <3>1, <3>2, Zenon DEF Fine, Writes
    <3>4. p # capability
      <4>1. p = Client(k) \/ p = resource
        BY <3>1, ParentForms
      <4> QED BY <4>1 DEF Client, resource, capability
    <3> QED BY <1>2, <1>3, <3>3, <3>4
  <2>3. ASSUME st.do \in {"change", "upsert"}, NEW row \in Worked(c)
        PROVE  (Alone(y, row) \/ Lock(row, "nokey") \in y.held) /\ row \in st.rows
    <3>1. row \in st.rows /\ Lock(row, st.mode) \in x.held
      BY <1>0, <1>1, <2>3 DEF Worked, Holds
    <3>2. CASE st.do = "upsert"
      <4>1. st.mode = "update"
        BY <1>3, <3>2 DEF Sound
      <4> QED BY <1>2, <3>1, <4>1 DEF Alone
    <3>3. CASE st.do = "change"
      <4>1. st.mode = "nokey"
        BY <1>3, <3>3 DEF Sound
      <4> QED BY <1>2, <3>1, <4>1
    <3> QED BY <2>3, <3>2, <3>3
  <2>4. \A row \in y.changed : Alone(y, row) \/ Lock(row, "nokey") \in y.held
    <3>1. \A row \in x.changed : Alone(y, row) \/ Lock(row, "nokey") \in y.held
      BY <1>2, <1>9 DEF Fine, Writes
    <3> QED BY <1>2, <2>2, <2>3, <3>1
  <2>5. capability \in Written(y) => Alone(y, organization)
    <3>1. ASSUME capability \in st.rows, st.do \in Writing PROVE Alone(y, organization)
      <4>1. OfTenant(x)
        BY <1>2, <1>3, <3>1 DEF Fine, Writes
      <4> QED BY <1>7, <4>1
    <3>2. Inserts \cup {"delete", "change", "upsert"} \subseteq Writing
      BY DEF Writing, Inserts
    <3>3. capability \in Written(x) => Alone(y, organization)
      BY <1>2, <1>9 DEF Fine, Writes
    <3>4. capability \in Fresh(c) \cup Gone(c) => Alone(y, organization)
      BY <1>10, <3>1, <3>2
    <3>5. capability \in y.changed => capability \in x.changed \/ Alone(y, organization)
      BY <1>2, <2>2, <2>3, <3>1, <3>2
    <3> QED BY <1>2, <3>3, <3>4, <3>5 DEF Written
  <2>6. \A i \in DOMAIN y.next :
          y.next[i].do \in Writing /\ capability \in y.next[i].rows => OfTenant(y)
    BY <1>2, <1>4, <1>7, Zenon DEF Fine, Writes
  <2>7. \A k \in Clients, m \in {"update", "insert"} :
          Lock(Link(k), m) \in y.pending \cup y.held =>
            \A p \in Parents(Link(k)) : Lock(p, "nokey") \in y.pending \cup y.held
    BY <1>2, Zenon DEF Fine, Writes
  <2> QED BY <2>1, <2>4, <2>5, <2>6, <2>7 DEF Writes
<1>13. Matches(live, revision, y)
  <2> SUFFICES ASSUME y.expected # {}
               PROVE  /\ y.removed = {} /\ Without(y, {"insert", "put", "delete"})
                      /\ \A row \in y.changed : /\ row \in Sees(live, y) /\ Guarded(y, row)
                                                /\ y.expected = {{revision[row]}}
                      /\ \A i \in DOMAIN y.next :
                           /\ y.next[i].do = "upsert" => i = Len(y.next)
                           /\ y.next[i].do \in {"change", "upsert"} => \A row \in y.next[i].rows :
                                Checked(live, revision, y, row)
                                  \/ \E j \in 1..(i - 1) : Asks(live, y, row, j)
    BY DEF Matches
  <2>1. /\ x.expected # {} /\ x.removed = {} /\ Without(x, {"insert", "put", "delete"})
        /\ \A row \in x.changed : /\ row \in Sees(live, x) /\ Guarded(x, row)
                                  /\ x.expected = {{revision[row]}}
        /\ \A i \in DOMAIN x.next :
             /\ x.next[i].do = "upsert" => i = Len(x.next)
             /\ x.next[i].do \in {"change", "upsert"} => \A row \in x.next[i].rows :
                  Checked(live, revision, x, row) \/ \E j \in 1..(i - 1) : Asks(live, x, row, j)
    BY <1>2 DEF Fine, Matches
  <2>2. st.do \notin {"insert", "put", "delete"} /\ Gone(c) = {}
    BY <1>1, <1>3, <2>1 DEF Without, Gone
  <2>3. \A row : Guarded(x, row) => Guarded(y, row)
    BY <1>9, Zenon DEF Guarded
  <2>4. Touched(Fresh(c) \cup Gone(c)) = {}
    <3>1. \A k \in Clients : Link(k) \notin Fresh(c) \cup Gone(c)
      <4>1. ASSUME NEW k \in Clients, Link(k) \in Fresh(c) PROVE FALSE
        <5>1. st.do = "upsert" /\ Link(k) \in st.rows
          BY <1>10, <2>2, <4>1 DEF Inserts
        <5>2. PICK u \in Users : st.rows = {Assignment(u)}
          BY <1>3, <5>1 DEF Sound
        <5>3. Link(k) = Assignment(u)
          BY <5>1, <5>2
        <5> QED BY <5>3 DEF Link, Assignment
      <4> QED BY <2>2, <4>1
    <3>2. Fresh(c) \cup Gone(c) \in SUBSET Rows
      BY <1>2
    <3> QED BY <3>1, <3>2, TouchedForms
  <2>5. ASSUME NEW row \in y.changed
        PROVE  row \in Sees(live, y) /\ y.expected = {{revision[row]}} /\ Guarded(y, row)
    <3>0. Sees(live, x) \subseteq Sees(live, y)
      BY <1>2, <2>2 DEF Sees
    <3>1. CASE row \in x.changed
      BY <1>2, <2>1, <2>3, <3>0, <3>1
    <3>2. CASE st.do \in {"change", "upsert"} /\ row \in Worked(c)
      <4>1. row \in st.rows /\ row \in Sees(live, x)
        BY <1>0, <1>1, <1>6, <3>2 DEF Worked, Holds
      <4>2. Checked(live, revision, x, row) \/ \E j \in 1..(1 - 1) : Asks(live, x, row, j)
        BY <1>3, <2>1, <3>2, <4>1
      <4>3. x.expected = {{revision[row]}} /\ Guarded(x, row)
        BY <4>1, <4>2 DEF Checked
      <4> QED BY <1>2, <2>3, <3>0, <4>1, <4>3
    <3> QED BY <1>2, <2>4, <2>5, <3>1, <3>2
  <2>6. ASSUME NEW i \in DOMAIN y.next, y.next[i].do = "upsert" PROVE i = Len(y.next)
    BY <1>4, <2>1, <2>6
  <2>7. ASSUME NEW i \in DOMAIN y.next, y.next[i].do \in {"change", "upsert"},
               NEW row \in y.next[i].rows
        PROVE  Checked(live, revision, y, row) \/ \E j \in 1..(i - 1) : Asks(live, y, row, j)
    <3>1. Checked(live, revision, x, row) \/ \E j \in 1..((i + 1) - 1) : Asks(live, x, row, j)
      BY <1>4, <2>1, <2>7
    <3>2. st.do \notin Inserts
      <4>1. st.do # "upsert"
        BY <1>3, <1>4, <2>1, <2>7
      <4> QED BY <2>2, <4>1 DEF Inserts
    <3>3. Sees(live, y) = Sees(live, x)
      BY <1>0, <1>1, <2>2, <3>2, FinishSees
    <3>4. /\ \A p : Settled(live, x, p) => Settled(live, y, p)
          /\ \A do, p : \A g \in 2..Len(x.next) : Takes(x, g, do, p) => Takes(y, g - 1, do, p)
          /\ \A p : \A j \in 2..(Len(x.next) + 1) :
               Settles(live, x, p, j) => Settles(live, y, p, j - 1)
      BY <1>0, <1>1, <3>2, FinishAdvances
    <3>5. Checked(live, revision, x, row) => Checked(live, revision, y, row)
      BY <1>2, <1>9, <2>3, <3>3, Zenon DEF Checked
    <3>6. ASSUME NEW j \in 1..((i + 1) - 1), Asks(live, x, row, j)
          PROVE  Checked(live, revision, y, row) \/ \E k \in 1..(i - 1) : Asks(live, y, row, k)
      <4>1. CASE j = 1
        <5>1. st.do = "assert" /\ st.rows = {row}
          BY <1>3, <3>6, <4>1 DEF Asks
        <5>2. x.expected = {{revision[r] : r \in st.rows \cap Sees(live, x)}}
          BY <1>0, <1>1, <1>2, <1>6, <2>1, <5>1 DEF Refused
        <5>3. Settled(live, x, row) \/ (row = capability /\ Alone(x, organization))
          <6>1. \A g \in 1..(1 - 1) : FALSE
            OBVIOUS
          <6> QED BY <3>6, <4>1, <6>1 DEF Asks, Settles
        <5>4. CASE row \in Sees(live, x)
          <6>1. {revision[r] : r \in st.rows \cap Sees(live, x)} = {revision[row]}
            BY <5>1, <5>4
          <6>2. Guarded(x, row)
            BY <5>3, <5>4 DEF Settled, Guarded
          <6> QED BY <3>5, <5>2, <5>4, <6>1, <6>2 DEF Checked
        <5>5. CASE row \notin Sees(live, x)
          <6>1. \E q \in Parents(row) : Alone(x, q)
            <7>1. organization \in Parents(capability)
              BY ParentForms
            <7> QED BY <2>1, <5>3, <5>5, <7>1 DEF Settled, Sees
          <6> QED BY <3>5, <5>5, <6>1 DEF Checked
        <5> QED BY <5>4, <5>5
      <4>2. CASE j # 1
        <5>1. j - 1 \in 1..(i - 1) /\ (j - 1) + 1 = j /\ j - 1 \in DOMAIN y.next
              /\ j \in 2..(Len(x.next) + 1)
          BY <1>4, <4>2
        <5>2. y.next[j - 1] = x.next[j]
          BY <1>4, <5>1
        <5>3. \/ Settles(live, y, row, j - 1)
              \/ /\ row = capability
                 /\ \/ Alone(y, organization)
                    \/ \E g \in 1..((j - 1) - 1) : Takes(y, g, "take", organization)
          <6>1. CASE Settles(live, x, row, j)
            BY <3>4, <5>1, <6>1
          <6>2. CASE row = capability /\ Alone(x, organization)
            BY <1>9, <6>2
          <6>3. ASSUME row = capability, NEW g \in 1..(j - 1), Takes(x, g, "take", organization)
                PROVE  \/ Alone(y, organization)
                       \/ \E h \in 1..((j - 1) - 1) : Takes(y, h, "take", organization)
            <7>1. CASE g = 1
              <8>1. OfTenant(x)
                BY <1>3, <6>3, <7>1 DEF OfTenant
              <8> QED BY <1>7, <8>1
            <7>2. CASE g # 1
              <8>1. g \in 2..Len(x.next) /\ g - 1 \in 1..((j - 1) - 1)
                BY SMTT(30), <1>4, <5>1, <7>2
              <8> QED BY <3>4, <6>3, <8>1
            <7> QED BY <7>1, <7>2
          <6> QED BY <3>6, <6>1, <6>2, <6>3 DEF Asks
        <5>4. Asks(live, y, row, j - 1)
          BY <3>6, <5>2, <5>3 DEF Asks
        <5> QED BY <5>1, <5>4
      <4> QED BY <4>1, <4>2
    <3> QED BY <3>1, <3>5, <3>6
  <2> QED BY <1>2, <1>5, <2>1, <2>2, <2>5, <2>6, <2>7
<1> QED BY <1>11, <1>12, <1>13

(***************************************************************************)
(* What commands are offered                                               *)
(***************************************************************************)
\* An offer o keeps to the same rules, before it holds anything.
WillSettle(o, p, j) ==
  \E g \in 1..(j - 1) :
    \/ Takes(o, g, "take", p)
    \/ Takes(o, g, "hold", p) /\ \E q \in Parents(p), h \in 1..(g - 1) : Takes(o, h, "take", q)
WillClear(o, row, i) ==
  \E j \in 1..(i - 1) : /\ o.next[j].do \in {"delete", "free"} /\ row \in o.next[j].rows
                        /\ \E p \in Parents(row) : WillSettle(o, p, j)
WillAsk(o, row, j) ==
  /\ o.next[j].do = "assert" /\ o.next[j].rows = {row}
  /\ WillSettle(o, row, j)
     \/ (row = capability /\ \E g \in 1..(j - 1) : Takes(o, g, "take", organization))

PlansErasure(o) ==
  /\ Without(o, {"delete"}) \/ Without(o, Inserts)
  /\ \A i \in DOMAIN o.next : o.next[i].do = "delete" =>
       \A row \in Rows : Parents(row) \cap o.next[i].rows # {} => WillClear(o, row, i)
PlansRevocation(o) == o.name = "remove" =>
  /\ o.of \in Users /\ Takes(o, 1, "take", organization) /\ Without(o, Inserts)
  /\ \A row \in Own(o.of) : WillClear(o, row, Len(o.next) + 1)
PlansAssignment(o) == \A u \in Users, i \in DOMAIN o.next :
  o.next[i].do \in Inserts /\ Own(u) \cap o.next[i].rows # {} =>
    /\ o.of = u /\ Takes(o, 1, "take", organization)
    /\ \E j \in 1..(i - 1) : o.next[j].do = "assignable"
PlansAudience(o) ==
  /\ o.name \in Audited => /\ Takes(o, 1, "take", organization)
                           /\ o.next[Len(o.next)].do = "audience"
  /\ \A i \in DOMAIN o.next : o.next[i].do = "audience" => o.name \in Audited
PlansWrites(o) == \A i \in DOMAIN o.next :
  o.next[i].do \in Writing /\ capability \in o.next[i].rows => Takes(o, 1, "take", organization)
PlansChange(o) == Without(o, {"assert"}) \/
  /\ Without(o, {"insert", "put", "delete"})
  /\ \A i \in DOMAIN o.next :
       /\ o.next[i].do = "upsert" => i = Len(o.next)
       /\ o.next[i].do \in {"change", "upsert"} => \A row \in o.next[i].rows :
            \E j \in 1..(i - 1) : WillAsk(o, row, j)

\* A statement of a command may lock a row in mode m.
Locking(st, of, row, m) ==
  \/ st.do \in {"take", "hold", "change", "delete"} /\ row \in st.rows /\ m = st.mode
  \/ /\ st.do = "audience" /\ m = "share"
     /\ \E u \in Users : row = Member(u) \/ (of = "group" /\ row = Assignment(u))
  \/ /\ st.do \in Inserts
     /\ \/ m = "insert" /\ row \in st.rows
        \/ m = "key" /\ \E new \in st.rows : row \in Parents(new)
  \/ /\ st.do \in Inserts \cup {"delete"} /\ m = "nokey"
     /\ \E k \in Clients : Link(k) \in st.rows /\ row \in Parents(Link(k))
Wants(o, i, row, m) == Locking(o.next[i], o.of, row, m)

\* A member is not locked after what it holds, nor its entitlement after its assignment; but an
\* audience's statement locks both, and putMember locks the member if the assignment was not there.
InTurn(o) == \A u \in Users, m, n \in Firm, i, j \in DOMAIN o.next : j <= i =>
  /\ ~(Wants(o, i, Member(u), m) /\ Wants(o, j, Entitlement(u), n))
  /\ ~(Wants(o, i, Entitlement(u), m) /\ Wants(o, j, Assignment(u), n))
  /\ Wants(o, i, Member(u), m) /\ Wants(o, j, Assignment(u), n) =>
       \/ m = "share" /\ n = "share"
       \/ o.name = "putMember" /\ o.of = u /\ m = "key" /\ n = "update"
Crossing == {"eraseOrganization", "updateEntitlement", "removeEntitlement"}

\* What commands of a tenant add.
Inserted == {"group", "assignment", "entitlement", "capability"}
PlansInserts(o) == \A i \in DOMAIN o.next, row \in Rows :
  Wants(o, i, row, "insert") => row[1] \in Inserted

\* The commands of a tenant take its organisation first, share an application before the resource,
\* and refer to either only when it is shared.
ByTenant(o) ==
  /\ Takes(o, 1, "take", organization)
  /\ \A i \in DOMAIN o.next, row \in Rows, m \in Modes : Wants(o, i, row, m) =>
       /\ row[1] \notin {"user", "link"}
       /\ row[1] \in {"client", "resource"} =>
            \/ m = "key" /\ \E g \in 1..(i - 1) : o.next[g] = Statement("take", {row}, "share")
            \/ /\ m = "share"
               /\ \A j \in 1..i, n \in Modes : Wants(o, j, resource, n) =>
                    j = i /\ row = resource /\ n = "share"
  /\ PlansInserts(o) /\ (o.name \in Crossing \/ InTurn(o))

\* The erasure of a user.
ByUser(o) ==
  /\ o.name = "eraseUser" /\ o.of \in Users /\ Len(o.next) = 6
  /\ Takes(o, 1, "take", User(o.of)) /\ Takes(o, 2, "hold", Member(o.of))
  /\ Without(o, Inserts) /\ \A i \in 1..4 : o.next[i].do = "delete" => i > 2
  /\ o.next[6].do = "delete" /\ o.next[6].rows = {User(o.of)}
  /\ \A i \in DOMAIN o.next, row \in Rows, m \in Modes : Wants(o, i, row, m) =>
       /\ m = "update"
       /\ \/ i \in {1, 6} /\ row = User(o.of)
          \/ i \in {2, 5} /\ row = Member(o.of)
          \/ i = 3 /\ row = Entitlement(o.of)
          \/ i = 4 /\ row = Assignment(o.of)

\* A sign-in.
BySignIn(o) ==
  /\ o.of \in Users /\ Len(o.next) = 1 /\ o.name = "provisionMembership"
  /\ \A row \in Rows, m \in Modes : Wants(o, 1, row, m) =>
       \/ m = "key" /\ row \in {organization, User(o.of)}
       \/ m = "insert" /\ row = Member(o.of)

\* The commands of an application take it first, and lock a resource once, or take it.
ByClient(o) ==
  /\ o.of \in Clients /\ Takes(o, 1, "take", Client(o.of))
  /\ \A i \in DOMAIN o.next, row \in Rows, m \in Modes : Wants(o, i, row, m) =>
       /\ row \in {Client(o.of), Link(o.of), resource} /\ (m = "insert" => row = Link(o.of))
       /\ row = resource => \/ o.name = "unlinkResource"
                            \/ \E g \in 1..(i - 1) : Takes(o, g, "take", resource)
                            \/ \A j \in 1..i, n \in Modes :
                                 Wants(o, j, resource, n) => j = i /\ n = m

\* The commands of a resource lock nothing else.
ByResource(o) ==
  /\ Takes(o, 1, "take", resource)
  /\ \A i \in DOMAIN o.next, row \in Rows, m \in Modes : Wants(o, i, row, m) =>
       row = resource /\ m # "insert"

\* Only the audience, which is read last, shares an assignment.
PlansShares(o) == \A i \in DOMAIN o.next, u \in Users :
  Wants(o, i, Assignment(u), "share") => o.next[i].do = "audience" /\ i = Len(o.next)

\* The group's members are put by a command that holds the organisation.
PlansPutting(o) == o.name = "putMember" =>
  /\ o.of \in Users /\ Takes(o, 1, "take", organization) /\ Without(o, {"delete"})
  /\ \A i \in DOMAIN o.next :
       /\ o.next[i].do \in Inserts => i = Len(o.next)
       /\ Wants(o, i, Member(o.of), "key") =>
            o.next[i].do \in Inserts /\ o.next[i].rows = {Assignment(o.of)}

PlansLocks(o) ==
  /\ IF o.name = "eraseUser" THEN ByUser(o)
     ELSE ByTenant(o) \/ BySignIn(o) \/ ByClient(o) \/ ByResource(o)
  /\ PlansShares(o) /\ PlansPutting(o)

Planned(o) ==
  /\ o.name \in Names /\ o.of \in Whoms /\ o.next \in Seq(Statements) /\ o.next # <<>>
  /\ PlansErasure(o) /\ PlansRevocation(o) /\ PlansAssignment(o) /\ PlansAudience(o)
  /\ PlansWrites(o) /\ PlansChange(o) /\ PlansLocks(o)

\* A command that is begun as planned is fine.
LEMMA BegunIsFine ==
  ASSUME NEW o, Planned(o), NEW b \in Asking, NEW l, NEW rv, NEW rev,
         b.name = o.name, b.of = o.of, b.next = o.next,
         b.started = FALSE, b.pending = {}, b.held = {},
         b.added = {}, b.removed = {}, b.changed = {},
         b.expected # {} => ~Without(o, {"assert"})
  PROVE  Fine(l, rv, rev, b)
<1>1. \A g, do, p : Takes(b, g, do, p) <=> Takes(o, g, do, p)
  BY Zenon DEF Takes
<1>2. \A p, j : WillSettle(o, p, j) => Settles(l, b, p, j)
  BY <1>1, Zenon DEF WillSettle, Settles
<1>3. \A row, i : WillClear(o, row, i) => Promised(l, b, row, i)
  <2>1. ASSUME NEW row, NEW i, NEW j \in 1..(i - 1), o.next[j].do \in {"delete", "free"},
               row \in o.next[j].rows, NEW p \in Parents(row), WillSettle(o, p, j)
        PROVE  Clears(l, b, row, j)
    BY <1>2, <2>1, Zenon DEF Clears
  <2> QED BY <2>1, Zenon DEF WillClear, Promised
<1>4. \A deeds : Without(o, deeds) <=> Without(b, deeds)
  BY Zenon DEF Without
<1>5. Takes(o, 1, "take", organization) => OfTenant(b)
  BY <1>1, Zenon DEF Planned, OfTenant
<1>6. OneWay(b) /\ Rests(l, b) /\ Waits(b)
  BY <1>4 DEF Planned, PlansErasure, OneWay, Rests, Waits
<1>7. Erases(l, b)
  BY <1>3 DEF Planned, PlansErasure, Erases
<1>8. Revokes(l, b)
  BY <1>3, <1>4, <1>5 DEF Planned, PlansRevocation, Revokes
<1>9. Assigns(rv, b)
  BY <1>5 DEF Planned, PlansAssignment, Assigns
<1>10. Hears(l, b)
  BY <1>5 DEF Planned, PlansAudience, Hears
<1>11. Writes(l, b)
  BY <1>5 DEF Planned, PlansWrites, Writes, Written
<1>12. Matches(l, rev, b)
  <2>1. \A row, j : WillAsk(o, row, j) => Asks(l, b, row, j)
    BY <1>1, <1>2, Zenon DEF WillAsk, Asks
  <2>2. b.expected # {} =>
          /\ Without(o, {"insert", "put", "delete"})
          /\ \A i \in DOMAIN o.next :
               /\ o.next[i].do = "upsert" => i = Len(o.next)
               /\ o.next[i].do \in {"change", "upsert"} => \A row \in o.next[i].rows :
                    \E j \in 1..(i - 1) : WillAsk(o, row, j)
    BY Zenon DEF Planned, PlansChange
  <2> QED BY <1>4, <2>1, <2>2, Zenon DEF Matches
<1> QED BY <1>6, <1>7, <1>8, <1>9, <1>10, <1>11, <1>12 DEF Fine
\* Lists of statements, put together one by one.
Two(a, b) == <<a>> \o <<b>>
Three(a, b, c) == Two(a, b) \o <<c>>
Four(a, b, c, d) == Three(a, b, c) \o <<d>>
Five(a, b, c, d, e) == Four(a, b, c, d) \o <<e>>
Six(a, b, c, d, e, f) == Five(a, b, c, d, e) \o <<f>>
Seven(a, b, c, d, e, f, g) == Six(a, b, c, d, e, f) \o <<g>>

\* A sequence with one more statement.
LEMMA OneMore ==
  ASSUME NEW s \in Seq(Statements), NEW z \in Statements
  PROVE  /\ s \o <<z>> \in Seq(Statements) /\ s \o <<z>> # <<>> /\ Len(s \o <<z>>) = Len(s) + 1
         /\ (s \o <<z>>)[Len(s) + 1] = z /\ \A i \in 1..Len(s) : (s \o <<z>>)[i] = s[i]
OBVIOUS

\* Lists of two to seven statements, element by element.
LEMMA ListTwo ==
  ASSUME NEW a, NEW b,
         a \in Statements, b \in Statements
  PROVE  /\ Two(a, b) \in Seq(Statements) /\ Two(a, b) # <<>> /\ Len(Two(a, b)) = 2
         /\ Two(a, b)[1] = a /\ Two(a, b)[2] = b
BY DEF Two

LEMMA ListThree ==
  ASSUME NEW a, NEW b, NEW c,
         a \in Statements, b \in Statements, c \in Statements
  PROVE  /\ Three(a, b, c) \in Seq(Statements) /\ Three(a, b, c) # <<>> /\ Len(Three(a, b, c)) = 3
         /\ Three(a, b, c)[1] = a /\ Three(a, b, c)[2] = b /\ Three(a, b, c)[3] = c
<1>1. /\ Two(a, b) \in Seq(Statements) /\ Two(a, b) # <<>> /\ Len(Two(a, b)) = 2
      /\ Two(a, b)[1] = a /\ Two(a, b)[2] = b
  BY ListTwo
<1>2. /\ (Two(a, b) \o <<c>>) \in Seq(Statements) /\ (Two(a, b) \o <<c>>) # <<>>
      /\ Len((Two(a, b) \o <<c>>)) = Len(Two(a, b)) + 1
      /\ (Two(a, b) \o <<c>>)[Len(Two(a, b)) + 1] = c
      /\ \A i \in 1..Len(Two(a, b)) : (Two(a, b) \o <<c>>)[i] = Two(a, b)[i]
  BY <1>1, OneMore
<1>3. /\ Three(a, b, c) \in Seq(Statements) /\ Three(a, b, c) # <<>>
      /\ Len(Three(a, b, c)) = Len(Two(a, b)) + 1
      /\ Three(a, b, c)[Len(Two(a, b)) + 1] = c
      /\ \A i \in 1..Len(Two(a, b)) : Three(a, b, c)[i] = Two(a, b)[i]
  BY <1>2, Zenon DEF Three
<1> QED BY <1>1, <1>3

LEMMA ListFour ==
  ASSUME NEW a, NEW b, NEW c, NEW d,
         a \in Statements, b \in Statements, c \in Statements, d \in Statements
  PROVE  /\ Four(a, b, c, d) \in Seq(Statements) /\ Four(a, b, c, d) # <<>>
         /\ Len(Four(a, b, c, d)) = 4
         /\ Four(a, b, c, d)[1] = a /\ Four(a, b, c, d)[2] = b /\ Four(a, b, c, d)[3] = c
         /\ Four(a, b, c, d)[4] = d
<1>1. /\ Three(a, b, c) \in Seq(Statements) /\ Three(a, b, c) # <<>> /\ Len(Three(a, b, c)) = 3
      /\ Three(a, b, c)[1] = a /\ Three(a, b, c)[2] = b /\ Three(a, b, c)[3] = c
  BY ListThree
<1>2. /\ (Three(a, b, c) \o <<d>>) \in Seq(Statements) /\ (Three(a, b, c) \o <<d>>) # <<>>
      /\ Len((Three(a, b, c) \o <<d>>)) = Len(Three(a, b, c)) + 1
      /\ (Three(a, b, c) \o <<d>>)[Len(Three(a, b, c)) + 1] = d
      /\ \A i \in 1..Len(Three(a, b, c)) : (Three(a, b, c) \o <<d>>)[i] = Three(a, b, c)[i]
  BY <1>1, OneMore
<1>3. /\ Four(a, b, c, d) \in Seq(Statements) /\ Four(a, b, c, d) # <<>>
      /\ Len(Four(a, b, c, d)) = Len(Three(a, b, c)) + 1
      /\ Four(a, b, c, d)[Len(Three(a, b, c)) + 1] = d
      /\ \A i \in 1..Len(Three(a, b, c)) : Four(a, b, c, d)[i] = Three(a, b, c)[i]
  BY <1>2, Zenon DEF Four
<1> QED BY <1>1, <1>3

LEMMA ListFive ==
  ASSUME NEW a, NEW b, NEW c, NEW d, NEW e,
         a \in Statements, b \in Statements, c \in Statements, d \in Statements, e \in Statements
  PROVE  /\ Five(a, b, c, d, e) \in Seq(Statements) /\ Five(a, b, c, d, e) # <<>>
         /\ Len(Five(a, b, c, d, e)) = 5
         /\ Five(a, b, c, d, e)[1] = a /\ Five(a, b, c, d, e)[2] = b /\ Five(a, b, c, d, e)[3] = c
         /\ Five(a, b, c, d, e)[4] = d /\ Five(a, b, c, d, e)[5] = e
<1>1. /\ Four(a, b, c, d) \in Seq(Statements) /\ Four(a, b, c, d) # <<>>
      /\ Len(Four(a, b, c, d)) = 4
      /\ Four(a, b, c, d)[1] = a /\ Four(a, b, c, d)[2] = b /\ Four(a, b, c, d)[3] = c
      /\ Four(a, b, c, d)[4] = d
  BY ListFour
<1>2. /\ (Four(a, b, c, d) \o <<e>>) \in Seq(Statements) /\ (Four(a, b, c, d) \o <<e>>) # <<>>
      /\ Len((Four(a, b, c, d) \o <<e>>)) = Len(Four(a, b, c, d)) + 1
      /\ (Four(a, b, c, d) \o <<e>>)[Len(Four(a, b, c, d)) + 1] = e
      /\ \A i \in 1..Len(Four(a, b, c, d)) : (Four(a, b, c, d) \o <<e>>)[i] = Four(a, b, c, d)[i]
  BY <1>1, OneMore
<1>3. /\ Five(a, b, c, d, e) \in Seq(Statements) /\ Five(a, b, c, d, e) # <<>>
      /\ Len(Five(a, b, c, d, e)) = Len(Four(a, b, c, d)) + 1
      /\ Five(a, b, c, d, e)[Len(Four(a, b, c, d)) + 1] = e
      /\ \A i \in 1..Len(Four(a, b, c, d)) : Five(a, b, c, d, e)[i] = Four(a, b, c, d)[i]
  BY <1>2, Zenon DEF Five
<1> QED BY <1>1, <1>3

LEMMA ListSix ==
  ASSUME NEW a, NEW b, NEW c, NEW d, NEW e, NEW f,
         a \in Statements, b \in Statements, c \in Statements, d \in Statements,
         e \in Statements, f \in Statements
  PROVE  /\ Six(a, b, c, d, e, f) \in Seq(Statements) /\ Six(a, b, c, d, e, f) # <<>>
         /\ Len(Six(a, b, c, d, e, f)) = 6
         /\ Six(a, b, c, d, e, f)[1] = a /\ Six(a, b, c, d, e, f)[2] = b
         /\ Six(a, b, c, d, e, f)[3] = c /\ Six(a, b, c, d, e, f)[4] = d
         /\ Six(a, b, c, d, e, f)[5] = e /\ Six(a, b, c, d, e, f)[6] = f
<1>1. /\ Five(a, b, c, d, e) \in Seq(Statements) /\ Five(a, b, c, d, e) # <<>>
      /\ Len(Five(a, b, c, d, e)) = 5
      /\ Five(a, b, c, d, e)[1] = a /\ Five(a, b, c, d, e)[2] = b /\ Five(a, b, c, d, e)[3] = c
      /\ Five(a, b, c, d, e)[4] = d /\ Five(a, b, c, d, e)[5] = e
  BY ListFive
<1>2. /\ (Five(a, b, c, d, e) \o <<f>>) \in Seq(Statements)
      /\ (Five(a, b, c, d, e) \o <<f>>) # <<>>
      /\ Len((Five(a, b, c, d, e) \o <<f>>)) = Len(Five(a, b, c, d, e)) + 1
      /\ (Five(a, b, c, d, e) \o <<f>>)[Len(Five(a, b, c, d, e)) + 1] = f
      /\ \A i \in 1..Len(Five(a, b, c, d, e)) :
           (Five(a, b, c, d, e) \o <<f>>)[i] = Five(a, b, c, d, e)[i]
  BY <1>1, OneMore
<1>3. /\ Six(a, b, c, d, e, f) \in Seq(Statements) /\ Six(a, b, c, d, e, f) # <<>>
      /\ Len(Six(a, b, c, d, e, f)) = Len(Five(a, b, c, d, e)) + 1
      /\ Six(a, b, c, d, e, f)[Len(Five(a, b, c, d, e)) + 1] = f
      /\ \A i \in 1..Len(Five(a, b, c, d, e)) : Six(a, b, c, d, e, f)[i] = Five(a, b, c, d, e)[i]
  BY <1>2, Zenon DEF Six
<1> QED BY <1>1, <1>3

LEMMA ListSeven ==
  ASSUME NEW a, NEW b, NEW c, NEW d, NEW e, NEW f, NEW g,
         a \in Statements, b \in Statements, c \in Statements, d \in Statements,
         e \in Statements, f \in Statements, g \in Statements
  PROVE  /\ Seven(a, b, c, d, e, f, g) \in Seq(Statements) /\ Seven(a, b, c, d, e, f, g) # <<>>
         /\ Len(Seven(a, b, c, d, e, f, g)) = 7
         /\ Seven(a, b, c, d, e, f, g)[1] = a /\ Seven(a, b, c, d, e, f, g)[2] = b
         /\ Seven(a, b, c, d, e, f, g)[3] = c /\ Seven(a, b, c, d, e, f, g)[4] = d
         /\ Seven(a, b, c, d, e, f, g)[5] = e /\ Seven(a, b, c, d, e, f, g)[6] = f
         /\ Seven(a, b, c, d, e, f, g)[7] = g
<1>1. /\ Six(a, b, c, d, e, f) \in Seq(Statements) /\ Six(a, b, c, d, e, f) # <<>>
      /\ Len(Six(a, b, c, d, e, f)) = 6
      /\ Six(a, b, c, d, e, f)[1] = a /\ Six(a, b, c, d, e, f)[2] = b
      /\ Six(a, b, c, d, e, f)[3] = c /\ Six(a, b, c, d, e, f)[4] = d
      /\ Six(a, b, c, d, e, f)[5] = e /\ Six(a, b, c, d, e, f)[6] = f
  BY ListSix
<1>2. /\ (Six(a, b, c, d, e, f) \o <<g>>) \in Seq(Statements)
      /\ (Six(a, b, c, d, e, f) \o <<g>>) # <<>>
      /\ Len((Six(a, b, c, d, e, f) \o <<g>>)) = Len(Six(a, b, c, d, e, f)) + 1
      /\ (Six(a, b, c, d, e, f) \o <<g>>)[Len(Six(a, b, c, d, e, f)) + 1] = g
      /\ \A i \in 1..Len(Six(a, b, c, d, e, f)) :
           (Six(a, b, c, d, e, f) \o <<g>>)[i] = Six(a, b, c, d, e, f)[i]
  BY <1>1, OneMore
<1>3. /\ Seven(a, b, c, d, e, f, g) \in Seq(Statements) /\ Seven(a, b, c, d, e, f, g) # <<>>
      /\ Len(Seven(a, b, c, d, e, f, g)) = Len(Six(a, b, c, d, e, f)) + 1
      /\ Seven(a, b, c, d, e, f, g)[Len(Six(a, b, c, d, e, f)) + 1] = g
      /\ \A i \in 1..Len(Six(a, b, c, d, e, f)) :
           Seven(a, b, c, d, e, f, g)[i] = Six(a, b, c, d, e, f)[i]
  BY <1>2, Zenon DEF Seven
<1> QED BY <1>1, <1>3

\* And in parts.
\* A list put together from two is one list.
LEMMA InParts ==
  ASSUME NEW r \in Seq(Statements), NEW s \in Seq(Statements), NEW z \in Statements
  PROVE  r \o (s \o <<z>>) = (r \o s) \o <<z>>
OBVIOUS

\* So every list of statements the code runs is one of those lists.
LEMMA Parts12 ==
  ASSUME NEW a, NEW b, NEW c,
         a \in Statements, b \in Statements, c \in Statements
  PROVE  <<a>> \o Two(b, c) = Three(a, b, c)
<1>1. <<a>> \in Seq(Statements) /\ <<b>> \in Seq(Statements)
  OBVIOUS
<1>2. <<a>> \o Two(b, c) = (<<a>> \o <<b>>) \o <<c>>
  BY <1>1, InParts DEF Two
<1>3. <<a>> \o <<b>> = Two(a, b)
  BY Zenon DEF Two
<1> QED BY <1>2, <1>3, Zenon DEF Three

LEMMA Parts22 ==
  ASSUME NEW a, NEW b, NEW c, NEW d,
         a \in Statements, b \in Statements, c \in Statements, d \in Statements
  PROVE  Two(a, b) \o Two(c, d) = Four(a, b, c, d)
<1>1. Two(a, b) \in Seq(Statements) /\ <<c>> \in Seq(Statements)
  BY ListTwo
<1>2. Two(a, b) \o Two(c, d) = (Two(a, b) \o <<c>>) \o <<d>>
  BY <1>1, InParts DEF Two
<1>3. Two(a, b) \o <<c>> = Three(a, b, c)
  BY Zenon DEF Three
<1> QED BY <1>2, <1>3, Zenon DEF Four

LEMMA Parts32 ==
  ASSUME NEW a, NEW b, NEW c, NEW d, NEW e,
         a \in Statements, b \in Statements, c \in Statements, d \in Statements, e \in Statements
  PROVE  Three(a, b, c) \o Two(d, e) = Five(a, b, c, d, e)
<1>1. Three(a, b, c) \in Seq(Statements) /\ <<d>> \in Seq(Statements)
  BY ListThree
<1>2. Three(a, b, c) \o Two(d, e) = (Three(a, b, c) \o <<d>>) \o <<e>>
  BY <1>1, InParts DEF Two
<1>3. Three(a, b, c) \o <<d>> = Four(a, b, c, d)
  BY Zenon DEF Four
<1> QED BY <1>2, <1>3, Zenon DEF Five

LEMMA Parts13 ==
  ASSUME NEW a, NEW b, NEW c, NEW d,
         a \in Statements, b \in Statements, c \in Statements, d \in Statements
  PROVE  <<a>> \o Three(b, c, d) = Four(a, b, c, d)
<1>1. <<a>> \in Seq(Statements) /\ Two(b, c) \in Seq(Statements)
  BY ListTwo
<1>2. <<a>> \o Three(b, c, d) = (<<a>> \o Two(b, c)) \o <<d>>
  BY <1>1, InParts DEF Three
<1>3. <<a>> \o Two(b, c) = Three(a, b, c)
  BY Parts12
<1> QED BY <1>2, <1>3, Zenon DEF Four

LEMMA Parts23 ==
  ASSUME NEW a, NEW b, NEW c, NEW d, NEW e,
         a \in Statements, b \in Statements, c \in Statements, d \in Statements, e \in Statements
  PROVE  Two(a, b) \o Three(c, d, e) = Five(a, b, c, d, e)
<1>1. Two(a, b) \in Seq(Statements) /\ Two(c, d) \in Seq(Statements)
  BY ListTwo
<1>2. Two(a, b) \o Three(c, d, e) = (Two(a, b) \o Two(c, d)) \o <<e>>
  BY <1>1, InParts DEF Three
<1>3. Two(a, b) \o Two(c, d) = Four(a, b, c, d)
  BY Parts22
<1> QED BY <1>2, <1>3, Zenon DEF Five

LEMMA Parts14 ==
  ASSUME NEW a, NEW b, NEW c, NEW d, NEW e,
         a \in Statements, b \in Statements, c \in Statements, d \in Statements, e \in Statements
  PROVE  <<a>> \o Four(b, c, d, e) = Five(a, b, c, d, e)
<1>1. <<a>> \in Seq(Statements) /\ Three(b, c, d) \in Seq(Statements)
  BY ListThree
<1>2. <<a>> \o Four(b, c, d, e) = (<<a>> \o Three(b, c, d)) \o <<e>>
  BY <1>1, InParts DEF Four
<1>3. <<a>> \o Three(b, c, d) = Four(a, b, c, d)
  BY Parts13
<1> QED BY <1>2, <1>3, Zenon DEF Five

LEMMA Parts15 ==
  ASSUME NEW a, NEW b, NEW c, NEW d, NEW e, NEW f,
         a \in Statements, b \in Statements, c \in Statements, d \in Statements,
         e \in Statements, f \in Statements
  PROVE  <<a>> \o Five(b, c, d, e, f) = Six(a, b, c, d, e, f)
<1>1. <<a>> \in Seq(Statements) /\ Four(b, c, d, e) \in Seq(Statements)
  BY ListFour
<1>2. <<a>> \o Five(b, c, d, e, f) = (<<a>> \o Four(b, c, d, e)) \o <<f>>
  BY <1>1, InParts DEF Five
<1>3. <<a>> \o Four(b, c, d, e) = Five(a, b, c, d, e)
  BY Parts14
<1> QED BY <1>2, <1>3, Zenon DEF Six

LEMMA Parts16 ==
  ASSUME NEW a, NEW b, NEW c, NEW d, NEW e, NEW f, NEW g,
         a \in Statements, b \in Statements, c \in Statements, d \in Statements,
         e \in Statements, f \in Statements, g \in Statements
  PROVE  <<a>> \o Six(b, c, d, e, f, g) = Seven(a, b, c, d, e, f, g)
<1>1. <<a>> \in Seq(Statements) /\ Five(b, c, d, e, f) \in Seq(Statements)
  BY ListFive
<1>2. <<a>> \o Six(b, c, d, e, f, g) = (<<a>> \o Five(b, c, d, e, f)) \o <<g>>
  BY <1>1, InParts DEF Six
<1>3. <<a>> \o Five(b, c, d, e, f) = Six(a, b, c, d, e, f)
  BY Parts15
<1> QED BY <1>2, <1>3, Zenon DEF Seven

\* What a statement of each kind is.
LEMMA StatementForms ==
  /\ \A row \in Rows, mode \in Firm : (\A k \in Clients : row # Link(k)) =>
       Statement("take", {row}, mode) \in Statements
  /\ \A row \in Rows : (\A k \in Clients : row # Link(k)) =>
       Statement("hold", {row}, "update") \in Statements
  /\ \A row \in Rows :
       /\ Statement("found", {row}, None) \in Statements
       /\ Statement("assignable", {row}, None) \in Statements
       /\ Statement("insert", {row}, None) \in Statements
       /\ Statement("put", {row}, None) \in Statements
       /\ Statement("change", {row}, "nokey") \in Statements
       /\ Statement("assert", {row}, None) \in Statements
       /\ Statement("audience", {row}, "share") \in Statements
  /\ \A u \in Users : Statement("upsert", {Assignment(u)}, "update") \in Statements
  /\ \A rows \in SUBSET Rows : /\ Statement("free", rows, None) \in Statements
                               /\ Statement("delete", rows, "update") \in Statements
BY ZenonT(30), RowForms
DEF Statement, Statements, Sound, Deeds, Modes, Firm, Inserts, Assignment, Link

\* Which rows are on none, and which are on each.
LEMMA Childless ==
  ASSUME NEW row \in Rows
  PROVE  /\ capability \notin Parents(row)
         /\ \A k : /\ Link(k) \notin Parents(row) /\ Assignment(k) \notin Parents(row)
                  /\ Entitlement(k) \notin Parents(row)
<1>1. \A p \in Parents(row) :
        p[1] \in {"organization", "group", "resource", "client", "user", "member"}
  <2>1. \A p \in Principals : \A other \in PrincipalOf(p) :
          other = group \/ \E u \in Users : other = Member(u)
    BY PrincipalForms DEF Principals
  <2> QED BY <2>1, RowCases, ParentForms
          DEF client, Client, User, Member, organization, group, resource
<1> QED BY <1>1 DEF capability, Link, Assignment, Entitlement

\* Links are no other rows.
LEMMA NotLinks ==
  \A k : /\ Link(k) \notin {organization, group, resource, capability}
         /\ \A j : Link(k) # Client(j) /\ Link(k) # User(j) /\ Link(k) # Member(j)
                   /\ Link(k) # Assignment(j) /\ Link(k) # Entitlement(j)
BY DEF organization, group, resource, capability, Client, Link, User, Member, Assignment,
       Entitlement

\* Which rows rest on a row.
LEMMA Children ==
  ASSUME NEW row \in Rows
  PROVE  /\ group \in Parents(row) =>
              row = Entitlement("group") \/ \E u \in Users : row = Assignment(u)
         /\ \A u \in Users : /\ User(u) \in Parents(row) => row = Member(u)
                             /\ Member(u) \in Parents(row) => row \in Own(u)
         /\ \A k \in Clients : Client(k) \in Parents(row) =>
              row = Link(k) \/ (Client(k) = client /\ row \in AnyEntitlement \cup {capability})
         /\ resource \in Parents(row) =>
              row \in AnyEntitlement \cup {capability} \cup {Link(k) : k \in Clients}
         /\ organization \in Parents(row) =>
              row \in {group, capability} \cup AnyEntitlement \cup {Assignment(u) : u \in Users}
                      \cup {Member(u) : u \in Users}
<1>1. CASE row[1] \in {"organization", "resource", "client", "user"}
  BY <1>1 DEF Parents
<1>2. CASE row[1] = "group"
  BY <1>2, RowCases, ParentForms DEF organization, group, resource, capability, Client, Link, User,
     Member, Assignment, Entitlement
<1>3. CASE row[1] = "member"
  <2>1. PICK u \in Users : row = Member(u)
    BY <1>3, RowCases DEF organization, group, resource, capability, Client, Link, User, Member,
       Assignment, Entitlement
  <2>2. \A v : /\ group \notin {organization, User(u)} /\ Member(v) \notin {organization, User(u)}
               /\ resource \notin {organization, User(u)}
               /\ Client(v) \notin {organization, User(u)}
               /\ (User(v) \in {organization, User(u)} => v = u)
    BY DEF organization, group, resource, Client, User, Member
  <2> QED BY <2>1, <2>2, ParentForms
<1>4. CASE row[1] = "assignment"
  <2>1. PICK u \in Users : row = Assignment(u)
    BY <1>4, RowCases DEF organization, group, resource, capability, Client, Link, User, Member,
       Assignment, Entitlement
  <2>2. \A v : /\ User(v) \notin {organization, group, Member(u)}
               /\ resource \notin {organization, group, Member(u)}
               /\ Client(v) \notin {organization, group, Member(u)}
               /\ (Member(v) \in {organization, group, Member(u)} => v = u)
    BY DEF organization, group, resource, Client, User, Member
  <2> QED BY <2>1, <2>2, ParentForms DEF Own
<1>5. CASE row[1] = "entitlement"
  <2>1. PICK p \in Principals : row = Entitlement(p)
    BY <1>5, RowCases DEF organization, group, resource, capability, Client, Link, User, Member,
       Assignment, Entitlement
  <2>2. Parents(row) = {organization, client, resource} \cup PrincipalOf(p)
    BY <2>1, ParentForms
  <2>3. /\ group \notin {organization, client, resource}
        /\ \A v : User(v) \notin {organization, client, resource}
        /\ \A v : Member(v) \notin {organization, client, resource}
        /\ \A v : (Client(v) \in {organization, client, resource} => Client(v) = client)
    BY DEF organization, group, resource, client, Client, User, Member
  <2>4. \A other \in PrincipalOf(p) :
          \/ other = group /\ p = "group"
          \/ p \in Users /\ other = Member(p)
    BY PrincipalForms DEF Principals
  <2>5. /\ \A v : group # Member(v) /\ User(v) # group /\ Client(v) # group
        /\ \A v, w : /\ User(v) # Member(w) /\ Client(v) # Member(w)
                     /\ (Member(v) = Member(w) => v = w)
        /\ \A v : group # Client(v) /\ Member(v) # group
    BY DEF group, Client, User, Member
  <2>6. row \in AnyEntitlement
    BY <2>1 DEF AnyEntitlement
  <2> QED BY <2>1, <2>2, <2>3, <2>4, <2>5, <2>6 DEF Own
<1>6. CASE row[1] = "capability"
  <2>1. row = capability
    BY <1>6, RowCases DEF organization, group, resource, capability, Client, Link, User, Member,
       Assignment, Entitlement
  <2>2. /\ group \notin {organization, client, resource}
        /\ \A v : User(v) \notin {organization, client, resource}
        /\ \A v : Member(v) \notin {organization, client, resource}
        /\ \A v : (Client(v) \in {organization, client, resource} => Client(v) = client)
    BY DEF organization, group, resource, client, Client, User, Member
  <2> QED BY <2>1, <2>2, ParentForms
<1>7. CASE row[1] = "link"
  <2>1. PICK k \in Clients : row = Link(k)
    BY <1>7, RowCases DEF organization, group, resource, capability, Client, Link, User, Member,
       Assignment, Entitlement
  <2>2. /\ organization \notin {Client(k), resource} /\ group \notin {Client(k), resource}
        /\ \A v : User(v) \notin {Client(k), resource} /\ Member(v) \notin {Client(k), resource}
        /\ \A v : (Client(v) \in {Client(k), resource} => v = k)
    BY DEF organization, group, resource, Client, User, Member
  <2>3. Parents(row) = {Client(k), resource}
    BY <2>1, ParentForms
  <2> QED BY <2>1, <2>2, <2>3
<1> QED BY <1>1, <1>2, <1>3, <1>4, <1>5, <1>6, <1>7 DEF Rows, Tables

\* What is somebody's own.
LEMMA OwnForms ==
  /\ \A u : {group, capability} \cap Own(u) = {}
  /\ \A u, v : /\ Member(v) \notin Own(u) /\ Link(v) \notin Own(u)
               /\ Assignment(v) \in Own(u) \/ Entitlement(v) \in Own(u) => v = u
BY DEF Own, group, capability, Member, Link, Assignment, Entitlement

\* What is plain of a plan.
LEMMA PlainPlans ==
  ASSUME NEW o
  PROVE  /\ Without(o, {"delete"}) => PlansErasure(o)
         /\ o.name # "remove" => PlansRevocation(o)
         /\ Without(o, Inserts) => PlansAssignment(o)
         /\ o.name \notin Audited /\ Without(o, {"audience"}) => PlansAudience(o)
         /\ Takes(o, 1, "take", organization) => PlansWrites(o)
         /\ Without(o, {"assert"}) => PlansChange(o)
BY Zenon DEF Without, PlansErasure, PlansRevocation, PlansAssignment, PlansAudience, PlansWrites,
             PlansChange

\* The table a row is of, and its key there.
LEMMA Tags ==
  /\ organization[1] = "organization" /\ group[1] = "group" /\ resource[1] = "resource"
  /\ capability[1] = "capability"
  /\ \A k : /\ Client(k)[1] = "client" /\ Client(k)[2] = k
            /\ Link(k)[1] = "link" /\ Link(k)[2] = k
            /\ User(k)[1] = "user" /\ User(k)[2] = k
            /\ Member(k)[1] = "member" /\ Member(k)[2] = k
            /\ Assignment(k)[1] = "assignment" /\ Assignment(k)[2] = k
            /\ Entitlement(k)[1] = "entitlement" /\ Entitlement(k)[2] = k
BY DEF organization, group, resource, capability, Client, Link, User, Member, Assignment,
       Entitlement

\* Commands that lock no assignment, and no entitlement but a new one.
LEMMA PlainLocks ==
  ASSUME NEW o, o.name # "putMember",
         \A i \in DOMAIN o.next, row \in Rows, m \in Modes : Wants(o, i, row, m) =>
           row[1] # "assignment" /\ (row[1] = "entitlement" => m = "insert")
  PROVE  PlansShares(o) /\ PlansPutting(o) /\ InTurn(o)
<1>1. \A i \in DOMAIN o.next, u \in Users, m \in Modes : ~Wants(o, i, Assignment(u), m)
  <2>1. \A u \in Users : Assignment(u) \in Rows /\ Assignment(u)[1] = "assignment"
    BY RowForms, Tags
  <2> QED BY <2>1
<1>2. \A i \in DOMAIN o.next, u \in Users, m \in Firm : ~Wants(o, i, Entitlement(u), m)
  <2>1. \A u \in Users : Entitlement(u) \in Rows /\ Entitlement(u)[1] = "entitlement"
    BY RowForms, Tags DEF Principals
  <2>2. \A m \in Firm : m \in Modes /\ m # "insert"
    BY DEF Firm, Modes
  <2> QED BY <2>1, <2>2
<1>3. Firm \subseteq Modes /\ "share" \in Modes
  BY DEF Firm, Modes
<1>4. PlansShares(o)
  BY <1>1, <1>3 DEF PlansShares
<1>5. InTurn(o)
  BY <1>1, <1>2, <1>3, ZenonT(30) DEF InTurn
<1> QED BY <1>4, <1>5 DEF PlansPutting

\* Commands of a tenant that lock no application and no resource.
LEMMA TenantLocks ==
  ASSUME NEW o, Takes(o, 1, "take", organization), PlansInserts(o),
         o.name \in Crossing \/ InTurn(o),
         \A i \in DOMAIN o.next, row \in Rows, m \in Modes : Wants(o, i, row, m) =>
           row[1] \notin {"user", "link", "client", "resource"}
  PROVE  ByTenant(o)
BY Zenon DEF ByTenant

\* And those that share them at statements s and t.
SharesPolicy(o, s, t) ==
  /\ s \in Nat /\ t \in Nat /\ s \in 1..(t - 1)
  /\ o.next[t] = Statement("take", {resource}, "share")
  /\ \A i \in DOMAIN o.next, row \in Rows, m \in Modes : Wants(o, i, row, m) =>
       \/ row[1] \notin {"user", "link", "client", "resource"}
       \/ /\ row = client /\ o.next[s] = Statement("take", {client}, "share")
          /\ (i = s /\ m = "share") \/ (i > s /\ m = "key")
       \/ row = resource /\ ((i = t /\ m = "share") \/ (i > t /\ m = "key"))
LEMMA PolicyLocks ==
  ASSUME NEW o, Takes(o, 1, "take", organization), PlansInserts(o),
         o.name \in Crossing \/ InTurn(o),
         o.next \in Seq(Statements), NEW s, NEW t, SharesPolicy(o, s, t)
  PROVE  ByTenant(o)
<1>0. /\ s \in Nat /\ t \in Nat /\ s \in 1..(t - 1) /\ DOMAIN o.next = 1..Len(o.next)
      /\ o.next[t] = Statement("take", {resource}, "share")
      /\ \A i \in DOMAIN o.next, row \in Rows, m \in Modes : Wants(o, i, row, m) =>
           \/ row[1] \notin {"user", "link", "client", "resource"}
           \/ /\ row = client /\ o.next[s] = Statement("take", {client}, "share")
              /\ (i = s /\ m = "share") \/ (i > s /\ m = "key")
           \/ row = resource /\ ((i = t /\ m = "share") \/ (i > t /\ m = "key"))
  <2>1. DOMAIN o.next = 1..Len(o.next)
    OBVIOUS
  <2> QED BY <2>1, Zenon DEF SharesPolicy
<1>1. client[1] = "client" /\ resource[1] = "resource" /\ resource \in Rows /\ client # resource
  BY Tags, RowForms DEF client
<1>2. Len(o.next) \in Nat
  OBVIOUS
<1>3. ASSUME NEW i \in DOMAIN o.next, NEW row \in Rows, NEW m \in Modes, Wants(o, i, row, m),
             row[1] \in {"client", "resource"}
      PROVE  \/ /\ m = "key"
                /\ \E g \in 1..(i - 1) : o.next[g] = Statement("take", {row}, "share")
             \/ /\ m = "share"
                /\ \A j \in 1..i, n \in Modes : Wants(o, j, resource, n) =>
                     j = i /\ row = resource /\ n = "share"
  <2>1. \/ /\ row = client /\ o.next[s] = Statement("take", {client}, "share")
           /\ (i = s /\ m = "share") \/ (i > s /\ m = "key")
        \/ row = resource /\ ((i = t /\ m = "share") \/ (i > t /\ m = "key"))
    BY <1>0, <1>3
  <2>2. CASE m = "key"
    <3>1. (row = client /\ s \in 1..(i - 1)) \/ (row = resource /\ t \in 1..(i - 1))
      BY <1>0, <1>2, <2>1, <2>2
    <3> QED BY <1>0, <2>1, <2>2, <3>1, <1>1
  <2>3. CASE m = "share"
    <3>1. i <= t /\ (i = t => row = resource)
      BY <1>0, <2>1, <2>3
    <3>2. ASSUME NEW j \in 1..i, NEW n \in Modes, Wants(o, j, resource, n)
          PROVE  j = t /\ n = "share"
      <4>1. j \in DOMAIN o.next
        BY <1>0, <1>2
      <4>2. (j = t /\ n = "share") \/ (j > t /\ n = "key")
        BY <1>0, <1>1, <3>2, <4>1
      <4> QED BY <1>0, <3>1, <4>2
    <3> QED BY <2>3, <3>1, <3>2
  <2> QED BY <2>1, <2>2, <2>3
<1>4. ASSUME NEW i \in DOMAIN o.next, NEW row \in Rows, NEW m \in Modes, Wants(o, i, row, m)
      PROVE  row[1] \notin {"user", "link"}
  BY <1>0, <1>1, <1>4
<1> QED BY <1>3, <1>4, Zenon DEF ByTenant

\* A row locked, checked and changed.
LEMMA UpdateIsPlanned ==
  ASSUME NEW o, NEW row,
         NEW name \in Names \ (Audited \cup {"remove", "putMember", "eraseUser"}), NEW of \in Whoms,
         row \in {organization, resource} \/ (of \in Clients /\ row = Client(of)),
         o = Offer(name, of, Take(row, "update") \o assertRevision(row) \o Change(row))
  PROVE  Planned(o)
<1>1. o.name = name /\ o.of = of
      /\ o.next = Take(row, "update") \o assertRevision(row) \o Change(row)
  BY DEF Offer
<1>2. PICK a, b, c :
        /\ a = Statement("take", {row}, "update")
        /\ b = Statement("assert", {row}, None)
        /\ c = Statement("change", {row}, "nokey")
  BY Zenon
<1>3. a \in Statements /\ b \in Statements /\ c \in Statements
  BY <1>2, StatementForms, RowForms, NotLinks DEF Firm
<1>4. o.next = Three(a, b, c)
  BY <1>1, <1>2, Zenon DEF Two, Three, Take, assertRevision, Change
<1>5. /\ o.next \in Seq(Statements) /\ o.next # <<>> /\ Len(o.next) = 3 /\ DOMAIN o.next = 1..3
      /\ o.next[1] = a /\ o.next[2] = b /\ o.next[3] = c
  BY <1>3, <1>4, ListThree
<1>6. /\ o.next[1].do = "take" /\ o.next[2].do = "assert" /\ o.next[2].rows = {row}
      /\ o.next[3].do = "change" /\ o.next[3].rows = {row}
  BY <1>2, <1>5 DEF Statement
<1>7. Takes(o, 1, "take", row)
  BY <1>2, <1>5 DEF Takes
<1>8. Without(o, Inserts \cup {"delete", "audience"})
  BY <1>5, <1>6 DEF Without, Inserts
<1>9. /\ PlansErasure(o) /\ PlansRevocation(o) /\ PlansAssignment(o) /\ PlansAudience(o)
      /\ PlansWrites(o)
  <2>1. row # capability
    BY DEF organization, resource, capability, Client
  <2>2. PlansWrites(o)
    BY <1>5, <1>6, <2>1 DEF PlansWrites, Writing, Inserts
  <2> QED BY <1>1, <1>8, <2>2, PlainPlans DEF Without
<1>10. PlansChange(o)
  <2>1. WillAsk(o, row, 2)
    BY <1>6, <1>7 DEF WillAsk, WillSettle
  <2>2. Without(o, {"insert", "put", "delete", "upsert"})
    BY <1>8 DEF Without, Inserts
  <2>3. \A i \in 1..3 : o.next[i].do = "change" => i = 3 /\ o.next[i].rows = {row}
    BY <1>6
  <2>4. 2 \in 1..(3 - 1)
    OBVIOUS
  <2> QED BY <1>5, <2>1, <2>2, <2>3, <2>4 DEF PlansChange, Without
<1>11. ASSUME NEW other, NEW m
       PROVE  /\ Wants(o, 1, other, m) => other = row /\ m = "update"
              /\ ~Wants(o, 2, other, m)
              /\ Wants(o, 3, other, m) => other = row /\ m = "nokey"
  BY <1>1, <1>2, <1>5 DEF Wants, Locking, Statement, Inserts
<1>12. \A i \in DOMAIN o.next, other \in Rows, m \in Modes : Wants(o, i, other, m) =>
         other = row /\ m # "insert"
  BY <1>5, <1>11, Tags
<1>13. row \notin {Assignment(u) : u \in Users} /\ row[1] \notin {"assignment", "entitlement"}
  BY Tags
<1>14. PlansShares(o) /\ PlansPutting(o) /\ InTurn(o)
  BY <1>1, <1>12, <1>13, PlainLocks
<1>15. ByTenant(o) \/ ByClient(o) \/ ByResource(o)
  <2>1. CASE row = organization
    <3>1. PlansInserts(o)
      BY <1>12 DEF PlansInserts, Modes
    <3> QED BY <1>7, <1>12, <1>14, <2>1, <3>1, Tags, TenantLocks
  <2>2. CASE row = resource
    BY <1>7, <1>12, <2>2 DEF ByResource
  <2>3. CASE of \in Clients /\ row = Client(of)
    <3>1. resource # Client(of)
      BY Tags
    <3> QED BY <1>1, <1>7, <1>12, <2>3, <3>1 DEF ByClient
  <2> QED BY <2>1, <2>2, <2>3
<1>16. PlansLocks(o)
  BY <1>1, <1>14, <1>15 DEF PlansLocks
<1> QED BY <1>16, <1>1, <1>5, <1>9, <1>10 DEF Planned

LEMMA TenantUpdateIsPlanned ==
  ASSUME NEW o, NEW row \in {group} \cup {Member(u) : u \in Users},
         NEW name \in Names \ (Audited \cup {"remove", "putMember", "eraseUser"}), NEW of \in Whoms,
         o = Offer(name, of, lockOrganizationForCommand \o Take(row, "update")
                             \o assertRevision(row) \o Change(row))
  PROVE  Planned(o)
<1>1. o.name = name /\ o.of = of /\ o.next = lockOrganizationForCommand \o Take(row, "update")
                       \o assertRevision(row) \o Change(row)
  BY DEF Offer
<1>2. PICK a, b, c, d :
        /\ a = Statement("take", {organization}, "update")
        /\ b = Statement("take", {row}, "update")
        /\ c = Statement("assert", {row}, None)
        /\ d = Statement("change", {row}, "nokey")
  BY Zenon
<1>3. a \in Statements /\ b \in Statements /\ c \in Statements /\ d \in Statements
  BY <1>2, StatementForms, RowForms, NotLinks DEF Firm
<1>4. o.next = Four(a, b, c, d)
  BY <1>1, <1>2, Zenon DEF Two, Three, Four, lockOrganizationForCommand, Take, assertRevision,
     Change
<1>5. /\ o.next \in Seq(Statements) /\ o.next # <<>> /\ Len(o.next) = 4 /\ DOMAIN o.next = 1..4
      /\ o.next[1] = a /\ o.next[2] = b /\ o.next[3] = c /\ o.next[4] = d
  BY <1>3, <1>4, ListFour
<1>6. /\ o.next[1].do = "take" /\ o.next[2].do = "take" /\ o.next[3].do = "assert"
      /\ o.next[3].rows = {row} /\ o.next[4].do = "change" /\ o.next[4].rows = {row}
  BY <1>2, <1>5 DEF Statement
<1>7. Takes(o, 1, "take", organization) /\ Takes(o, 2, "take", row)
  BY <1>2, <1>5 DEF Takes
<1>8. Without(o, Inserts \cup {"delete", "audience"})
  BY <1>5, <1>6 DEF Without, Inserts
<1>9. /\ PlansErasure(o) /\ PlansRevocation(o) /\ PlansAssignment(o) /\ PlansAudience(o)
      /\ PlansWrites(o)
  BY <1>1, <1>7, <1>8, PlainPlans DEF Without
<1>10. PlansChange(o)
  <2>1. WillAsk(o, row, 3)
    BY <1>6, <1>7 DEF WillAsk, WillSettle
  <2>2. Without(o, {"insert", "put", "delete", "upsert"})
    BY <1>8 DEF Without, Inserts
  <2>3. \A i \in 1..4 : o.next[i].do = "change" => i = 4 /\ o.next[i].rows = {row}
    BY <1>6
  <2>4. 3 \in 1..(4 - 1)
    OBVIOUS
  <2> QED BY SMTT(30), <1>5, <2>1, <2>2, <2>3, <2>4 DEF PlansChange, Without
<1>11. ASSUME NEW other, NEW m
       PROVE  /\ Wants(o, 1, other, m) => other = organization /\ m = "update"
              /\ Wants(o, 2, other, m) => other = row /\ m = "update"
              /\ ~Wants(o, 3, other, m)
              /\ Wants(o, 4, other, m) => other = row /\ m = "nokey"
  BY <1>1, <1>2, <1>5 DEF Wants, Locking, Statement, Inserts
<1>12. \A i \in DOMAIN o.next, other \in Rows, m \in Modes : Wants(o, i, other, m) =>
         other[1] \in {"organization", "group", "member"}
  BY <1>5, <1>11, Tags
<1>13. PlansShares(o) /\ PlansPutting(o) /\ InTurn(o)
  BY <1>1, <1>12, PlainLocks
<1>14. PlansInserts(o)
  <2>1. "insert" \in Modes
    BY DEF Modes
  <2> QED BY <1>5, <1>11, <2>1, Tags DEF PlansInserts, Inserted
<1>15. ByTenant(o)
  BY <1>7, <1>12, <1>13, <1>14, TenantLocks
<1>16. PlansLocks(o)
  BY <1>1, <1>13, <1>15 DEF PlansLocks
<1> QED BY <1>16, <1>1, <1>5, <1>9, <1>10 DEF Planned

\* What is offered of capabilities.
LEMMA UpdateCapabilityIsPlanned ==
  ASSUME NEW o, o = Offer("updateCapability", "it", updateCapability)
  PROVE  Planned(o)
<1>1. o.name = "updateCapability" /\ o.of = "it" /\ o.next = updateCapability
  BY DEF Offer
<1>2. PICK a, b, c, d, e, f :
        /\ a = Statement("take", {organization}, "update")
        /\ b = Statement("found", {capability}, None)
        /\ c = Statement("assert", {capability}, None)
        /\ d = Statement("take", {client}, "share")
        /\ e = Statement("take", {resource}, "share")
        /\ f = Statement("change", {capability}, "nokey")
  BY Zenon
<1>3. a \in Statements /\ b \in Statements /\ c \in Statements /\ d \in Statements
      /\ e \in Statements /\ f \in Statements
  BY <1>2, StatementForms, RowForms, NotLinks DEF Firm, client, Clients
<1>4. o.next = Six(a, b, c, d, e, f)
  <2>1. Three(a, b, c) \o Two(d, e) = Five(a, b, c, d, e)
    BY <1>3, Parts32
  <2> QED BY <1>1, <1>2, <2>1, Zenon DEF Two, Three, Six, updateCapability,
         lockOrganizationForCommand, Take, Found, assertRevision, validateTarget, readClient,
         readResourceForPolicy, Change
<1>5. /\ o.next \in Seq(Statements) /\ o.next # <<>> /\ Len(o.next) = 6 /\ DOMAIN o.next = 1..6
      /\ o.next[1] = a /\ o.next[2] = b /\ o.next[3] = c /\ o.next[4] = d /\ o.next[5] = e
      /\ o.next[6] = f
  BY <1>3, <1>4, ListSix
<1>6. /\ o.next[1].do = "take" /\ o.next[2].do = "found" /\ o.next[3].do = "assert"
      /\ o.next[3].rows = {capability} /\ o.next[4].do = "take" /\ o.next[5].do = "take"
      /\ o.next[6].do = "change" /\ o.next[6].rows = {capability}
  BY <1>2, <1>5 DEF Statement
<1>7. Takes(o, 1, "take", organization)
  BY <1>2, <1>5 DEF Takes
<1>8. Without(o, Inserts \cup {"delete", "audience"})
  BY <1>5, <1>6 DEF Without, Inserts
<1>9. /\ PlansErasure(o) /\ PlansRevocation(o) /\ PlansAssignment(o) /\ PlansAudience(o)
      /\ PlansWrites(o)
  BY <1>1, <1>7, <1>8, PlainPlans DEF Without, Audited
<1>10. PlansChange(o)
  <2>1. WillAsk(o, capability, 3)
    BY <1>6, <1>7 DEF WillAsk
  <2>2. Without(o, {"insert", "put", "delete", "upsert"})
    BY <1>8 DEF Without, Inserts
  <2>3. \A i \in 1..6 : o.next[i].do = "change" => i = 6 /\ o.next[i].rows = {capability}
    BY <1>6
  <2>4. 3 \in 1..(6 - 1)
    OBVIOUS
  <2> QED BY SMTT(30), <1>5, <2>1, <2>2, <2>3, <2>4 DEF PlansChange, Without
<1>11. o.name \in Names /\ o.of \in Whoms
  BY <1>1 DEF Names, Whoms
<1>12. ASSUME NEW other, NEW m
       PROVE  /\ Wants(o, 1, other, m) => other = organization /\ m = "update"
              /\ ~Wants(o, 2, other, m)
              /\ ~Wants(o, 3, other, m)
              /\ Wants(o, 4, other, m) => other = client /\ m = "share"
              /\ Wants(o, 5, other, m) => other = resource /\ m = "share"
              /\ Wants(o, 6, other, m) => other = capability /\ m = "nokey"
  BY <1>1, <1>2, <1>5 DEF Wants, Locking, Statement, Inserts
<1>13. \A i \in DOMAIN o.next, other \in Rows, m \in Modes : Wants(o, i, other, m) =>
         other[1] # "assignment" /\ (other[1] = "entitlement" => m = "insert")
  BY SMTT(30), <1>5, <1>12, Tags DEF client
<1>14. PlansShares(o) /\ PlansPutting(o) /\ InTurn(o)
  BY <1>1, <1>13, PlainLocks
<1>15. PlansInserts(o)
  <2>1. "insert" \in Modes
    BY DEF Modes
  <2> QED BY <1>5, <1>12, <2>1, Tags DEF PlansInserts, Inserted
<1>16. ByTenant(o)
  <2>1. SharesPolicy(o, 4, 5)
    BY <1>2, <1>5, <1>12, Tags DEF SharesPolicy
  <2> QED BY <1>5, <1>7, <1>14, <1>15, <2>1, PolicyLocks
<1>17. PlansLocks(o)
  BY <1>1, <1>14, <1>16 DEF PlansLocks
<1> QED BY <1>17, <1>5, <1>9, <1>10, <1>11 DEF Planned

LEMMA CreateCapabilityIsPlanned ==
  ASSUME NEW o, o = Offer("createCapability", "it", createCapability)
  PROVE  Planned(o)
<1>1. o.name = "createCapability" /\ o.of = "it" /\ o.next = createCapability
  BY DEF Offer
<1>2. PICK a, b, c, d :
        /\ a = Statement("take", {organization}, "update")
        /\ b = Statement("take", {client}, "share")
        /\ c = Statement("take", {resource}, "share")
        /\ d = Statement("insert", {capability}, None)
  BY Zenon
<1>3. a \in Statements /\ b \in Statements /\ c \in Statements /\ d \in Statements
  BY <1>2, StatementForms, RowForms, NotLinks DEF Firm, client, Clients
<1>4. o.next = Four(a, b, c, d)
  <2>1. <<a>> \o Two(b, c) = Three(a, b, c)
    BY <1>3, Parts12
  <2> QED BY <1>1, <1>2, <2>1, Zenon DEF Two, Four, createCapability, lockOrganizationForCommand,
         Take, validateTarget, readClient, readResourceForPolicy, Insert
<1>5. /\ o.next \in Seq(Statements) /\ o.next # <<>> /\ Len(o.next) = 4 /\ DOMAIN o.next = 1..4
      /\ o.next[1] = a /\ o.next[2] = b /\ o.next[3] = c /\ o.next[4] = d
  BY <1>3, <1>4, ListFour
<1>6. /\ o.next[1].do = "take" /\ o.next[2].do = "take" /\ o.next[3].do = "take"
      /\ o.next[4].do = "insert" /\ o.next[4].rows = {capability}
  BY <1>2, <1>5 DEF Statement
<1>7. Takes(o, 1, "take", organization)
  BY <1>2, <1>5 DEF Takes
<1>8. Without(o, {"delete", "assert", "audience"})
  BY <1>5, <1>6 DEF Without
<1>9. /\ PlansErasure(o) /\ PlansRevocation(o) /\ PlansAudience(o) /\ PlansWrites(o)
      /\ PlansChange(o)
  BY <1>1, <1>7, <1>8, PlainPlans DEF Without, Audited
<1>10. PlansAssignment(o)
  BY <1>5, <1>6, OwnForms DEF PlansAssignment, Inserts
<1>11. o.name \in Names /\ o.of \in Whoms
  BY <1>1 DEF Names, Whoms
<1>12. ASSUME NEW other, NEW m
       PROVE  /\ Wants(o, 1, other, m) => other = organization /\ m = "update"
              /\ Wants(o, 2, other, m) => other = client /\ m = "share"
              /\ Wants(o, 3, other, m) => other = resource /\ m = "share"
              /\ Wants(o, 4, other, m) =>
                   \/ m = "insert" /\ other = capability
                   \/ m = "key" /\ other \in Parents(capability)
  BY <1>1, <1>2, <1>5, NotLinks DEF Wants, Locking, Statement, Inserts
<1>13. \A i \in DOMAIN o.next, other \in Rows, m \in Modes : Wants(o, i, other, m) =>
         other[1] # "assignment" /\ (other[1] = "entitlement" => m = "insert")
  BY <1>5, <1>12, Tags, ParentForms DEF client
<1>14. PlansShares(o) /\ PlansPutting(o) /\ InTurn(o)
  BY <1>1, <1>13, PlainLocks
<1>15. PlansInserts(o)
  <2>1. "insert" \in Modes
    BY DEF Modes
  <2> QED BY <1>5, <1>12, <2>1, Tags DEF PlansInserts, Inserted
<1>16. ByTenant(o)
  <2>1. SharesPolicy(o, 2, 3)
    BY <1>2, <1>5, <1>12, Tags, ParentForms DEF SharesPolicy
  <2> QED BY <1>5, <1>7, <1>14, <1>15, <2>1, PolicyLocks
<1>17. PlansLocks(o)
  BY <1>1, <1>14, <1>16 DEF PlansLocks
<1> QED BY <1>17, <1>5, <1>9, <1>10, <1>11 DEF Planned

LEMMA RemoveCapabilityIsPlanned ==
  ASSUME NEW o, o = Offer("removeCapability", "it", removeCapability)
  PROVE  Planned(o)
<1>1. o.name = "removeCapability" /\ o.of = "it" /\ o.next = removeCapability
  BY DEF Offer
<1>2. PICK a, b, c :
        /\ a = Statement("take", {organization}, "update")
        /\ b = Statement("found", {capability}, None)
        /\ c = Statement("delete", {capability}, "update")
  BY Zenon
<1>3. a \in Statements /\ b \in Statements /\ c \in Statements
  BY <1>2, StatementForms, RowForms, NotLinks DEF Firm
<1>4. o.next = Three(a, b, c)
  BY <1>1, <1>2, Zenon DEF Two, Three, removeCapability, lockOrganizationForCommand, Take, Found,
     Delete
<1>5. /\ o.next \in Seq(Statements) /\ o.next # <<>> /\ Len(o.next) = 3 /\ DOMAIN o.next = 1..3
      /\ o.next[1] = a /\ o.next[2] = b /\ o.next[3] = c
  BY <1>3, <1>4, ListThree
<1>6. /\ o.next[1].do = "take" /\ o.next[2].do = "found" /\ o.next[3].do = "delete"
      /\ o.next[3].rows = {capability}
  BY <1>2, <1>5 DEF Statement
<1>7. Takes(o, 1, "take", organization)
  BY <1>2, <1>5 DEF Takes
<1>8. Without(o, Inserts \cup {"assert", "audience"})
  BY <1>5, <1>6 DEF Without, Inserts
<1>9. /\ PlansRevocation(o) /\ PlansAssignment(o) /\ PlansAudience(o) /\ PlansWrites(o)
      /\ PlansChange(o)
  BY <1>1, <1>7, <1>8, PlainPlans DEF Without, Audited
<1>10. PlansErasure(o)
  BY <1>5, <1>6, <1>8, Childless DEF PlansErasure, Without
<1>11. o.name \in Names /\ o.of \in Whoms
  BY <1>1 DEF Names, Whoms
<1>12. ASSUME NEW other, NEW m
       PROVE  /\ Wants(o, 1, other, m) => other = organization /\ m = "update"
              /\ ~Wants(o, 2, other, m)
              /\ Wants(o, 3, other, m) => other = capability /\ m = "update"
  BY <1>1, <1>2, <1>5, NotLinks DEF Wants, Locking, Statement, Inserts
<1>13. \A i \in DOMAIN o.next, other \in Rows, m \in Modes : Wants(o, i, other, m) =>
         other[1] \in {"organization", "capability"}
  BY <1>5, <1>12, Tags
<1>14. PlansShares(o) /\ PlansPutting(o) /\ InTurn(o)
  BY <1>1, <1>13, PlainLocks
<1>15. PlansInserts(o)
  <2>1. "insert" \in Modes
    BY DEF Modes
  <2> QED BY <1>5, <1>12, <2>1, Tags DEF PlansInserts, Inserted
<1>16. ByTenant(o)
  BY <1>7, <1>13, <1>14, <1>15, TenantLocks
<1>17. PlansLocks(o)
  BY <1>1, <1>14, <1>16 DEF PlansLocks
<1> QED BY <1>17, <1>5, <1>9, <1>10, <1>11 DEF Planned

\* What is offered of groups.
LEMMA CreateGroupIsPlanned ==
  ASSUME NEW o, o = Offer("createGroup", "it", createGroup)
  PROVE  Planned(o)
<1>1. o.name = "createGroup" /\ o.of = "it" /\ o.next = createGroup
  BY DEF Offer
<1>2. PICK a, b :
        /\ a = Statement("take", {organization}, "update")
        /\ b = Statement("insert", {group}, None)
  BY Zenon
<1>3. a \in Statements /\ b \in Statements
  BY <1>2, StatementForms, RowForms, NotLinks DEF Firm
<1>4. o.next = Two(a, b)
  BY <1>1, <1>2, Zenon DEF Two, createGroup, lockOrganizationForCommand, Take, Insert
<1>5. /\ o.next \in Seq(Statements) /\ o.next # <<>> /\ Len(o.next) = 2 /\ DOMAIN o.next = 1..2
      /\ o.next[1] = a /\ o.next[2] = b
  BY <1>3, <1>4, ListTwo
<1>6. o.next[1].do = "take" /\ o.next[2].do = "insert" /\ o.next[2].rows = {group}
  BY <1>2, <1>5 DEF Statement
<1>7. Takes(o, 1, "take", organization)
  BY <1>2, <1>5 DEF Takes
<1>8. Without(o, {"delete", "assert", "audience"})
  BY <1>5, <1>6 DEF Without
<1>9. /\ PlansErasure(o) /\ PlansRevocation(o) /\ PlansAudience(o) /\ PlansWrites(o)
      /\ PlansChange(o)
  BY <1>1, <1>7, <1>8, PlainPlans DEF Without, Audited
<1>10. PlansAssignment(o)
  BY <1>5, <1>6, OwnForms DEF PlansAssignment, Inserts
<1>11. o.name \in Names /\ o.of \in Whoms
  BY <1>1 DEF Names, Whoms
<1>12. ASSUME NEW other, NEW m
       PROVE  /\ Wants(o, 1, other, m) => other = organization /\ m = "update"
              /\ Wants(o, 2, other, m) =>
                   \/ m = "insert" /\ other = group
                   \/ m = "key" /\ other \in Parents(group)
  BY <1>1, <1>2, <1>5, NotLinks DEF Wants, Locking, Statement, Inserts
<1>13. \A i \in DOMAIN o.next, other \in Rows, m \in Modes : Wants(o, i, other, m) =>
         other[1] \in {"organization", "group"}
  BY <1>5, <1>12, Tags, ParentForms
<1>14. PlansShares(o) /\ PlansPutting(o) /\ InTurn(o)
  BY <1>1, <1>13, PlainLocks
<1>15. PlansInserts(o)
  <2>1. "insert" \in Modes
    BY DEF Modes
  <2> QED BY <1>5, <1>12, <2>1, Tags DEF PlansInserts, Inserted
<1>16. ByTenant(o)
  BY <1>7, <1>13, <1>14, <1>15, TenantLocks
<1>17. PlansLocks(o)
  BY <1>1, <1>14, <1>16 DEF PlansLocks
<1> QED BY <1>17, <1>5, <1>9, <1>10, <1>11 DEF Planned

LEMMA RemoveMemberIsPlanned ==
  ASSUME NEW u \in Users, NEW o, o = Offer("removeMember", u, removeMember(u))
  PROVE  Planned(o)
<1>1. o.name = "removeMember" /\ o.of = u /\ o.next = removeMember(u)
  BY DEF Offer
<1>2. PICK a, b, c, d :
        /\ a = Statement("take", {organization}, "update")
        /\ b = Statement("take", {group}, "update")
        /\ c = Statement("take", {Assignment(u)}, "update")
        /\ d = Statement("delete", {Assignment(u)}, "update")
  BY Zenon
<1>3. a \in Statements /\ b \in Statements /\ c \in Statements /\ d \in Statements
  BY <1>2, StatementForms, RowForms, NotLinks DEF Firm
<1>4. o.next = Four(a, b, c, d)
  BY <1>1, <1>2, Zenon DEF Two, Three, Four, removeMember, lockedGroup,
     lockOrganizationForCommand, Take, Delete
<1>5. /\ o.next \in Seq(Statements) /\ o.next # <<>> /\ Len(o.next) = 4 /\ DOMAIN o.next = 1..4
      /\ o.next[1] = a /\ o.next[2] = b /\ o.next[3] = c /\ o.next[4] = d
  BY <1>3, <1>4, ListFour
<1>6. /\ o.next[1].do = "take" /\ o.next[2].do = "take" /\ o.next[3].do = "take"
      /\ o.next[4].do = "delete" /\ o.next[4].rows = {Assignment(u)}
  BY <1>2, <1>5 DEF Statement
<1>7. Takes(o, 1, "take", organization)
  BY <1>2, <1>5 DEF Takes
<1>8. Without(o, Inserts \cup {"assert", "audience"})
  BY <1>5, <1>6 DEF Without, Inserts
<1>9. /\ PlansRevocation(o) /\ PlansAssignment(o) /\ PlansAudience(o) /\ PlansWrites(o)
      /\ PlansChange(o)
  BY <1>1, <1>7, <1>8, PlainPlans DEF Without, Audited
<1>10. PlansErasure(o)
  BY <1>5, <1>6, <1>8, Childless DEF PlansErasure, Without
<1>11. o.name \in Names /\ o.of \in Whoms
  BY <1>1 DEF Names, Whoms
<1>12. ASSUME NEW other, NEW m
       PROVE  /\ Wants(o, 1, other, m) => other = organization /\ m = "update"
              /\ Wants(o, 2, other, m) => other = group /\ m = "update"
              /\ Wants(o, 3, other, m) => other = Assignment(u) /\ m = "update"
              /\ Wants(o, 4, other, m) => other = Assignment(u) /\ m = "update"
  BY <1>1, <1>2, <1>5, NotLinks DEF Wants, Locking, Statement, Inserts
<1>13. \A i \in DOMAIN o.next, other \in Rows, m \in Modes : Wants(o, i, other, m) =>
         /\ other[1] \in {"organization", "group", "assignment"}
         /\ other[1] = "assignment" => m = "update"
  BY <1>5, <1>12, Tags
<1>14. PlansShares(o) /\ PlansPutting(o) /\ InTurn(o)
  <2>1. PlansPutting(o)
    BY <1>1 DEF PlansPutting
  <2>2. \A v \in Users : Member(v) \in Rows /\ Assignment(v) \in Rows /\ Entitlement(v) \in Rows
    BY RowForms DEF Principals
  <2>3. Firm \subseteq Modes /\ "insert" \notin Firm /\ {"share", "update"} \subseteq Modes
    BY DEF Firm, Modes
  <2>4. \A v \in Users, m, n \in Firm, i, j \in DOMAIN o.next : j <= i =>
          /\ ~(Wants(o, i, Member(v), m) /\ Wants(o, j, Entitlement(v), n))
          /\ ~(Wants(o, i, Entitlement(v), m) /\ Wants(o, j, Assignment(v), n))
          /\ ~(Wants(o, i, Member(v), m) /\ Wants(o, j, Assignment(v), n))
    BY <1>5, <1>13, <2>2, <2>3, Tags
  <2>5. InTurn(o)
    BY <2>4 DEF InTurn
  <2>6. PlansShares(o)
    <3>1. \A i \in DOMAIN o.next, v \in Users : Wants(o, i, Assignment(v), "share") => FALSE
      BY <1>13, <2>2, <2>3, Tags
    <3> QED BY <1>5, <1>6, <3>1 DEF PlansShares
  <2> QED BY <2>1, <2>5, <2>6
<1>15. PlansInserts(o)
  <2>1. "insert" \in Modes
    BY DEF Modes
  <2> QED BY <1>5, <1>12, <2>1, Tags DEF PlansInserts, Inserted
<1>16. ByTenant(o)
  BY <1>7, <1>13, <1>14, <1>15, TenantLocks
<1>17. PlansLocks(o)
  BY <1>1, <1>14, <1>16 DEF PlansLocks
<1> QED BY <1>17, <1>5, <1>9, <1>10, <1>11 DEF Planned

LEMMA PutMemberIsPlanned ==
  ASSUME NEW u \in Users, NEW o, o = Offer("putMember", u, putMember(u))
  PROVE  Planned(o)
<1>1. o.name = "putMember" /\ o.of = u /\ o.next = putMember(u)
  BY DEF Offer
<1>2. PICK a, b, c, d, e, f :
        /\ a = Statement("take", {organization}, "update")
        /\ b = Statement("take", {group}, "update")
        /\ c = Statement("assignable", {Member(u)}, None)
        /\ d = Statement("hold", {Assignment(u)}, "update")
        /\ e = Statement("assert", {Assignment(u)}, None)
        /\ f = Statement("upsert", {Assignment(u)}, "update")
  BY Zenon
<1>3. a \in Statements /\ b \in Statements /\ c \in Statements /\ d \in Statements
      /\ e \in Statements /\ f \in Statements
  BY <1>2, StatementForms, RowForms, NotLinks DEF Firm
<1>4. o.next = Six(a, b, c, d, e, f)
  BY <1>1, <1>2, Zenon DEF Two, Three, Four, Five, Six, putMember, lockedGroup,
     lockOrganizationForCommand, Take, findMemberForAssignment, Hold, assertRevision, Upsert
<1>5. /\ o.next \in Seq(Statements) /\ o.next # <<>> /\ Len(o.next) = 6 /\ DOMAIN o.next = 1..6
      /\ o.next[1] = a /\ o.next[2] = b /\ o.next[3] = c /\ o.next[4] = d /\ o.next[5] = e
      /\ o.next[6] = f
  BY <1>3, <1>4, ListSix
<1>6. /\ o.next[1].do = "take" /\ o.next[2].do = "take" /\ o.next[3].do = "assignable"
      /\ o.next[4].do = "hold" /\ o.next[5].do = "assert" /\ o.next[5].rows = {Assignment(u)}
      /\ o.next[6].do = "upsert" /\ o.next[6].rows = {Assignment(u)}
  BY <1>2, <1>5 DEF Statement
<1>7. Takes(o, 1, "take", organization) /\ Takes(o, 4, "hold", Assignment(u))
  BY <1>2, <1>5 DEF Takes
<1>8. Without(o, {"insert", "put", "delete", "audience", "change"})
  BY SMTT(30), <1>5, <1>6 DEF Without
<1>9. /\ PlansErasure(o) /\ PlansRevocation(o) /\ PlansAudience(o) /\ PlansWrites(o)
      /\ PlansAssignment(o)
  <2>1. \A i \in 1..6 : o.next[i].do \in Inserts => i = 6
    BY <1>6 DEF Inserts
  <2>2. \A v \in Users : Own(v) \cap {Assignment(u)} # {} => v = u
    BY OwnForms
  <2>3. 3 \in 1..(6 - 1)
    OBVIOUS
  <2>4. PlansAssignment(o)
    BY <1>1, <1>5, <1>6, <1>7, <2>1, <2>2, <2>3, Zenon DEF PlansAssignment
  <2> QED BY <1>1, <1>7, <1>8, <2>4, PlainPlans DEF Without, Audited
<1>10. PlansChange(o)
  <2>1. organization \in Parents(Assignment(u))
    BY ParentForms
  <2>2. WillSettle(o, Assignment(u), 5)
    BY <1>7, <2>1 DEF WillSettle
  <2>3. WillAsk(o, Assignment(u), 5)
    BY <1>6, <2>2 DEF WillAsk
  <2>4. \A i \in 1..6 : o.next[i].do = "upsert" => i = 6 /\ o.next[i].rows = {Assignment(u)}
    BY <1>6
  <2>5. Without(o, {"insert", "put", "delete"}) /\ Without(o, {"change"})
    BY <1>8 DEF Without
  <2>6. 5 \in 1..(6 - 1)
    OBVIOUS
  <2> QED BY SMTT(30), <1>5, <2>3, <2>4, <2>5, <2>6 DEF PlansChange, Without
<1>11. o.name \in Names /\ o.of \in Whoms
  BY <1>1 DEF Names, Whoms
<1>12. ASSUME NEW other, NEW m
       PROVE  /\ Wants(o, 1, other, m) => other = organization /\ m = "update"
              /\ Wants(o, 2, other, m) => other = group /\ m = "update"
              /\ ~Wants(o, 3, other, m)
              /\ Wants(o, 4, other, m) => other = Assignment(u) /\ m = "update"
              /\ ~Wants(o, 5, other, m)
              /\ Wants(o, 6, other, m) =>
                   \/ m = "insert" /\ other = Assignment(u)
                   \/ m = "key" /\ other \in Parents(Assignment(u))
  BY SMTT(30), <1>1, <1>2, <1>5, NotLinks DEF Wants, Locking, Statement, Inserts
<1>13. \A i \in DOMAIN o.next, other \in Rows, m \in Modes : Wants(o, i, other, m) =>
         /\ other[1] \in {"organization", "group", "member", "assignment"}
         /\ other[1] = "member" => i = 6 /\ m = "key" /\ other = Member(u)
         /\ other[1] = "assignment" => m \in {"update", "insert"} /\ other = Assignment(u)
  BY <1>5, <1>12, Tags, ParentForms
<1>14. PlansShares(o) /\ PlansPutting(o) /\ InTurn(o)
  <2>1. \A v \in Users : Member(v) \in Rows /\ Assignment(v) \in Rows /\ Entitlement(v) \in Rows
    BY RowForms DEF Principals
  <2>2. Firm \subseteq Modes /\ "insert" \notin Firm /\ {"share", "update"} \subseteq Modes
    BY DEF Firm, Modes
  <2>3. PlansPutting(o)
    <3>1. Without(o, {"delete"})
      BY <1>8 DEF Without
    <3>2. \A i \in 1..6 : o.next[i].do \in Inserts => i = 6
      BY <1>6 DEF Inserts
    <3>3. \A i \in 1..6 : Wants(o, i, Member(u), "key") => i = 6
      BY <1>5, <1>13, <2>1, Tags DEF Modes
    <3>4. "upsert" \in Inserts
      BY DEF Inserts
    <3> QED BY <1>1, <1>5, <1>6, <1>7, <3>1, <3>2, <3>3, <3>4, Zenon DEF PlansPutting
  <2>4. \A v \in Users, m, n \in Firm, i, j \in DOMAIN o.next : j <= i =>
          /\ ~(Wants(o, i, Member(v), m) /\ Wants(o, j, Entitlement(v), n))
          /\ ~(Wants(o, i, Entitlement(v), m) /\ Wants(o, j, Assignment(v), n))
          /\ Wants(o, i, Member(v), m) /\ Wants(o, j, Assignment(v), n) =>
               o.of = v /\ m = "key" /\ n = "update"
    BY SMTT(30), <1>1, <1>5, <1>13, <2>1, <2>2, Tags
  <2>5. InTurn(o)
    BY <1>1, <2>4 DEF InTurn
  <2>6. PlansShares(o)
    BY <1>5, <1>6, <1>13, <2>1, <2>2, Tags DEF PlansShares
  <2> QED BY <2>3, <2>5, <2>6
<1>15. PlansInserts(o)
  <2>1. "insert" \in Modes
    BY DEF Modes
  <2> QED BY <1>5, <1>12, <2>1, Tags DEF PlansInserts, Inserted
<1>16. ByTenant(o)
  BY <1>7, <1>13, <1>14, <1>15, TenantLocks
<1>17. PlansLocks(o)
  BY <1>1, <1>14, <1>16 DEF PlansLocks
<1> QED BY <1>17, <1>5, <1>9, <1>10, <1>11 DEF Planned

LEMMA EraseGroupIsPlanned ==
  ASSUME NEW o, o = Offer("eraseGroup", "it", eraseGroup)
  PROVE  Planned(o)
<1>1. o.name = "eraseGroup" /\ o.of = "it" /\ o.next = eraseGroup
  BY DEF Offer
<1>2. PICK a, b, c, d, e :
        /\ a = Statement("take", {organization}, "update")
        /\ b = Statement("take", {group}, "update")
        /\ c = Statement("delete", {Assignment(u) : u \in Users}, "update")
        /\ d = Statement("delete", {Entitlement("group")}, "update")
        /\ e = Statement("delete", {group}, "update")
  BY Zenon
<1>3. a \in Statements /\ b \in Statements /\ c \in Statements /\ d \in Statements
      /\ e \in Statements
  BY <1>2, StatementForms, RowForms, NotLinks DEF Firm, Principals
<1>4. o.next = Five(a, b, c, d, e)
  <2>1. Two(a, b) \o Three(c, d, e) = Five(a, b, c, d, e)
    BY <1>3, Parts23
  <2> QED BY <1>1, <1>2, <2>1, Zenon DEF Two, Three, eraseGroup, lockedGroup,
         lockOrganizationForCommand, Take, deleteGroup, Delete
<1>5. /\ o.next \in Seq(Statements) /\ o.next # <<>> /\ Len(o.next) = 5 /\ DOMAIN o.next = 1..5
      /\ o.next[1] = a /\ o.next[2] = b /\ o.next[3] = c /\ o.next[4] = d /\ o.next[5] = e
  BY <1>3, <1>4, ListFive
<1>6. /\ o.next[1].do = "take" /\ o.next[2].do = "take" /\ o.next[3].do = "delete"
      /\ o.next[3].rows = {Assignment(u) : u \in Users} /\ o.next[4].do = "delete"
      /\ o.next[4].rows = {Entitlement("group")} /\ o.next[5].do = "delete"
      /\ o.next[5].rows = {group}
  BY <1>2, <1>5 DEF Statement
<1>7. Takes(o, 1, "take", organization) /\ Takes(o, 2, "take", group)
  BY <1>2, <1>5 DEF Takes
<1>8. Without(o, Inserts \cup {"assert", "audience"})
  BY <1>5, <1>6 DEF Without, Inserts
<1>9. /\ PlansRevocation(o) /\ PlansAssignment(o) /\ PlansAudience(o) /\ PlansWrites(o)
      /\ PlansChange(o)
  BY <1>1, <1>7, <1>8, PlainPlans DEF Without, Audited
<1>10. PlansErasure(o)
  <2>1. ASSUME NEW row \in Rows, group \in Parents(row) PROVE WillClear(o, row, 5)
    <3>1. WillSettle(o, group, 3) /\ WillSettle(o, group, 4)
      BY <1>7 DEF WillSettle
    <3> QED BY <1>6, <2>1, <3>1, Children DEF WillClear
  <2> QED BY <1>5, <1>6, <1>8, <2>1, Childless DEF PlansErasure, Without
<1>11. o.name \in Names /\ o.of \in Whoms
  BY <1>1 DEF Names, Whoms
<1>12. ASSUME NEW other, NEW m
       PROVE  /\ Wants(o, 1, other, m) => other = organization /\ m = "update"
              /\ Wants(o, 2, other, m) => other = group /\ m = "update"
              /\ Wants(o, 3, other, m) => m = "update" /\ \E v \in Users : other = Assignment(v)
              /\ Wants(o, 4, other, m) => other = Entitlement("group") /\ m = "update"
              /\ Wants(o, 5, other, m) => other = group /\ m = "update"
  BY <1>1, <1>2, <1>5, NotLinks DEF Wants, Locking, Statement, Inserts
<1>13. \A i \in DOMAIN o.next, other \in Rows, m \in Modes : Wants(o, i, other, m) =>
         /\ other[1] \in {"organization", "group", "entitlement", "assignment"}
         /\ other[1] = "entitlement" => other[2] = "group"
         /\ other[1] = "assignment" => m = "update"
  BY <1>5, <1>12, Tags
<1>14. PlansShares(o) /\ PlansPutting(o) /\ InTurn(o)
  <2>1. PlansPutting(o)
    BY <1>1 DEF PlansPutting
  <2>2. \A v \in Users : Member(v) \in Rows /\ Assignment(v) \in Rows /\ Entitlement(v) \in Rows
    BY RowForms DEF Principals
  <2>3. Firm \subseteq Modes /\ "insert" \notin Firm /\ {"share", "update"} \subseteq Modes
    BY DEF Firm, Modes
  <2>4. \A v \in Users, m, n \in Firm, i, j \in DOMAIN o.next : j <= i =>
          /\ ~(Wants(o, i, Member(v), m) /\ Wants(o, j, Entitlement(v), n))
          /\ ~(Wants(o, i, Entitlement(v), m) /\ Wants(o, j, Assignment(v), n))
          /\ ~(Wants(o, i, Member(v), m) /\ Wants(o, j, Assignment(v), n))
    BY <1>5, <1>13, <2>2, <2>3, Tags, PolicyAssumption
  <2>5. InTurn(o)
    BY <2>4 DEF InTurn
  <2>6. PlansShares(o)
    <3>1. \A i \in DOMAIN o.next, v \in Users : Wants(o, i, Assignment(v), "share") => FALSE
      BY <1>13, <2>2, <2>3, Tags
    <3> QED BY <1>5, <1>6, <3>1 DEF PlansShares
  <2> QED BY <2>1, <2>5, <2>6
<1>15. PlansInserts(o)
  <2>1. "insert" \in Modes
    BY DEF Modes
  <2> QED BY <1>5, <1>12, <2>1, Tags DEF PlansInserts, Inserted
<1>16. ByTenant(o)
  BY <1>7, <1>13, <1>14, <1>15, TenantLocks
<1>17. PlansLocks(o)
  BY <1>1, <1>14, <1>16 DEF PlansLocks
<1> QED BY <1>17, <1>5, <1>9, <1>10, <1>11 DEF Planned

\* What is offered of entitlements.
LEMMA CreateForMemberIsPlanned ==
  ASSUME NEW p \in Users, NEW o, o = Offer("createEntitlement", p, createEntitlement(p))
  PROVE  Planned(o)
<1>1. o.name = "createEntitlement" /\ o.of = p /\ o.next = createEntitlement(p)
  BY DEF Offer
<1>2. PICK a, b, c, d, e, f :
        /\ a = Statement("take", {organization}, "update")
        /\ b = Statement("assignable", {Member(p)}, None)
        /\ c = Statement("take", {client}, "share")
        /\ d = Statement("take", {resource}, "share")
        /\ e = Statement("insert", {Entitlement(p)}, None)
        /\ f = Statement("audience", {Entitlement(p)}, "share")
  BY Zenon
<1>3. a \in Statements /\ b \in Statements /\ c \in Statements /\ d \in Statements
      /\ e \in Statements /\ f \in Statements
  BY <1>2, StatementForms, RowForms, NotLinks DEF Firm, client, Clients, Principals
<1>4. o.next = Six(a, b, c, d, e, f)
  BY <1>1, <1>2, Zenon DEF Two, Three, Four, Five, Six, createEntitlement,
     lockOrganizationForCommand, Principal, findMemberForAssignment, readClient,
     readResourceForPolicy, Take, Insert, readEntitlementAudience
<1>5. /\ o.next \in Seq(Statements) /\ o.next # <<>> /\ Len(o.next) = 6 /\ DOMAIN o.next = 1..6
      /\ o.next[1] = a /\ o.next[2] = b /\ o.next[3] = c /\ o.next[4] = d /\ o.next[5] = e
      /\ o.next[6] = f
  BY <1>3, <1>4, ListSix
<1>6. /\ o.next[1].do = "take" /\ o.next[2].do = "assignable" /\ o.next[3].do = "take"
      /\ o.next[4].do = "take" /\ o.next[5].do = "insert" /\ o.next[5].rows = {Entitlement(p)}
      /\ o.next[6].do = "audience"
  BY <1>2, <1>5 DEF Statement
<1>7. Takes(o, 1, "take", organization)
  BY <1>2, <1>5 DEF Takes
<1>8. Without(o, {"delete", "assert"})
  BY <1>5, <1>6 DEF Without
<1>9. PlansErasure(o) /\ PlansRevocation(o) /\ PlansWrites(o) /\ PlansChange(o)
  BY <1>1, <1>7, <1>8, PlainPlans DEF Without
<1>10. PlansAssignment(o)
  <2>1. \A i \in 1..6 : o.next[i].do \in Inserts => i = 5
    BY <1>6 DEF Inserts
  <2>2. \A v \in Users : Own(v) \cap {Entitlement(p)} # {} => v = p
    BY OwnForms
  <2>3. 2 \in 1..(5 - 1)
    OBVIOUS
  <2> QED BY <1>1, <1>5, <1>6, <1>7, <2>1, <2>2, <2>3, Zenon DEF PlansAssignment
<1>11. PlansAudience(o)
  BY <1>1, <1>5, <1>6, <1>7 DEF PlansAudience, Audited
<1>12. o.name \in Names /\ o.of \in Whoms
  BY <1>1 DEF Names, Whoms, Audited
<1>13. ASSUME NEW other, NEW m
       PROVE  /\ Wants(o, 1, other, m) => other = organization /\ m = "update"
              /\ ~Wants(o, 2, other, m)
              /\ Wants(o, 3, other, m) => other = client /\ m = "share"
              /\ Wants(o, 4, other, m) => other = resource /\ m = "share"
              /\ Wants(o, 5, other, m) =>
                   \/ m = "insert" /\ other = Entitlement(p)
                   \/ m = "key" /\ other \in Parents(Entitlement(p))
              /\ Wants(o, 6, other, m) => m = "share" /\ \E v \in Users : other = Member(v)
  BY <1>1, <1>2, <1>5, NotLinks, PolicyAssumption DEF Wants, Locking, Statement, Inserts
<1>14. \A i \in DOMAIN o.next, other \in Rows, m \in Modes : Wants(o, i, other, m) =>
         other[1] # "assignment" /\ (other[1] = "entitlement" => m = "insert")
  BY <1>5, <1>13, Tags, ParentForms, PrincipalForms DEF client
<1>15. PlansShares(o) /\ PlansPutting(o) /\ InTurn(o)
  BY <1>1, <1>14, PlainLocks
<1>16. PlansInserts(o)
  <2>1. "insert" \in Modes
    BY DEF Modes
  <2> QED BY SMTT(30), <1>5, <1>13, <2>1, Tags DEF PlansInserts, Inserted
<1>17. ByTenant(o)
  <2>1. SharesPolicy(o, 3, 4)
    BY <1>2, <1>5, <1>13, Tags, ParentForms, PrincipalForms DEF SharesPolicy
  <2> QED BY <1>5, <1>7, <1>15, <1>16, <2>1, PolicyLocks
<1>18. PlansLocks(o)
  BY <1>1, <1>15, <1>17 DEF PlansLocks
<1> QED BY <1>18, <1>5, <1>9, <1>10, <1>12, <1>11 DEF Planned

LEMMA CreateForGroupIsPlanned ==
  ASSUME NEW o, o = Offer("createEntitlement", "group", createEntitlement("group"))
  PROVE  Planned(o)
<1>1. o.name = "createEntitlement" /\ o.of = "group" /\ o.next = createEntitlement("group")
  BY DEF Offer
<1>2. PICK a, b, c, d, e, f :
        /\ a = Statement("take", {organization}, "update")
        /\ b = Statement("take", {group}, "update")
        /\ c = Statement("take", {client}, "share")
        /\ d = Statement("take", {resource}, "share")
        /\ e = Statement("insert", {Entitlement("group")}, None)
        /\ f = Statement("audience", {Entitlement("group")}, "share")
  BY Zenon
<1>3. a \in Statements /\ b \in Statements /\ c \in Statements /\ d \in Statements
      /\ e \in Statements /\ f \in Statements
  BY <1>2, StatementForms, RowForms, NotLinks DEF Firm, client, Clients, Principals
<1>4. o.next = Six(a, b, c, d, e, f)
  <2>1. Principal("group") = Take(group, "update")
    BY PolicyAssumption DEF Principal
  <2> QED BY <1>1, <1>2, <2>1, Zenon DEF Two, Three, Four, Five, Six, createEntitlement,
     lockOrganizationForCommand, readClient, readResourceForPolicy, Take, Insert,
     readEntitlementAudience
<1>5. /\ o.next \in Seq(Statements) /\ o.next # <<>> /\ Len(o.next) = 6 /\ DOMAIN o.next = 1..6
      /\ o.next[1] = a /\ o.next[2] = b /\ o.next[3] = c /\ o.next[4] = d /\ o.next[5] = e
      /\ o.next[6] = f
  BY <1>3, <1>4, ListSix
<1>6. /\ o.next[1].do = "take" /\ o.next[2].do = "take" /\ o.next[3].do = "take"
      /\ o.next[4].do = "take" /\ o.next[5].do = "insert"
      /\ o.next[5].rows = {Entitlement("group")} /\ o.next[6].do = "audience"
  BY <1>2, <1>5 DEF Statement
<1>7. Takes(o, 1, "take", organization)
  BY <1>2, <1>5 DEF Takes
<1>8. Without(o, {"delete", "assert"})
  BY SMTT(30), <1>5, <1>6 DEF Without
<1>9. PlansErasure(o) /\ PlansRevocation(o) /\ PlansWrites(o) /\ PlansChange(o)
  BY <1>1, <1>7, <1>8, PlainPlans DEF Without
<1>10. PlansAssignment(o)
  <2>1. \A i \in 1..6 : o.next[i].do \in Inserts => i = 5
    BY <1>6 DEF Inserts
  <2>2. \A v \in Users : Own(v) \cap {Entitlement("group")} = {}
    BY PolicyAssumption, OwnForms
  <2> QED BY <1>5, <1>6, <2>1, <2>2, Zenon DEF PlansAssignment
<1>11. PlansAudience(o)
  BY <1>1, <1>5, <1>6, <1>7 DEF PlansAudience, Audited
<1>12. o.name \in Names /\ o.of \in Whoms
  BY <1>1 DEF Names, Whoms, Audited
<1>13. ASSUME NEW other, NEW m
       PROVE  /\ Wants(o, 1, other, m) => other = organization /\ m = "update"
              /\ Wants(o, 2, other, m) => other = group /\ m = "update"
              /\ Wants(o, 3, other, m) => other = client /\ m = "share"
              /\ Wants(o, 4, other, m) => other = resource /\ m = "share"
              /\ Wants(o, 5, other, m) =>
                   \/ m = "insert" /\ other = Entitlement("group")
                   \/ m = "key" /\ other \in Parents(Entitlement("group"))
              /\ Wants(o, 6, other, m) =>
                   /\ m = "share"
                   /\ \E v \in Users : other = Member(v) \/ other = Assignment(v)
  BY <1>1, <1>2, <1>5, NotLinks DEF Wants, Locking, Statement, Inserts
<1>14. \A i \in DOMAIN o.next, other \in Rows, m \in Modes : Wants(o, i, other, m) =>
         /\ other[1] = "entitlement" => m = "insert"
         /\ other[1] \in {"member", "assignment"} => i = 6 /\ m = "share"
  BY <1>5, <1>13, Tags, ParentForms, PrincipalForms DEF client
<1>15. PlansShares(o) /\ PlansPutting(o) /\ InTurn(o)
  <2>1. PlansPutting(o)
    BY <1>1 DEF PlansPutting
  <2>2. \A v \in Users : Member(v) \in Rows /\ Assignment(v) \in Rows /\ Entitlement(v) \in Rows
    BY RowForms DEF Principals
  <2>3. Firm \subseteq Modes /\ "insert" \notin Firm /\ {"share", "update"} \subseteq Modes
    BY DEF Firm, Modes
  <2>4. \A v \in Users, m, n \in Firm, i, j \in DOMAIN o.next : j <= i =>
          /\ ~(Wants(o, i, Member(v), m) /\ Wants(o, j, Entitlement(v), n))
          /\ ~(Wants(o, i, Entitlement(v), m) /\ Wants(o, j, Assignment(v), n))
          /\ Wants(o, i, Member(v), m) /\ Wants(o, j, Assignment(v), n) =>
               m = "share" /\ n = "share"
    BY <1>5, <1>14, <2>2, <2>3, Tags
  <2>5. InTurn(o)
    BY <2>4 DEF InTurn
  <2>6. PlansShares(o)
    <3>1. \A i \in DOMAIN o.next, v \in Users : Wants(o, i, Assignment(v), "share") => i = 6
      BY <1>14, <2>2, <2>3, Tags
    <3> QED BY <1>5, <1>6, <3>1 DEF PlansShares
  <2> QED BY <2>1, <2>5, <2>6
<1>16. PlansInserts(o)
  <2>1. "insert" \in Modes
    BY DEF Modes
  <2> QED BY SMTT(30), <1>5, <1>13, <2>1, Tags DEF PlansInserts, Inserted
<1>17. ByTenant(o)
  <2>1. SharesPolicy(o, 3, 4)
    BY <1>2, <1>5, <1>13, Tags, ParentForms, PrincipalForms DEF SharesPolicy, client
  <2> QED BY <1>5, <1>7, <1>15, <1>16, <2>1, PolicyLocks
<1>18. PlansLocks(o)
  BY <1>1, <1>15, <1>17 DEF PlansLocks
<1> QED BY <1>18, <1>5, <1>9, <1>10, <1>12, <1>11 DEF Planned

LEMMA CreateForAllIsPlanned ==
  ASSUME NEW o, o = Offer("createEntitlement", "all", createEntitlement("all"))
  PROVE  Planned(o)
<1>1. o.name = "createEntitlement" /\ o.of = "all" /\ o.next = createEntitlement("all")
  BY DEF Offer
<1>2. PICK a, b, c, d, e :
        /\ a = Statement("take", {organization}, "update")
        /\ b = Statement("take", {client}, "share")
        /\ c = Statement("take", {resource}, "share")
        /\ d = Statement("insert", {Entitlement("all")}, None)
        /\ e = Statement("audience", {Entitlement("all")}, "share")
  BY Zenon
<1>3. a \in Statements /\ b \in Statements /\ c \in Statements /\ d \in Statements
      /\ e \in Statements
  BY <1>2, StatementForms, RowForms, NotLinks DEF Firm, client, Clients, Principals
<1>4. o.next = Five(a, b, c, d, e)
  <2>1. Principal("all") = <<>>
    BY PolicyAssumption DEF Principal
  <2>2. <<a>> \o <<>> = <<a>>
    <3>1. <<a>> \in Seq(Statements)
      BY <1>3
    <3> QED BY <3>1
  <2> QED BY <1>1, <1>2, <2>1, <2>2, Zenon DEF Two, Three, Four, Five, createEntitlement,
           lockOrganizationForCommand,
     readClient, readResourceForPolicy, Take, Insert, readEntitlementAudience
<1>5. /\ o.next \in Seq(Statements) /\ o.next # <<>> /\ Len(o.next) = 5 /\ DOMAIN o.next = 1..5
      /\ o.next[1] = a /\ o.next[2] = b /\ o.next[3] = c /\ o.next[4] = d /\ o.next[5] = e
  BY <1>3, <1>4, ListFive
<1>6. /\ o.next[1].do = "take" /\ o.next[2].do = "take" /\ o.next[3].do = "take"
      /\ o.next[4].do = "insert" /\ o.next[4].rows = {Entitlement("all")}
      /\ o.next[5].do = "audience"
  BY <1>2, <1>5 DEF Statement
<1>7. Takes(o, 1, "take", organization)
  BY <1>2, <1>5 DEF Takes
<1>8. Without(o, {"delete", "assert"})
  BY <1>5, <1>6 DEF Without
<1>9. PlansErasure(o) /\ PlansRevocation(o) /\ PlansWrites(o) /\ PlansChange(o)
  BY <1>1, <1>7, <1>8, PlainPlans DEF Without
<1>10. PlansAssignment(o)
  <2>1. \A i \in 1..5 : o.next[i].do \in Inserts => i = 4
    BY <1>6 DEF Inserts
  <2>2. \A v \in Users : Own(v) \cap {Entitlement("all")} = {}
    BY PolicyAssumption, OwnForms
  <2> QED BY <1>5, <1>6, <2>1, <2>2, Zenon DEF PlansAssignment
<1>11. PlansAudience(o)
  BY <1>1, <1>5, <1>6, <1>7 DEF PlansAudience, Audited
<1>12. o.name \in Names /\ o.of \in Whoms
  BY <1>1 DEF Names, Whoms, Audited
<1>13. ASSUME NEW other, NEW m
       PROVE  /\ Wants(o, 1, other, m) => other = organization /\ m = "update"
              /\ Wants(o, 2, other, m) => other = client /\ m = "share"
              /\ Wants(o, 3, other, m) => other = resource /\ m = "share"
              /\ Wants(o, 4, other, m) =>
                   \/ m = "insert" /\ other = Entitlement("all")
                   \/ m = "key" /\ other \in Parents(Entitlement("all"))
              /\ Wants(o, 5, other, m) => m = "share" /\ \E v \in Users : other = Member(v)
  BY <1>1, <1>2, <1>5, NotLinks DEF Wants, Locking, Statement, Inserts
<1>14. \A i \in DOMAIN o.next, other \in Rows, m \in Modes : Wants(o, i, other, m) =>
         other[1] # "assignment" /\ (other[1] = "entitlement" => m = "insert")
  BY <1>5, <1>13, Tags, ParentForms, PrincipalForms DEF client
<1>15. PlansShares(o) /\ PlansPutting(o) /\ InTurn(o)
  BY <1>1, <1>14, PlainLocks
<1>16. PlansInserts(o)
  <2>1. "insert" \in Modes
    BY DEF Modes
  <2> QED BY <1>5, <1>13, <2>1, Tags DEF PlansInserts, Inserted
<1>17. ByTenant(o)
  <2>1. SharesPolicy(o, 2, 3)
    BY <1>2, <1>5, <1>13, Tags, ParentForms, PrincipalForms DEF SharesPolicy
  <2> QED BY <1>5, <1>7, <1>15, <1>16, <2>1, PolicyLocks
<1>18. PlansLocks(o)
  BY <1>1, <1>15, <1>17 DEF PlansLocks
<1> QED BY <1>18, <1>5, <1>9, <1>10, <1>12, <1>11 DEF Planned

LEMMA UpdateEntitlementIsPlanned ==
  ASSUME NEW p \in Principals, NEW o,
         o = Offer("updateEntitlement", p, updateEntitlement(p))
  PROVE  Planned(o)
<1>1. o.name = "updateEntitlement" /\ o.of = p /\ o.next = updateEntitlement(p)
  BY DEF Offer
<1>2. PICK a, b, c, d, e, f :
        /\ a = Statement("take", {organization}, "update")
        /\ b = Statement("take", {Entitlement(p)}, "update")
        /\ c = Statement("assert", {Entitlement(p)}, None)
        /\ d = Statement("take", {resource}, "share")
        /\ e = Statement("change", {Entitlement(p)}, "nokey")
        /\ f = Statement("audience", {Entitlement(p)}, "share")
  BY Zenon
<1>3. a \in Statements /\ b \in Statements /\ c \in Statements /\ d \in Statements
      /\ e \in Statements /\ f \in Statements
  BY <1>2, StatementForms, RowForms, NotLinks DEF Firm
<1>4. o.next = Six(a, b, c, d, e, f)
  BY <1>1, <1>2, Zenon DEF Two, Three, Four, Five, Six, updateEntitlement, lockedEntitlement,
     lockOrganizationForCommand, Take, assertRevision, readResourceForPolicy, Change,
     readEntitlementAudience
<1>5. /\ o.next \in Seq(Statements) /\ o.next # <<>> /\ Len(o.next) = 6 /\ DOMAIN o.next = 1..6
      /\ o.next[1] = a /\ o.next[2] = b /\ o.next[3] = c /\ o.next[4] = d /\ o.next[5] = e
      /\ o.next[6] = f
  BY <1>3, <1>4, ListSix
<1>6. /\ o.next[1].do = "take" /\ o.next[2].do = "take" /\ o.next[3].do = "assert"
      /\ o.next[3].rows = {Entitlement(p)} /\ o.next[4].do = "take" /\ o.next[5].do = "change"
      /\ o.next[5].rows = {Entitlement(p)} /\ o.next[6].do = "audience"
  BY <1>2, <1>5 DEF Statement
<1>7. Takes(o, 1, "take", organization) /\ Takes(o, 2, "take", Entitlement(p))
  BY <1>2, <1>5 DEF Takes
<1>8. Without(o, Inserts \cup {"delete"})
  BY <1>5, <1>6 DEF Without, Inserts
<1>9. /\ PlansErasure(o) /\ PlansRevocation(o) /\ PlansAssignment(o) /\ PlansWrites(o)
  BY <1>1, <1>7, <1>8, PlainPlans DEF Without
<1>10. PlansChange(o)
  <2>1. WillAsk(o, Entitlement(p), 3)
    BY <1>6, <1>7 DEF WillAsk, WillSettle
  <2>2. Without(o, {"insert", "put", "delete", "upsert"})
    BY <1>8 DEF Without, Inserts
  <2>3. \A i \in 1..6 : o.next[i].do = "change" => i = 5 /\ o.next[i].rows = {Entitlement(p)}
    BY <1>6
  <2>4. 3 \in 1..(5 - 1)
    OBVIOUS
  <2> QED BY SMTT(30), <1>5, <2>1, <2>2, <2>3, <2>4 DEF PlansChange, Without
<1>11. PlansAudience(o)
  BY <1>1, <1>5, <1>6, <1>7 DEF PlansAudience, Audited
<1>12. o.name \in Names /\ o.of \in Whoms
  BY <1>1 DEF Names, Whoms, Audited, Principals
<1>13. ASSUME NEW other, NEW m
       PROVE  /\ Wants(o, 1, other, m) => other = organization /\ m = "update"
              /\ Wants(o, 2, other, m) => other = Entitlement(p) /\ m = "update"
              /\ ~Wants(o, 3, other, m)
              /\ Wants(o, 4, other, m) => other = resource /\ m = "share"
              /\ Wants(o, 5, other, m) => other = Entitlement(p) /\ m = "nokey"
              /\ Wants(o, 6, other, m) =>
                   /\ m = "share"
                   /\ \E v \in Users : other = Member(v) \/ other = Assignment(v)
  BY <1>1, <1>2, <1>5 DEF Wants, Locking, Statement, Inserts
<1>14. \A i \in DOMAIN o.next, other \in Rows, m \in Modes : Wants(o, i, other, m) =>
         (other[1] = "assignment" => i = 6 /\ m = "share")
  BY <1>5, <1>13, Tags
<1>15. PlansShares(o) /\ PlansPutting(o) /\ o.name \in Crossing
  <2>1. PlansPutting(o)
    BY <1>1 DEF PlansPutting
  <2>2. \A v \in Users : Member(v) \in Rows /\ Assignment(v) \in Rows /\ Entitlement(v) \in Rows
    BY RowForms DEF Principals
  <2>3. Firm \subseteq Modes /\ "insert" \notin Firm /\ {"share", "update"} \subseteq Modes
    BY DEF Firm, Modes
  <2>4. PlansShares(o)
    <3>1. \A i \in DOMAIN o.next, v \in Users : Wants(o, i, Assignment(v), "share") => i = 6
      BY <1>14, <2>2, <2>3, Tags
    <3> QED BY <1>5, <1>6, <3>1 DEF PlansShares
  <2> QED BY <1>1, <2>1, <2>4 DEF Crossing
<1>16. PlansInserts(o)
  <2>1. "insert" \in Modes
    BY DEF Modes
  <2> QED BY <1>5, <1>13, <2>1, Tags DEF PlansInserts, Inserted
<1>17. ByTenant(o)
  <2>1. SharesPolicy(o, 1, 4)
    BY <1>2, <1>5, <1>13, Tags DEF SharesPolicy, client
  <2> QED BY <1>5, <1>7, <1>15, <1>16, <2>1, PolicyLocks
<1>18. PlansLocks(o)
  BY <1>1, <1>15, <1>17 DEF PlansLocks
<1> QED BY <1>18, <1>5, <1>9, <1>10, <1>12, <1>11 DEF Planned

LEMMA RemoveEntitlementIsPlanned ==
  ASSUME NEW p \in Principals, NEW o,
         o = Offer("removeEntitlement", p, removeEntitlement(p))
  PROVE  Planned(o)
<1>1. o.name = "removeEntitlement" /\ o.of = p /\ o.next = removeEntitlement(p)
  BY DEF Offer
<1>2. PICK a, b, c, d :
        /\ a = Statement("take", {organization}, "update")
        /\ b = Statement("take", {Entitlement(p)}, "update")
        /\ c = Statement("delete", {Entitlement(p)}, "update")
        /\ d = Statement("audience", {Entitlement(p)}, "share")
  BY Zenon
<1>3. a \in Statements /\ b \in Statements /\ c \in Statements /\ d \in Statements
  BY <1>2, StatementForms, RowForms, NotLinks DEF Firm
<1>4. o.next = Four(a, b, c, d)
  BY <1>1, <1>2, Zenon DEF Two, Three, Four, removeEntitlement, lockedEntitlement,
     lockOrganizationForCommand, Take, Delete, readEntitlementAudience
<1>5. /\ o.next \in Seq(Statements) /\ o.next # <<>> /\ Len(o.next) = 4 /\ DOMAIN o.next = 1..4
      /\ o.next[1] = a /\ o.next[2] = b /\ o.next[3] = c /\ o.next[4] = d
  BY <1>3, <1>4, ListFour
<1>6. /\ o.next[1].do = "take" /\ o.next[2].do = "take" /\ o.next[3].do = "delete"
      /\ o.next[3].rows = {Entitlement(p)} /\ o.next[4].do = "audience"
  BY <1>2, <1>5 DEF Statement
<1>7. Takes(o, 1, "take", organization)
  BY <1>2, <1>5 DEF Takes
<1>8. Without(o, Inserts \cup {"assert"})
  BY <1>5, <1>6 DEF Without, Inserts
<1>9. PlansRevocation(o) /\ PlansAssignment(o) /\ PlansWrites(o) /\ PlansChange(o)
  BY <1>1, <1>7, <1>8, PlainPlans DEF Without
<1>10. PlansErasure(o)
  BY <1>5, <1>6, <1>8, Childless DEF PlansErasure, Without
<1>11. PlansAudience(o)
  BY <1>1, <1>5, <1>6, <1>7 DEF PlansAudience, Audited
<1>12. o.name \in Names /\ o.of \in Whoms
  BY <1>1 DEF Names, Whoms, Audited, Principals
<1>13. ASSUME NEW other, NEW m
       PROVE  /\ Wants(o, 1, other, m) => other = organization /\ m = "update"
              /\ Wants(o, 2, other, m) => other = Entitlement(p) /\ m = "update"
              /\ Wants(o, 3, other, m) => other = Entitlement(p) /\ m = "update"
              /\ Wants(o, 4, other, m) =>
                   /\ m = "share"
                   /\ \E v \in Users : other = Member(v) \/ other = Assignment(v)
  BY <1>1, <1>2, <1>5, NotLinks DEF Wants, Locking, Statement, Inserts
<1>14. \A i \in DOMAIN o.next, other \in Rows, m \in Modes : Wants(o, i, other, m) =>
         /\ other[1] \in {"organization", "entitlement", "member", "assignment"}
         /\ other[1] = "assignment" => i = 4 /\ m = "share"
  BY <1>5, <1>13, Tags
<1>15. PlansShares(o) /\ PlansPutting(o) /\ o.name \in Crossing
  <2>1. PlansPutting(o)
    BY <1>1 DEF PlansPutting
  <2>2. \A v \in Users : Member(v) \in Rows /\ Assignment(v) \in Rows /\ Entitlement(v) \in Rows
    BY RowForms DEF Principals
  <2>3. Firm \subseteq Modes /\ "insert" \notin Firm /\ {"share", "update"} \subseteq Modes
    BY DEF Firm, Modes
  <2>4. PlansShares(o)
    <3>1. \A i \in DOMAIN o.next, v \in Users : Wants(o, i, Assignment(v), "share") => i = 4
      BY <1>14, <2>2, <2>3, Tags
    <3> QED BY <1>5, <1>6, <3>1 DEF PlansShares
  <2> QED BY <1>1, <2>1, <2>4 DEF Crossing
<1>16. PlansInserts(o)
  <2>1. "insert" \in Modes
    BY DEF Modes
  <2> QED BY <1>5, <1>13, <2>1, Tags DEF PlansInserts, Inserted
<1>17. ByTenant(o)
  BY <1>7, <1>14, <1>15, <1>16, TenantLocks
<1>18. PlansLocks(o)
  BY <1>1, <1>15, <1>17 DEF PlansLocks
<1> QED BY <1>18, <1>5, <1>9, <1>10, <1>12, <1>11 DEF Planned

\* What is offered of members and users.
LEMMA ReinstateIsPlanned ==
  ASSUME NEW u \in Users, NEW o, o = Offer("reinstate", u, reinstate(u))
  PROVE  Planned(o)
<1>1. o.name = "reinstate" /\ o.of = u /\ o.next = reinstate(u)
  BY DEF Offer
<1>2. PICK a, b, c :
        /\ a = Statement("take", {organization}, "update")
        /\ b = Statement("found", {Member(u)}, None)
        /\ c = Statement("change", {Member(u)}, "nokey")
  BY Zenon
<1>3. a \in Statements /\ b \in Statements /\ c \in Statements
  BY <1>2, StatementForms, RowForms, NotLinks DEF Firm
<1>4. o.next = Three(a, b, c)
  BY <1>1, <1>2, Zenon DEF Two, Three, reinstate, lockOrganizationForCommand, Take, Found, Change
<1>5. /\ o.next \in Seq(Statements) /\ o.next # <<>> /\ Len(o.next) = 3 /\ DOMAIN o.next = 1..3
      /\ o.next[1] = a /\ o.next[2] = b /\ o.next[3] = c
  BY <1>3, <1>4, ListThree
<1>6. o.next[1].do = "take" /\ o.next[2].do = "found" /\ o.next[3].do = "change"
  BY <1>2, <1>5 DEF Statement
<1>7. Takes(o, 1, "take", organization)
  BY <1>2, <1>5 DEF Takes
<1>8. Without(o, Inserts \cup {"delete", "assert", "audience"})
  BY <1>5, <1>6 DEF Without, Inserts
<1>9. /\ PlansErasure(o) /\ PlansRevocation(o) /\ PlansAssignment(o) /\ PlansAudience(o)
      /\ PlansWrites(o) /\ PlansChange(o)
  BY <1>1, <1>7, <1>8, PlainPlans DEF Without, Audited
<1>10. o.name \in Names /\ o.of \in Whoms
  BY <1>1 DEF Names, Whoms
<1>11. ASSUME NEW other, NEW m
       PROVE  /\ Wants(o, 1, other, m) => other = organization /\ m = "update"
              /\ ~Wants(o, 2, other, m)
              /\ Wants(o, 3, other, m) => other = Member(u) /\ m = "nokey"
  BY <1>1, <1>2, <1>5 DEF Wants, Locking, Statement, Inserts
<1>12. \A i \in DOMAIN o.next, other \in Rows, m \in Modes : Wants(o, i, other, m) =>
         other[1] \in {"organization", "member"}
  BY <1>5, <1>11, Tags
<1>13. PlansShares(o) /\ PlansPutting(o) /\ InTurn(o)
  BY <1>1, <1>12, PlainLocks
<1>14. PlansInserts(o)
  <2>1. "insert" \in Modes
    BY DEF Modes
  <2> QED BY <1>5, <1>11, <2>1, Tags DEF PlansInserts, Inserted
<1>15. ByTenant(o)
  BY <1>7, <1>12, <1>13, <1>14, TenantLocks
<1>16. PlansLocks(o)
  BY <1>1, <1>13, <1>15 DEF PlansLocks
<1> QED BY <1>16, <1>5, <1>9, <1>10 DEF Planned

LEMMA RemoveIsPlanned ==
  ASSUME NEW u \in Users, NEW o, o = Offer("remove", u, remove(u))
  PROVE  Planned(o)
<1>1. o.name = "remove" /\ o.of = u /\ o.next = remove(u)
  BY DEF Offer
<1>2. PICK a, b, c, d, e :
        /\ a = Statement("take", {organization}, "update")
        /\ b = Statement("found", {Member(u)}, None)
        /\ c = Statement("change", {Member(u)}, "nokey")
        /\ d = Statement("delete", {Entitlement(u)}, "update")
        /\ e = Statement("delete", {Assignment(u)}, "update")
  BY Zenon
<1>3. a \in Statements /\ b \in Statements /\ c \in Statements /\ d \in Statements
      /\ e \in Statements
  BY <1>2, StatementForms, RowForms, NotLinks DEF Firm, Principals
<1>4. o.next = Five(a, b, c, d, e)
  <2>1. Three(a, b, c) \o Two(d, e) = Five(a, b, c, d, e)
    BY <1>3, Parts32
  <2> QED BY <1>1, <1>2, <2>1, Zenon DEF Two, Three, remove, lockOrganizationForCommand, Take,
         Found, Change, removeMemberAssignments, Delete
<1>5. /\ o.next \in Seq(Statements) /\ o.next # <<>> /\ Len(o.next) = 5 /\ DOMAIN o.next = 1..5
      /\ o.next[1] = a /\ o.next[2] = b /\ o.next[3] = c /\ o.next[4] = d /\ o.next[5] = e
  BY <1>3, <1>4, ListFive
<1>6. /\ o.next[1].do = "take" /\ o.next[2].do = "found" /\ o.next[3].do = "change"
      /\ o.next[4].do = "delete" /\ o.next[4].rows = {Entitlement(u)} /\ o.next[5].do = "delete"
      /\ o.next[5].rows = {Assignment(u)}
  BY <1>2, <1>5 DEF Statement
<1>7. Takes(o, 1, "take", organization)
  BY <1>2, <1>5 DEF Takes
<1>8. Without(o, Inserts \cup {"assert", "audience"})
  BY <1>5, <1>6 DEF Without, Inserts
<1>9. PlansAssignment(o) /\ PlansAudience(o) /\ PlansWrites(o) /\ PlansChange(o)
  BY <1>1, <1>7, <1>8, PlainPlans DEF Without, Audited
<1>10. PlansErasure(o)
  BY <1>5, <1>6, <1>8, Childless DEF PlansErasure, Without
<1>11. PlansRevocation(o)
  <2>1. \A row \in Own(u) : organization \in Parents(row)
    BY ParentForms DEF Own
  <2>2. WillSettle(o, organization, 4) /\ WillSettle(o, organization, 5)
    BY <1>7 DEF WillSettle
  <2>3. \A row \in Own(u) : WillClear(o, row, 6)
    BY <1>6, <2>1, <2>2 DEF WillClear, Own
  <2>4. Without(o, Inserts)
    BY <1>8 DEF Without
  <2>5. 5 + 1 = 6
    OBVIOUS
  <2> QED BY <1>1, <1>5, <1>7, <2>3, <2>4, <2>5, Zenon DEF PlansRevocation
<1>12. o.name \in Names /\ o.of \in Whoms
  BY <1>1 DEF Names, Whoms
<1>13. ASSUME NEW other, NEW m
       PROVE  /\ Wants(o, 1, other, m) => other = organization /\ m = "update"
              /\ ~Wants(o, 2, other, m)
              /\ Wants(o, 3, other, m) => other = Member(u) /\ m = "nokey"
              /\ Wants(o, 4, other, m) => other = Entitlement(u) /\ m = "update"
              /\ Wants(o, 5, other, m) => other = Assignment(u) /\ m = "update"
  BY <1>1, <1>2, <1>5, NotLinks DEF Wants, Locking, Statement, Inserts
<1>14. \A i \in DOMAIN o.next, other \in Rows, m \in Modes : Wants(o, i, other, m) =>
         /\ other[1] \in {"organization", "entitlement", "member", "assignment"}
         /\ other[1] = "member" => i = 3
         /\ other[1] = "entitlement" => i = 4
         /\ other[1] = "assignment" => i = 5 /\ m = "update"
  BY <1>5, <1>13, Tags
<1>15. PlansShares(o) /\ PlansPutting(o) /\ InTurn(o)
  <2>1. PlansPutting(o)
    BY <1>1 DEF PlansPutting
  <2>2. \A v \in Users : Member(v) \in Rows /\ Assignment(v) \in Rows /\ Entitlement(v) \in Rows
    BY RowForms DEF Principals
  <2>3. Firm \subseteq Modes /\ "insert" \notin Firm /\ {"share", "update"} \subseteq Modes
    BY DEF Firm, Modes
  <2>4. \A v \in Users, m, n \in Firm, i, j \in DOMAIN o.next : j <= i =>
          /\ ~(Wants(o, i, Member(v), m) /\ Wants(o, j, Entitlement(v), n))
          /\ ~(Wants(o, i, Entitlement(v), m) /\ Wants(o, j, Assignment(v), n))
          /\ ~(Wants(o, i, Member(v), m) /\ Wants(o, j, Assignment(v), n))
    BY <1>5, <1>14, <2>2, <2>3, Tags
  <2>5. InTurn(o)
    BY <2>4 DEF InTurn
  <2>6. PlansShares(o)
    <3>1. \A i \in DOMAIN o.next, v \in Users : Wants(o, i, Assignment(v), "share") => FALSE
      BY <1>14, <2>2, <2>3, Tags
    <3> QED BY <1>5, <1>6, <3>1 DEF PlansShares
  <2> QED BY <2>1, <2>5, <2>6
<1>16. PlansInserts(o)
  <2>1. "insert" \in Modes
    BY DEF Modes
  <2> QED BY <1>5, <1>13, <2>1, Tags DEF PlansInserts, Inserted
<1>17. ByTenant(o)
  BY <1>7, <1>14, <1>15, <1>16, TenantLocks
<1>18. PlansLocks(o)
  BY <1>1, <1>15, <1>17 DEF PlansLocks
<1> QED BY <1>18, <1>5, <1>9, <1>10, <1>12, <1>11 DEF Planned

LEMMA EraseUserIsPlanned ==
  ASSUME NEW u \in Users, NEW o, o = Offer("eraseUser", u, eraseUser(u))
  PROVE  Planned(o)
<1>1. o.name = "eraseUser" /\ o.of = u /\ o.next = eraseUser(u)
  BY DEF Offer
<1>2. PICK a, b, c, d, e, f :
        /\ a = Statement("take", {User(u)}, "update")
        /\ b = Statement("hold", {Member(u)}, "update")
        /\ c = Statement("delete", {Entitlement(u)}, "update")
        /\ d = Statement("delete", {Assignment(u)}, "update")
        /\ e = Statement("delete", {Member(u)}, "update")
        /\ f = Statement("delete", {User(u)}, "update")
  BY Zenon
<1>3. a \in Statements /\ b \in Statements /\ c \in Statements /\ d \in Statements
      /\ e \in Statements /\ f \in Statements
  BY <1>2, StatementForms, RowForms, NotLinks DEF Firm, Principals
<1>4. o.next = Six(a, b, c, d, e, f)
  <2>1. <<a>> \o Five(b, c, d, e, f) = Six(a, b, c, d, e, f)
    BY <1>3, Parts15
  <2> QED BY <1>1, <1>2, <2>1, Zenon DEF Two, Three, Four, Five, eraseUser, deleteUser, Take,
         Hold, Delete
<1>5. /\ o.next \in Seq(Statements) /\ o.next # <<>> /\ Len(o.next) = 6 /\ DOMAIN o.next = 1..6
      /\ o.next[1] = a /\ o.next[2] = b /\ o.next[3] = c /\ o.next[4] = d /\ o.next[5] = e
      /\ o.next[6] = f
  BY <1>3, <1>4, ListSix
<1>6. /\ o.next[1].do = "take" /\ o.next[2].do = "hold" /\ o.next[3].do = "delete"
      /\ o.next[3].rows = {Entitlement(u)} /\ o.next[4].do = "delete"
      /\ o.next[4].rows = {Assignment(u)} /\ o.next[5].do = "delete"
      /\ o.next[5].rows = {Member(u)} /\ o.next[6].do = "delete" /\ o.next[6].rows = {User(u)}
  BY <1>2, <1>5 DEF Statement
<1>7. Takes(o, 1, "take", User(u)) /\ Takes(o, 2, "hold", Member(u))
  BY <1>2, <1>5 DEF Takes
<1>8. Without(o, Inserts \cup {"assert", "audience"})
  BY SMTT(30), <1>5, <1>6 DEF Without, Inserts
<1>9. /\ PlansRevocation(o) /\ PlansAssignment(o) /\ PlansAudience(o) /\ PlansChange(o)
  BY <1>1, <1>8, PlainPlans DEF Without, Audited
<1>10. PlansErasure(o)
  <2>1. ASSUME NEW row \in Rows, Member(u) \in Parents(row) PROVE WillClear(o, row, 5)
    <3>1. User(u) \in Parents(Member(u))
      BY ParentForms
    <3>2. WillSettle(o, Member(u), 3) /\ WillSettle(o, Member(u), 4)
      BY <1>7, <3>1 DEF WillSettle
    <3> QED BY <1>6, <2>1, <3>2, Children DEF WillClear, Own
  <2>2. ASSUME NEW row \in Rows, User(u) \in Parents(row) PROVE WillClear(o, row, 6)
    <3>1. WillSettle(o, User(u), 5)
      BY <1>7 DEF WillSettle
    <3> QED BY <1>6, <2>2, <3>1, Children DEF WillClear
  <2> QED BY <1>5, <1>6, <1>8, <2>1, <2>2, Childless DEF PlansErasure, Without
<1>11. PlansWrites(o)
  <2>1. capability \notin {Entitlement(u), Assignment(u), Member(u), User(u)}
    BY DEF capability, Entitlement, Assignment, Member, User
  <2> QED BY <1>5, <1>6, <2>1 DEF PlansWrites, Writing, Inserts
<1>12. o.name \in Names /\ o.of \in Whoms
  BY <1>1 DEF Names, Whoms
<1>13. ASSUME NEW other, NEW m
       PROVE  /\ Wants(o, 1, other, m) => other = User(u) /\ m = "update"
              /\ Wants(o, 2, other, m) => other = Member(u) /\ m = "update"
              /\ Wants(o, 3, other, m) => other = Entitlement(u) /\ m = "update"
              /\ Wants(o, 4, other, m) => other = Assignment(u) /\ m = "update"
              /\ Wants(o, 5, other, m) => other = Member(u) /\ m = "update"
              /\ Wants(o, 6, other, m) => other = User(u) /\ m = "update"
  BY <1>1, <1>2, <1>5, NotLinks DEF Wants, Locking, Statement, Inserts
<1>14. \A i \in DOMAIN o.next, other \in Rows, m \in Modes : Wants(o, i, other, m) =>
         m = "update"
  BY <1>5, <1>13, Tags
<1>15. PlansShares(o) /\ PlansPutting(o)
  <2>1. PlansPutting(o)
    BY <1>1 DEF PlansPutting
  <2>2. \A v \in Users : Assignment(v) \in Rows
    BY RowForms
  <2>3. "share" \in Modes
    BY DEF Modes
  <2>4. PlansShares(o)
    BY <1>5, <1>14, <2>2, <2>3, Tags DEF PlansShares
  <2> QED BY <2>1, <2>4
<1>16. ByUser(o)
  <2>1. Without(o, Inserts) /\ \A i \in 1..4 : o.next[i].do = "delete" => i > 2
    BY <1>6, <1>8 DEF Without
  <2> QED BY <1>1, <1>5, <1>6, <1>7, <1>13, <2>1 DEF ByUser
<1>17. PlansLocks(o)
  BY <1>1, <1>15, <1>16 DEF PlansLocks
<1> QED BY <1>17, <1>5, <1>9, <1>10, <1>12, <1>11 DEF Planned

LEMMA ProvisionIsPlanned ==
  ASSUME NEW u \in Users, NEW o, o = Offer("provisionMembership", u, provisionMembership(u))
  PROVE  Planned(o)
<1>1. o.name = "provisionMembership" /\ o.of = u /\ o.next = provisionMembership(u)
  BY DEF Offer
<1>2. PICK a : a = Statement("put", {Member(u)}, None)
  BY Zenon
<1>3. a \in Statements
  BY <1>2, StatementForms, RowForms
<1>4. o.next = <<a>>
  BY <1>1, <1>2, Zenon DEF provisionMembership, Put
<1>5. /\ o.next \in Seq(Statements) /\ o.next # <<>> /\ Len(o.next) = 1 /\ DOMAIN o.next = 1..1
      /\ o.next[1] = a
  <2>1. /\ <<a>> \in Seq(Statements) /\ <<a>> # <<>> /\ Len(<<a>>) = 1 /\ DOMAIN <<a>> = 1..1
        /\ <<a>>[1] = a
    BY <1>3
  <2> QED BY <1>4, <2>1, Zenon
<1>6. o.next[1].do = "put" /\ o.next[1].rows = {Member(u)}
  BY <1>2, <1>5 DEF Statement
<1>7. Without(o, {"delete", "assert", "audience"})
  BY <1>5, <1>6 DEF Without
<1>8. PlansErasure(o) /\ PlansRevocation(o) /\ PlansAudience(o) /\ PlansChange(o)
  BY <1>1, <1>7, PlainPlans DEF Without, Audited
<1>9. PlansAssignment(o)
  BY <1>5, <1>6, OwnForms DEF PlansAssignment
<1>10. PlansWrites(o)
  <2>1. capability # Member(u)
    BY DEF capability, Member
  <2> QED BY <1>5, <1>6, <2>1 DEF PlansWrites
<1>11. o.name \in Names /\ o.of \in Whoms
  BY <1>1 DEF Names, Whoms
<1>12. ASSUME NEW other, NEW m
       PROVE  /\ Wants(o, 1, other, m) =>
                   \/ m = "insert" /\ other = Member(u)
                   \/ m = "key" /\ other \in Parents(Member(u))
  BY <1>1, <1>2, <1>5, NotLinks DEF Wants, Locking, Statement, Inserts
<1>13. \A i \in DOMAIN o.next, other \in Rows, m \in Modes : Wants(o, i, other, m) =>
         other[1] # "assignment"
  BY <1>5, <1>12, Tags, ParentForms
<1>14. PlansShares(o) /\ PlansPutting(o)
  <2>1. PlansPutting(o)
    BY <1>1 DEF PlansPutting
  <2>2. \A v \in Users : Assignment(v) \in Rows
    BY RowForms
  <2>3. "share" \in Modes
    BY DEF Modes
  <2>4. PlansShares(o)
    BY <1>5, <1>13, <2>2, <2>3, Tags DEF PlansShares
  <2> QED BY <2>1, <2>4
<1>15. BySignIn(o)
  BY <1>1, <1>5, <1>12, ParentForms DEF BySignIn
<1>16. PlansLocks(o)
  BY <1>1, <1>14, <1>15 DEF PlansLocks
<1> QED BY <1>16, <1>5, <1>8, <1>9, <1>10, <1>11 DEF Planned

\* What is offered of applications and resources.
LEMMA LinkIsPlanned ==
  ASSUME NEW k \in Clients, NEW o, o = Offer("linkResource", k, linkResource(k))
  PROVE  Planned(o)
<1>1. o.name = "linkResource" /\ o.of = k /\ o.next = linkResource(k)
  BY DEF Offer
<1>2. PICK a, b, c :
        /\ a = Statement("take", {Client(k)}, "update")
        /\ b = Statement("take", {resource}, "update")
        /\ c = Statement("put", {Link(k)}, None)
  BY Zenon
<1>3. a \in Statements /\ b \in Statements /\ c \in Statements
  BY <1>2, StatementForms, RowForms, NotLinks DEF Firm
<1>4. o.next = Three(a, b, c)
  BY <1>1, <1>2, Zenon DEF Two, Three, linkResource, lockClientForCommand, lockResourceForCommand,
     Take, Put
<1>5. /\ o.next \in Seq(Statements) /\ o.next # <<>> /\ Len(o.next) = 3 /\ DOMAIN o.next = 1..3
      /\ o.next[1] = a /\ o.next[2] = b /\ o.next[3] = c
  BY <1>3, <1>4, ListThree
<1>6. /\ o.next[1].do = "take" /\ o.next[2].do = "take" /\ o.next[3].do = "put"
      /\ o.next[3].rows = {Link(k)}
  BY <1>2, <1>5 DEF Statement
<1>7. Without(o, {"delete", "assert", "audience"})
  BY <1>5, <1>6 DEF Without
<1>8. PlansErasure(o) /\ PlansRevocation(o) /\ PlansAudience(o) /\ PlansChange(o)
  BY <1>1, <1>7, PlainPlans DEF Without, Audited
<1>9. PlansAssignment(o)
  BY <1>5, <1>6, OwnForms DEF PlansAssignment, Inserts
<1>10. PlansWrites(o)
  BY <1>5, <1>6, NotLinks DEF PlansWrites, Writing, Inserts
<1>11. o.name \in Names /\ o.of \in Whoms
  BY <1>1 DEF Names, Whoms, Clients
<1>12. ASSUME NEW other, NEW m
       PROVE  /\ Wants(o, 1, other, m) => other = Client(k) /\ m = "update"
              /\ Wants(o, 2, other, m) => other = resource /\ m = "update"
              /\ Wants(o, 3, other, m) =>
                   \/ m = "insert" /\ other = Link(k)
                   \/ m \in {"key", "nokey"} /\ (other = Client(k) \/ other = resource)
  BY <1>1, <1>2, <1>5, ParentForms DEF Wants, Locking, Statement, Inserts
<1>13. \A i \in DOMAIN o.next, other \in Rows, m \in Modes : Wants(o, i, other, m) =>
         /\ other \in {Client(k), Link(k), resource}
         /\ m = "insert" => other = Link(k)
  BY <1>5, <1>12, Tags
<1>14. \A i \in DOMAIN o.next, other \in Rows, m \in Modes : Wants(o, i, other, m) =>
         other[1] # "assignment"
  BY <1>13, Tags
<1>15. PlansShares(o) /\ PlansPutting(o)
  <2>1. PlansPutting(o)
    BY <1>1 DEF PlansPutting
  <2>2. \A v \in Users : Assignment(v) \in Rows
    BY RowForms
  <2>3. "share" \in Modes
    BY DEF Modes
  <2>4. PlansShares(o)
    BY <1>5, <1>14, <2>2, <2>3, Tags DEF PlansShares
  <2> QED BY <2>1, <2>4
<1>16. Takes(o, 1, "take", Client(k)) /\ Takes(o, 2, "take", resource)
  BY <1>2, <1>5 DEF Takes
<1>17. ByClient(o)
  <2>1. resource # Client(k) /\ resource # Link(k)
    BY Tags
  <2>2. \A i \in 1..3, m \in Modes : Wants(o, i, resource, m) => i = 2 \/ i = 3
    BY <1>12, <2>1
  <2>3. \A j \in 1..2, n \in Modes : Wants(o, j, resource, n) => j = 2 /\ n = "update"
    BY <1>12, <2>1
  <2>4. 2 \in 1..(3 - 1)
    OBVIOUS
  <2> QED BY <1>1, <1>5, <1>16, <1>12, <1>13, <2>1, <2>2, <2>3, <2>4 DEF ByClient
<1>18. PlansLocks(o)
  BY <1>1, <1>15, <1>17 DEF PlansLocks
<1> QED BY <1>18, <1>5, <1>8, <1>9, <1>11, <1>10 DEF Planned

LEMMA UnlinkIsPlanned ==
  ASSUME NEW k \in Clients, NEW o, o = Offer("unlinkResource", k, unlinkResource(k))
  PROVE  Planned(o)
<1>1. o.name = "unlinkResource" /\ o.of = k /\ o.next = unlinkResource(k)
  BY DEF Offer
<1>2. PICK a, b, c :
        /\ a = Statement("take", {Client(k)}, "update")
        /\ b = Statement("take", {resource}, "share")
        /\ c = Statement("delete", {Link(k)}, "update")
  BY Zenon
<1>3. a \in Statements /\ b \in Statements /\ c \in Statements
  BY <1>2, StatementForms, RowForms, NotLinks DEF Firm
<1>4. o.next = Three(a, b, c)
  BY <1>1, <1>2, Zenon DEF Two, Three, unlinkResource, lockClientForCommand,
     readResourceForPolicy, Take, Delete
<1>5. /\ o.next \in Seq(Statements) /\ o.next # <<>> /\ Len(o.next) = 3 /\ DOMAIN o.next = 1..3
      /\ o.next[1] = a /\ o.next[2] = b /\ o.next[3] = c
  BY <1>3, <1>4, ListThree
<1>6. /\ o.next[1].do = "take" /\ o.next[2].do = "take" /\ o.next[3].do = "delete"
      /\ o.next[3].rows = {Link(k)}
  BY <1>2, <1>5 DEF Statement
<1>7. Without(o, Inserts \cup {"assert", "audience"})
  BY <1>5, <1>6 DEF Without, Inserts
<1>8. /\ PlansRevocation(o) /\ PlansAssignment(o) /\ PlansAudience(o) /\ PlansChange(o)
  BY <1>1, <1>7, PlainPlans DEF Without, Audited
<1>9. PlansErasure(o)
  BY <1>5, <1>6, <1>7, Childless DEF PlansErasure, Without
<1>10. PlansWrites(o)
  BY <1>5, <1>6, NotLinks DEF PlansWrites, Writing, Inserts
<1>11. o.name \in Names /\ o.of \in Whoms
  BY <1>1 DEF Names, Whoms, Clients
<1>12. ASSUME NEW other, NEW m
       PROVE  /\ Wants(o, 1, other, m) => other = Client(k) /\ m = "update"
              /\ Wants(o, 2, other, m) => other = resource /\ m = "share"
              /\ Wants(o, 3, other, m) =>
                   \/ m = "update" /\ other = Link(k)
                   \/ m = "nokey" /\ (other = Client(k) \/ other = resource)
  BY <1>1, <1>2, <1>5, ParentForms DEF Wants, Locking, Statement, Inserts
<1>13. \A i \in DOMAIN o.next, other \in Rows, m \in Modes : Wants(o, i, other, m) =>
         /\ other \in {Client(k), Link(k), resource}
         /\ m = "insert" => other = Link(k)
  BY <1>5, <1>12, Tags
<1>14. \A i \in DOMAIN o.next, other \in Rows, m \in Modes : Wants(o, i, other, m) =>
         other[1] # "assignment"
  BY <1>13, Tags
<1>15. PlansShares(o) /\ PlansPutting(o)
  <2>1. PlansPutting(o)
    BY <1>1 DEF PlansPutting
  <2>2. \A v \in Users : Assignment(v) \in Rows
    BY RowForms
  <2>3. "share" \in Modes
    BY DEF Modes
  <2>4. PlansShares(o)
    BY <1>5, <1>14, <2>2, <2>3, Tags DEF PlansShares
  <2> QED BY <2>1, <2>4
<1>16. Takes(o, 1, "take", Client(k))
  BY <1>2, <1>5 DEF Takes
<1>17. ByClient(o)
  BY <1>1, <1>5, <1>16, <1>13 DEF ByClient
<1>18. PlansLocks(o)
  BY <1>1, <1>15, <1>17 DEF PlansLocks
<1> QED BY <1>18, <1>5, <1>8, <1>9, <1>11, <1>10 DEF Planned

LEMMA EraseClientIsPlanned ==
  ASSUME NEW k \in Clients, NEW o, o = Offer("eraseClient", k, eraseClient(k))
  PROVE  Planned(o)
<1>1. o.name = "eraseClient" /\ o.of = k /\ o.next = eraseClient(k)
  BY DEF Offer
<1>2. PICK a, b, c, d, e :
        /\ a = Statement("take", {Client(k)}, "update")
        /\ b = Statement("free", OfClient(k, AnyEntitlement), None)
        /\ c = Statement("free", OfClient(k, {capability}), None)
        /\ d = Statement("delete", {Link(k)}, "update")
        /\ e = Statement("delete", {Client(k)}, "update")
  BY Zenon
<1>3. a \in Statements /\ b \in Statements /\ c \in Statements /\ d \in Statements
      /\ e \in Statements
  BY <1>2, StatementForms, RowForms, NotLinks DEF Firm, OfClient, AnyEntitlement
<1>4. o.next = Five(a, b, c, d, e)
  <2>1. Three(a, b, c) \o Two(d, e) = Five(a, b, c, d, e)
    BY <1>3, Parts32
  <2> QED BY <1>1, <1>2, <2>1, Zenon DEF Two, Three, eraseClient, lockClientForCommand, Take,
         Free, deleteClient, Delete
<1>5. /\ o.next \in Seq(Statements) /\ o.next # <<>> /\ Len(o.next) = 5 /\ DOMAIN o.next = 1..5
      /\ o.next[1] = a /\ o.next[2] = b /\ o.next[3] = c /\ o.next[4] = d /\ o.next[5] = e
  BY <1>3, <1>4, ListFive
<1>6. /\ o.next[1].do = "take" /\ o.next[2].do = "free"
      /\ o.next[2].rows = OfClient(k, AnyEntitlement) /\ o.next[3].do = "free"
      /\ o.next[3].rows = OfClient(k, {capability}) /\ o.next[4].do = "delete"
      /\ o.next[4].rows = {Link(k)} /\ o.next[5].do = "delete" /\ o.next[5].rows = {Client(k)}
  BY <1>2, <1>5 DEF Statement
<1>7. Takes(o, 1, "take", Client(k))
  BY <1>2, <1>5 DEF Takes
<1>8. Without(o, Inserts \cup {"assert", "audience"})
  BY SMTT(30), <1>5, <1>6 DEF Without, Inserts
<1>9. /\ PlansRevocation(o) /\ PlansAssignment(o) /\ PlansAudience(o) /\ PlansChange(o)
  BY <1>1, <1>8, PlainPlans DEF Without, Audited
<1>10. PlansErasure(o)
  <2>1. ASSUME NEW row \in Rows, Client(k) \in Parents(row) PROVE WillClear(o, row, 5)
    <3>1. /\ WillSettle(o, Client(k), 2) /\ WillSettle(o, Client(k), 3)
          /\ WillSettle(o, Client(k), 4)
      BY <1>7 DEF WillSettle
    <3> QED BY <1>6, <2>1, <3>1, Children DEF WillClear, OfClient
  <2> QED BY <1>5, <1>6, <1>8, <2>1, Childless DEF PlansErasure, Without
<1>11. PlansWrites(o)
  <2>1. capability \notin {Link(k), Client(k)}
    BY DEF capability, Link, Client
  <2> QED BY SMTT(30), <1>5, <1>6, <2>1 DEF PlansWrites, Writing, Inserts
<1>12. o.name \in Names /\ o.of \in Whoms
  BY <1>1 DEF Names, Whoms, Clients
<1>13. ASSUME NEW other, NEW m
       PROVE  /\ Wants(o, 1, other, m) => other = Client(k) /\ m = "update"
              /\ ~Wants(o, 2, other, m)
              /\ ~Wants(o, 3, other, m)
              /\ Wants(o, 4, other, m) =>
                   \/ m = "update" /\ other = Link(k)
                   \/ m = "nokey" /\ (other = Client(k) \/ other = resource)
              /\ Wants(o, 5, other, m) => other = Client(k) /\ m = "update"
  BY <1>1, <1>2, <1>5, ParentForms, NotLinks DEF Wants, Locking, Statement, Inserts
<1>14. \A i \in DOMAIN o.next, other \in Rows, m \in Modes : Wants(o, i, other, m) =>
         /\ other \in {Client(k), Link(k), resource}
         /\ m = "insert" => other = Link(k)
  BY <1>5, <1>13, Tags
<1>15. \A i \in DOMAIN o.next, other \in Rows, m \in Modes : Wants(o, i, other, m) =>
         other[1] # "assignment"
  BY <1>14, Tags
<1>16. PlansShares(o) /\ PlansPutting(o)
  <2>1. PlansPutting(o)
    BY <1>1 DEF PlansPutting
  <2>2. \A v \in Users : Assignment(v) \in Rows
    BY RowForms
  <2>3. "share" \in Modes
    BY DEF Modes
  <2>4. PlansShares(o)
    BY <1>5, <1>15, <2>2, <2>3, Tags DEF PlansShares
  <2> QED BY <2>1, <2>4
<1>17. ByClient(o)
  <2>1. resource # Client(k) /\ resource # Link(k)
    BY Tags
  <2>2. \A i \in 1..5, m \in Modes : Wants(o, i, resource, m) => i = 4 /\ m = "nokey"
    BY <1>13, <2>1
  <2>3. \A i \in 1..5 : \A j \in 1..i : j \in 1..5
    OBVIOUS
  <2> QED BY <1>1, <1>5, <1>7, <1>14, <2>2, <2>3 DEF ByClient
<1>18. PlansLocks(o)
  BY <1>1, <1>16, <1>17 DEF PlansLocks
<1> QED BY <1>18, <1>5, <1>9, <1>10, <1>12, <1>11 DEF Planned

LEMMA EraseResourceIsPlanned ==
  ASSUME NEW o, o = Offer("eraseResource", "it", eraseResource)
  PROVE  Planned(o)
<1>1. o.name = "eraseResource" /\ o.of = "it" /\ o.next = eraseResource
  BY DEF Offer
<1>2. PICK a, b, c, d, e :
        /\ a = Statement("take", {resource}, "update")
        /\ b = Statement("free", AnyEntitlement, None)
        /\ c = Statement("free", {Link(k) : k \in Clients}, None)
        /\ d = Statement("free", {capability}, None)
        /\ e = Statement("delete", {resource}, "update")
  BY Zenon
<1>3. a \in Statements /\ b \in Statements /\ c \in Statements /\ d \in Statements
      /\ e \in Statements
  BY <1>2, StatementForms, RowForms, NotLinks DEF Firm, AnyEntitlement
<1>4. o.next = Five(a, b, c, d, e)
  BY <1>1, <1>2, Zenon DEF Two, Three, Four, Five, eraseResource, lockResourceForCommand, Take,
     Free, requireNoCapabilityReferences, Delete
<1>5. /\ o.next \in Seq(Statements) /\ o.next # <<>> /\ Len(o.next) = 5 /\ DOMAIN o.next = 1..5
      /\ o.next[1] = a /\ o.next[2] = b /\ o.next[3] = c /\ o.next[4] = d /\ o.next[5] = e
  BY <1>3, <1>4, ListFive
<1>6. /\ o.next[1].do = "take" /\ o.next[2].do = "free" /\ o.next[2].rows = AnyEntitlement
      /\ o.next[3].do = "free" /\ o.next[3].rows = {Link(k) : k \in Clients}
      /\ o.next[4].do = "free" /\ o.next[4].rows = {capability} /\ o.next[5].do = "delete"
      /\ o.next[5].rows = {resource}
  BY <1>2, <1>5 DEF Statement
<1>7. Takes(o, 1, "take", resource)
  BY <1>2, <1>5 DEF Takes
<1>8. Without(o, Inserts \cup {"assert", "audience"})
  BY <1>5, <1>6 DEF Without, Inserts
<1>9. /\ PlansRevocation(o) /\ PlansAssignment(o) /\ PlansAudience(o) /\ PlansChange(o)
  BY <1>1, <1>8, PlainPlans DEF Without, Audited
<1>10. PlansErasure(o)
  <2>1. ASSUME NEW row \in Rows, resource \in Parents(row) PROVE WillClear(o, row, 5)
    <3>1. WillSettle(o, resource, 2) /\ WillSettle(o, resource, 3) /\ WillSettle(o, resource, 4)
      BY <1>7 DEF WillSettle
    <3> QED BY <1>6, <2>1, <3>1, Children DEF WillClear
  <2> QED BY <1>5, <1>6, <1>8, <2>1 DEF PlansErasure, Without
<1>11. PlansWrites(o)
  <2>1. capability # resource
    BY DEF capability, resource
  <2> QED BY <1>5, <1>6, <2>1 DEF PlansWrites, Writing, Inserts
<1>12. o.name \in Names /\ o.of \in Whoms
  BY <1>1 DEF Names, Whoms
<1>13. ASSUME NEW other, NEW m
       PROVE  /\ Wants(o, 1, other, m) => other = resource /\ m = "update"
              /\ ~Wants(o, 2, other, m)
              /\ ~Wants(o, 3, other, m)
              /\ ~Wants(o, 4, other, m)
              /\ Wants(o, 5, other, m) => other = resource /\ m = "update"
  BY <1>1, <1>2, <1>5, NotLinks DEF Wants, Locking, Statement, Inserts
<1>14. \A i \in DOMAIN o.next, other \in Rows, m \in Modes : Wants(o, i, other, m) =>
         other = resource /\ m # "insert"
  BY <1>5, <1>13, Tags
<1>15. PlansShares(o) /\ PlansPutting(o)
  <2>1. PlansPutting(o)
    BY <1>1 DEF PlansPutting
  <2>2. \A v \in Users : Assignment(v) \in Rows
    BY RowForms
  <2>3. "share" \in Modes
    BY DEF Modes
  <2>4. PlansShares(o)
    BY <1>5, <1>14, <2>2, <2>3, Tags DEF PlansShares
  <2> QED BY <2>1, <2>4
<1>16. ByResource(o)
  BY <1>5, <1>7, <1>14 DEF ByResource
<1>17. PlansLocks(o)
  BY <1>1, <1>15, <1>16 DEF PlansLocks
<1> QED BY <1>17, <1>5, <1>9, <1>10, <1>12, <1>11 DEF Planned

\* What is offered of the organisation.
LEMMA EraseOrganizationIsPlanned ==
  ASSUME NEW o, o = Offer("eraseOrganization", "it", eraseOrganization)
  PROVE  Planned(o)
<1>1. o.name = "eraseOrganization" /\ o.of = "it" /\ o.next = eraseOrganization
  BY DEF Offer
<1>2. PICK a, b, c, d, e, f, g :
        /\ a = Statement("take", {organization}, "update")
        /\ b = Statement("delete", AnyEntitlement, "update")
        /\ c = Statement("delete", {Assignment(u) : u \in Users}, "update")
        /\ d = Statement("delete", {Member(u) : u \in Users}, "update")
        /\ e = Statement("delete", {group}, "update")
        /\ f = Statement("delete", {capability}, "update")
        /\ g = Statement("delete", {organization}, "update")
  BY Zenon
<1>3. a \in Statements /\ b \in Statements /\ c \in Statements /\ d \in Statements
      /\ e \in Statements /\ f \in Statements /\ g \in Statements
  BY <1>2, StatementForms, RowForms, NotLinks DEF AnyEntitlement, Firm
<1>4. o.next = Seven(a, b, c, d, e, f, g)
  <2>1. <<a>> \o Six(b, c, d, e, f, g) = Seven(a, b, c, d, e, f, g)
    BY <1>3, Parts16
  <2> QED BY <1>1, <1>2, <2>1, Zenon DEF Two, Three, Four, Five, Six, eraseOrganization,
         lockOrganizationForCommand, Take, deleteOrganization, Delete
<1>5. /\ o.next \in Seq(Statements) /\ o.next # <<>> /\ Len(o.next) = 7 /\ DOMAIN o.next = 1..7
      /\ o.next[1] = a /\ o.next[2] = b /\ o.next[3] = c /\ o.next[4] = d /\ o.next[5] = e
      /\ o.next[6] = f /\ o.next[7] = g
  BY <1>3, <1>4, ListSeven
<1>6. /\ o.next[1].do = "take" /\ o.next[2].do = "delete" /\ o.next[2].rows = AnyEntitlement
      /\ o.next[3].do = "delete" /\ o.next[3].rows = {Assignment(u) : u \in Users}
      /\ o.next[4].do = "delete" /\ o.next[4].rows = {Member(u) : u \in Users}
      /\ o.next[5].do = "delete" /\ o.next[5].rows = {group} /\ o.next[6].do = "delete"
      /\ o.next[6].rows = {capability} /\ o.next[7].do = "delete"
      /\ o.next[7].rows = {organization}
  BY <1>2, <1>5 DEF Statement
<1>7. Takes(o, 1, "take", organization)
  BY <1>2, <1>5 DEF Takes
<1>8. Without(o, Inserts \cup {"assert", "audience"})
  BY <1>5, <1>6 DEF Without, Inserts
<1>9. /\ PlansRevocation(o) /\ PlansAssignment(o) /\ PlansAudience(o) /\ PlansWrites(o)
      /\ PlansChange(o)
  BY <1>1, <1>7, <1>8, PlainPlans DEF Without, Audited
<1>10. PlansErasure(o)
  <2>1. \A j \in 2..7 : WillSettle(o, organization, j)
    BY <1>7 DEF WillSettle
  <2>2. \A row \in AnyEntitlement \cup {Assignment(u) : u \in Users} : organization \in Parents(row)
    BY ParentForms DEF AnyEntitlement
  <2>3. \A row \in AnyEntitlement \cup {Assignment(u) : u \in Users} : \A i \in 4..7 :
          WillClear(o, row, i)
    BY <1>6, <2>1, <2>2 DEF WillClear
  <2>4. ASSUME NEW row \in Rows, NEW u \in Users, Member(u) \in Parents(row)
        PROVE  WillClear(o, row, 4)
    BY <2>3, <2>4, Children DEF Own, AnyEntitlement, Principals
  <2>5. ASSUME NEW row \in Rows, group \in Parents(row) PROVE WillClear(o, row, 5)
    BY <2>3, <2>5, Children DEF AnyEntitlement, Principals
  <2>6. ASSUME NEW row \in Rows, organization \in Parents(row) PROVE WillClear(o, row, 7)
    BY <1>6, <2>1, <2>3, <2>6, Children DEF WillClear
  <2>7. ASSUME NEW i \in 1..7, o.next[i].do = "delete", NEW row \in Rows,
               NEW p \in Parents(row), p \in o.next[i].rows
        PROVE  WillClear(o, row, i)
    <3>1. i # 1
      BY <1>6, <2>7
    <3>2. i \in {2, 3, 6} => FALSE
      BY <1>6, <2>7, Childless DEF AnyEntitlement
    <3> QED BY <1>6, <2>4, <2>5, <2>6, <2>7, <3>1, <3>2
  <2>8. Without(o, Inserts)
    BY <1>8 DEF Without
  <2> QED BY <1>5, <2>7, <2>8 DEF PlansErasure
<1>11. o.name \in Names /\ o.of \in Whoms
  BY <1>1 DEF Names, Whoms
<1>12. ASSUME NEW other, NEW m
       PROVE  /\ Wants(o, 1, other, m) => other = organization /\ m = "update"
              /\ Wants(o, 2, other, m) =>
                   m = "update" /\ \E p \in Principals : other = Entitlement(p)
              /\ Wants(o, 3, other, m) => m = "update" /\ \E v \in Users : other = Assignment(v)
              /\ Wants(o, 4, other, m) => m = "update" /\ \E v \in Users : other = Member(v)
              /\ Wants(o, 5, other, m) => other = group /\ m = "update"
              /\ Wants(o, 6, other, m) => other = capability /\ m = "update"
              /\ Wants(o, 7, other, m) => other = organization /\ m = "update"
  BY SMTT(30), <1>1, <1>2, <1>5, NotLinks DEF AnyEntitlement, Wants, Locking, Statement, Inserts
<1>13. \A i \in DOMAIN o.next, other \in Rows, m \in Modes : Wants(o, i, other, m) =>
         /\ other[1] \in {"organization", "entitlement", "assignment", "member", "group",
                          "capability"}
         /\ m = "update"
  BY <1>5, <1>12, Tags
<1>14. PlansShares(o) /\ PlansPutting(o) /\ o.name \in Crossing
  <2>1. PlansPutting(o)
    BY <1>1 DEF PlansPutting
  <2>2. \A v \in Users : Member(v) \in Rows /\ Assignment(v) \in Rows /\ Entitlement(v) \in Rows
    BY RowForms DEF Principals
  <2>3. Firm \subseteq Modes /\ "insert" \notin Firm /\ {"share", "update"} \subseteq Modes
    BY DEF Firm, Modes
  <2>4. PlansShares(o)
    <3>1. \A i \in DOMAIN o.next, v \in Users : Wants(o, i, Assignment(v), "share") => FALSE
      BY <1>13, <2>2, <2>3, Tags
    <3> QED BY <1>5, <1>6, <3>1 DEF PlansShares
  <2> QED BY <1>1, <2>1, <2>4 DEF Crossing
<1>15. PlansInserts(o)
  <2>1. "insert" \in Modes
    BY DEF Modes
  <2> QED BY <1>5, <1>12, <2>1, Tags DEF PlansInserts, Inserted
<1>16. ByTenant(o)
  BY <1>7, <1>13, <1>14, <1>15, TenantLocks
<1>17. PlansLocks(o)
  BY <1>1, <1>14, <1>16 DEF PlansLocks
<1> QED BY <1>17, <1>5, <1>9, <1>10, <1>11 DEF Planned

\* Every command the code offers keeps to the plan.
LEMMA OffersArePlanned ==
  ASSUME NEW x \in Offers
  PROVE  Planned(x)
<1>1. ASSUME x \in EntitlementOffers PROVE Planned(x)
  <2>1. PICK p \in Principals : \/ x = Offer("createEntitlement", p, createEntitlement(p))
                                \/ x = Offer("updateEntitlement", p, updateEntitlement(p))
                                \/ x = Offer("removeEntitlement", p, removeEntitlement(p))
    BY <1>1 DEF EntitlementOffers
  <2>2. CASE x = Offer("createEntitlement", p, createEntitlement(p))
    <3>1. p \in Users \/ p = "group" \/ p = "all"
      BY DEF Principals
    <3>2. CASE p \in Users
      BY <2>2, <3>2, CreateForMemberIsPlanned
    <3>3. CASE p = "group"
      BY <2>2, <3>3, CreateForGroupIsPlanned
    <3>4. CASE p = "all"
      BY <2>2, <3>4, CreateForAllIsPlanned
    <3> QED BY <3>1, <3>2, <3>3, <3>4
  <2> QED BY <2>1, <2>2, UpdateEntitlementIsPlanned, RemoveEntitlementIsPlanned
<1>2. ASSUME x \in CapabilityOffers PROVE Planned(x)
  BY <1>2, CreateCapabilityIsPlanned, UpdateCapabilityIsPlanned, RemoveCapabilityIsPlanned
     DEF CapabilityOffers
<1>3. ASSUME x \in GroupOffers PROVE Planned(x)
  <2>1. CASE x = Offer("updateGroup", "it", updateGroup)
    <3>1. updateGroup = lockOrganizationForCommand \o Take(group, "update")
                        \o assertRevision(group) \o Change(group)
      BY Zenon DEF updateGroup, lockedGroup
    <3>2. "updateGroup" \in Names \ (Audited \cup {"remove", "putMember", "eraseUser"})
          /\ "it" \in Whoms
      BY DEF Names, Audited, Whoms
    <3> QED BY <2>1, <3>1, <3>2, TenantUpdateIsPlanned
  <2>2. \/ x = Offer("createGroup", "it", createGroup) \/ x = Offer("eraseGroup", "it", eraseGroup)
        \/ x = Offer("updateGroup", "it", updateGroup)
        \/ \E u \in Users : \/ x = Offer("putMember", u, putMember(u))
                            \/ x = Offer("removeMember", u, removeMember(u))
    BY <1>3 DEF GroupOffers
  <2> QED BY <2>1, <2>2, CreateGroupIsPlanned, EraseGroupIsPlanned, PutMemberIsPlanned,
            RemoveMemberIsPlanned
<1>4. ASSUME x \in MemberOffers PROVE Planned(x)
  <2>1. PICK u \in Users : \/ x = Offer("updateWindow", u, updateWindow(u))
                           \/ x = Offer("remove", u, remove(u))
                           \/ x = Offer("reinstate", u, reinstate(u))
    BY <1>4 DEF MemberOffers
  <2>2. CASE x = Offer("updateWindow", u, updateWindow(u))
    <3>1. updateWindow(u) = lockOrganizationForCommand \o Take(Member(u), "update")
                            \o assertRevision(Member(u)) \o Change(Member(u))
      BY Zenon DEF updateWindow
    <3>2. "updateWindow" \in Names \ (Audited \cup {"remove", "putMember", "eraseUser"})
          /\ u \in Whoms
      BY DEF Names, Audited, Whoms
    <3> QED BY <2>2, <3>1, <3>2, TenantUpdateIsPlanned
  <2> QED BY <2>1, <2>2, RemoveIsPlanned, ReinstateIsPlanned
<1>5. ASSUME x \in UserOffers \cup SignInOffers PROVE Planned(x)
  BY <1>5, EraseUserIsPlanned, ProvisionIsPlanned DEF UserOffers, SignInOffers
<1>6. ASSUME x \in ClientOffers PROVE Planned(x)
  <2>1. PICK k \in Clients : \/ x = Offer("updateClient", k, updateClient(k))
                             \/ x = Offer("eraseClient", k, eraseClient(k))
                             \/ x = Offer("linkResource", k, linkResource(k))
                             \/ x = Offer("unlinkResource", k, unlinkResource(k))
    BY <1>6 DEF ClientOffers
  <2>2. CASE x = Offer("updateClient", k, updateClient(k))
    <3>1. updateClient(k) = Take(Client(k), "update") \o assertRevision(Client(k))
                            \o Change(Client(k))
      BY Zenon DEF updateClient, lockClientForCommand
    <3>2. "updateClient" \in Names \ (Audited \cup {"remove", "putMember", "eraseUser"})
          /\ k \in Whoms
      BY DEF Names, Audited, Whoms, Clients
    <3> QED BY <2>2, <3>1, <3>2, UpdateIsPlanned
  <2> QED BY <2>1, <2>2, EraseClientIsPlanned, LinkIsPlanned, UnlinkIsPlanned
<1>7. ASSUME x \in ResourceOffers PROVE Planned(x)
  <2>1. CASE x = Offer("updateResource", "it", updateResource)
    <3>1. updateResource = Take(resource, "update") \o assertRevision(resource) \o Change(resource)
      BY Zenon DEF updateResource, lockResourceForCommand
    <3>2. "updateResource" \in Names \ (Audited \cup {"remove", "putMember", "eraseUser"})
          /\ "it" \in Whoms
      BY DEF Names, Audited, Whoms
    <3> QED BY <2>1, <3>1, <3>2, UpdateIsPlanned
  <2> QED BY <1>7, <2>1, EraseResourceIsPlanned DEF ResourceOffers
<1>8. ASSUME x \in OrganizationOffers PROVE Planned(x)
  <2>1. CASE x = Offer("updateOrganization", "it", updateOrganization)
    <3>1. updateOrganization = Take(organization, "update") \o assertRevision(organization)
                               \o Change(organization)
      BY Zenon DEF updateOrganization, lockOrganizationForCommand
    <3>2. "updateOrganization" \in Names \ (Audited \cup {"remove", "putMember", "eraseUser"})
          /\ "it" \in Whoms
      BY DEF Names, Audited, Whoms
    <3> QED BY <2>1, <3>1, <3>2, UpdateIsPlanned
  <2> QED BY <1>8, <2>1, EraseOrganizationIsPlanned DEF OrganizationOffers
<1> QED BY <1>1, <1>2, <1>3, <1>4, <1>5, <1>6, <1>7, <1>8 DEF Offers

(***************************************************************************)
(* Steps                                                                   *)
(***************************************************************************)
LEMMA IdleIsFine ==
  ASSUME NEW l, NEW rv, NEW rev
  PROVE  Idle \in Asking /\ Idle.held = {} /\ Fine(l, rv, rev, Idle)
<1>1. /\ Idle.name = None /\ Idle.of = None /\ Idle.expected = {} /\ Idle.next = <<>>
      /\ Idle.started = FALSE /\ Idle.pending = {} /\ Idle.held = {} /\ Idle.added = {}
      /\ Idle.removed = {} /\ Idle.changed = {} /\ Idle.seen = {}
  BY DEF Idle
<1>2. Idle \in Asking
  BY DEF Idle, Asking, Names, Whoms
<1>3. DOMAIN Idle.next = {}
  BY <1>1
<1>4. Idle.name \notin Audited /\ Idle.name # "remove"
  BY <1>1 DEF Audited, None
<1>5. OneWay(Idle) /\ Rests(l, Idle) /\ Erases(l, Idle) /\ Waits(Idle)
  BY <1>1, <1>3 DEF OneWay, Without, Rests, Erases, Waits
<1>6. Revokes(l, Idle) /\ Assigns(rv, Idle) /\ Hears(l, Idle)
  BY <1>1, <1>3, <1>4 DEF Revokes, Assigns, Hears
<1>7. Writes(l, Idle) /\ Matches(l, rev, Idle)
  BY <1>1, <1>3 DEF Writes, Written, Matches
<1> QED BY <1>1, <1>2, <1>5, <1>6, <1>7 DEF Fine

\* A command that is begun.
LEMMA BeginKeeps ==
  ASSUME Typed, NEW c \in Commands, NEW x \in Offers, Begin(c, x)
  PROVE  /\ command'[c] \in Asking /\ command'[c].held = {}
         /\ Fine(live, revoked, revision, command'[c])
<1>0. PICK y : y = command'[c]
  OBVIOUS
<1>1. Planned(x)
  BY OffersArePlanned
<1>2. PICK expected \in Accepts(x) :
        y = [Idle EXCEPT !.name = x.name, !.of = x.of, !.next = x.next, !.expected = expected]
  BY <1>0 DEF Begin, Typed
<1>3. Asserted(x.next) # {} => ~Without(x, {"assert"})
  BY DEF Asserted, Without
<1>4. expected \in SUBSET (SUBSET Nat) /\ (expected # {} => Asserted(x.next) # {})
  <2>1. {revision[row] : row \in Asserted(x.next) \cap live} \subseteq Nat
    BY DEF Typed
  <2> QED BY <1>2, <2>1 DEF Accepts
<1>5. Idle \in Asking
  BY IdleIsFine
<1>6. /\ y.name = x.name /\ y.of = x.of /\ y.next = x.next /\ y.expected = expected
      /\ y.started = FALSE /\ y.pending = {} /\ y.held = {} /\ y.added = {} /\ y.removed = {}
      /\ y.changed = {} /\ y.seen = {}
  BY <1>2 DEF Idle
<1>7. y \in Asking
  BY <1>1, <1>2, <1>4, <1>5 DEF Planned, Asking
<1>8. Fine(live, revoked, revision, y)
  BY <1>1, <1>3, <1>4, <1>6, <1>7, BegunIsFine
<1> QED BY <1>0, <1>6, <1>7, <1>8

\* Exclusion is mutual.
LEMMA ApartBothWays ==
  ASSUME NEW x, NEW z, Apart(x, z)
  PROVE  Apart(z, x)
<1>1. \A a, b : {a.mode, b.mode} = {b.mode, a.mode}
  OBVIOUS
<1>2. \A a, b : Excludes(a, b) <=> Excludes(b, a)
  BY <1>1, Zenon DEF Excludes
<1> QED BY <1>2, Zenon DEF Apart

\* A command that goes on as it should disturbs nobody.
LEMMA GoesOn ==
  ASSUME Inv, NEW c \in Commands, NEW y \in Asking, command' = [command EXCEPT ![c] = y],
         Fine(live, revoked, revision, y), \A d \in Commands \ {c} : Apart(y, command[d]),
         UNCHANGED worldVars, begun' \in 0..MaxCommands
  PROVE  Inv'
<1>1. live' = live /\ revoked' = revoked /\ revision' = revision
  BY DEF worldVars
<1>2. command' \in [Commands -> Asking] /\ command'[c] = y
      /\ \A d \in Commands \ {c} : command'[d] = command[d]
  BY DEF Inv, Typed
<1>3. Typed'
  BY <1>1, <1>2 DEF Inv, Typed
<1>4. NothingOutlives'
  BY <1>1, Zenon DEF Inv, NothingOutlives, NoOrphans, RevokedHoldNothing
<1>5. \A d \in Commands : Fine(live', revoked', revision', command'[d])
  <2>1. ASSUME NEW d \in Commands PROVE Fine(live, revoked, revision, command'[d])
    BY <1>2, Zenon DEF Inv
  <2> QED BY <1>1, <2>1, Zenon
<1>6. ASSUME NEW d \in Commands, NEW e \in Commands, d # e PROVE Apart(command'[d], command'[e])
  <2>1. CASE d = c
    BY <1>2, <1>6, <2>1
  <2>2. CASE e = c
    BY <1>2, <1>6, <2>2, ApartBothWays
  <2>3. CASE d # c /\ e # c
    BY <1>2, <1>6, <2>3 DEF Inv
  <2> QED BY <2>1, <2>2, <2>3
<1> QED BY <1>3, <1>4, <1>5, <1>6, Zenon DEF Inv

\* What a command commits.
LEMMA CommitForms ==
  ASSUME Inv, NEW c \in Commands, Commit(c), NEW x, x = command[c]
  PROVE  /\ x \in Asking /\ x.next = <<>> /\ live' = Sees(live, x)
         /\ live' \subseteq Rows /\ revoked' \subseteq Users /\ revision' \in [Rows -> Nat]
         /\ \A u \in revoked' : u \in revoked \/ (x.name = "remove" /\ u = x.of)
         /\ \A row \in Rows : row \notin Written(x) => revision'[row] = revision[row]
         /\ command' = [command EXCEPT ![c] = Idle] /\ begun' = begun
<1>1. x \in Asking /\ live \subseteq Rows /\ revoked \subseteq Users /\ revision \in [Rows -> Nat]
  BY DEF Inv, Typed
<1>2. x.next = <<>> /\ live' = Sees(live, x) /\ revoked' = Revoked(x)
      /\ command' = [command EXCEPT ![c] = Idle] /\ begun' = begun
  BY DEF Commit, Sees, End
<1>3. revision' = [row \in Rows |-> IF row \in Written(x) THEN revision[row] + 1 ELSE revision[row]]
  BY DEF Commit
<1>4. live' \subseteq Rows
  BY <1>1, <1>2 DEF Sees, Asking
<1>5. x.name = "remove" => x.of \in Users
  BY DEF Inv, Fine, Revokes
<1>6. /\ revoked' \subseteq Users
      /\ \A u \in revoked' : u \in revoked \/ (x.name = "remove" /\ u = x.of)
  BY <1>1, <1>2, <1>5 DEF Revoked
<1>7. /\ revision' \in [Rows -> Nat]
      /\ \A row \in Rows : row \notin Written(x) => revision'[row] = revision[row]
  BY <1>1, <1>3
<1> QED BY <1>1, <1>2, <1>4, <1>6, <1>7

\* A commit leaves nothing that outlives what it rests on.
LEMMA CommitKeepsTenant ==
  ASSUME Inv, NEW c \in Commands, Commit(c)
  PROVE  NothingOutlives'
<1>0. PICK x : x = command[c]
  OBVIOUS
<1>1. /\ x \in Asking /\ x.next = <<>> /\ live' = Sees(live, x)
      /\ \A u \in revoked' : u \in Users /\ (u \in revoked \/ (x.name = "remove" /\ u = x.of))
  BY <1>0, CommitForms
<1>2. Rests(live, x) /\ Erases(live, x) /\ Revokes(live, x) /\ Assigns(revoked, x)
  BY <1>0 DEF Inv, Fine
<1>3. x.added \subseteq Rows /\ live \subseteq Rows /\ NoOrphans /\ RevokedHoldNothing
  BY <1>1 DEF Inv, Typed, Asking, NothingOutlives
<1>4. ASSUME NEW row \in live', NEW p \in Parents(row) PROVE p \in live'
  <2>1. CASE row \in x.added
    BY <1>1, <1>2, <1>4, <2>1 DEF Rests
  <2>2. CASE row \notin x.added
    <3>1. row \in live /\ row \in Rows /\ p \in live
      BY <1>1, <1>3, <1>4, <2>2 DEF Sees, NoOrphans
    <3>2. p \notin x.removed
      BY <1>1, <1>2, <1>4, <3>1 DEF Erases
    <3> QED BY <1>1, <3>1, <3>2 DEF Sees
  <2> QED BY <2>1, <2>2
<1>5. ASSUME NEW u \in revoked', NEW row \in Own(u) PROVE row \notin live'
  <2>1. CASE x.name = "remove" /\ u = x.of
    <3>1. Promised(live, x, row, 1)
      BY <1>1, <1>2, <1>5, <2>1 DEF Revokes
    <3>2. 1..(1 - 1) = {}
      OBVIOUS
    <3> QED BY <1>1, <3>1, <3>2, Zenon DEF Promised, Cut
  <2>2. CASE u \in revoked
    <3>1. row \notin live
      BY <1>3, <1>5, <2>2 DEF RevokedHoldNothing, Own
    <3>2. row \notin x.added
      BY <1>1, <1>2, <1>5, <2>2 DEF Assigns, Standing
    <3> QED BY <1>1, <3>1, <3>2 DEF Sees
  <2> QED BY <1>1, <1>5, <2>1, <2>2
<1> QED BY <1>4, <1>5 DEF NothingOutlives, NoOrphans, RevokedHoldNothing, Own

\* A commit.
LEMMA CommitKeeps ==
  ASSUME Inv, NEW c \in Commands, Commit(c)
  PROVE  Inv'
<1>0. PICK x : x = command[c]
  OBVIOUS
<1>1. /\ x \in Asking /\ x.next = <<>> /\ live' = Sees(live, x)
      /\ live' \subseteq Rows /\ revoked' \subseteq Users /\ revision' \in [Rows -> Nat]
      /\ \A u \in revoked' : u \in revoked \/ (x.name = "remove" /\ u = x.of)
      /\ \A row \in Rows : row \notin Written(x) => revision'[row] = revision[row]
      /\ command' = [command EXCEPT ![c] = Idle] /\ begun' = begun
  BY <1>0, CommitForms
<1>2. Idle \in Asking /\ Idle.held = {} /\ Fine(live', revoked', revision', Idle)
  BY IdleIsFine
<1>3. command' \in [Commands -> Asking] /\ command'[c] = Idle
      /\ \A d \in Commands \ {c} : command'[d] = command[d]
  BY <1>1, <1>2 DEF Inv, Typed
<1>4. Typed'
  BY <1>1, <1>3 DEF Inv, Typed
<1>5. ASSUME NEW d \in Commands PROVE Fine(live', revoked', revision', command'[d])
  <2>1. CASE d = c
    BY <1>2, <1>3, <2>1
  <2>2. CASE d # c
    <3>1. command[d] \in Asking /\ Fine(live, revoked, revision, command[d])
          /\ Fine(live, revoked, revision, x) /\ Apart(command[d], x)
      BY <1>0, <2>2 DEF Inv, Typed
    <3>2. Fine(Sees(live, x), revoked', revision', command[d])
      BY <1>1, <3>1, CommitOfAnother
    <3> QED BY <1>1, <1>3, <2>2, <3>2
  <2> QED BY <2>1, <2>2
<1>6. ASSUME NEW d \in Commands, NEW e \in Commands, d # e PROVE Apart(command'[d], command'[e])
  <2>1. CASE d = c \/ e = c
    BY <1>2, <1>3, <1>6, <2>1 DEF Apart
  <2>2. CASE d # c /\ e # c
    BY <1>3, <1>6, <2>2 DEF Inv
  <2> QED BY <2>1, <2>2
<1> QED BY <1>4, <1>5, <1>6, CommitKeepsTenant, Zenon DEF Inv

\* The invariant holds at first, and every step keeps it.
LEMMA InitInv == Init => Inv
<1> SUFFICES ASSUME Init PROVE Inv
  OBVIOUS
<1>0. PICK joined \in (SUBSET Users) \ {{}} :
        LET base == {organization, group, resource} \cup {Client(k) : k \in Clients}
                    \cup {User(u) : u \in Users} \cup {Member(u) : u \in joined} IN
        live \in {base, base \cup {row \in Rows : Parents(row) \subseteq base}}
  BY DEF Init
<1> DEFINE base == {organization, group, resource} \cup {Client(k) : k \in Clients}
                   \cup {User(u) : u \in Users} \cup {Member(u) : u \in joined}
<1>1. live \in {base, base \cup {row \in Rows : Parents(row) \subseteq base}}
  BY <1>0
<1>2. \A row \in base : Parents(row) \subseteq base
  BY <1>1, ParentForms
<1>3. base \subseteq Rows
  BY <1>1, RowForms
<1>4. live \subseteq Rows /\ NoOrphans
  BY <1>1, <1>2, <1>3 DEF NoOrphans
<1>5. NothingOutlives
  BY <1>4 DEF Init, NothingOutlives, RevokedHoldNothing
<1>6. Idle \in Asking /\ Idle.held = {} /\ Fine(live, revoked, revision, Idle)
  BY IdleIsFine
<1>7. Typed
  BY <1>4, <1>6, PolicyAssumption DEF Init, Typed
<1>8. \A c \in Commands : command[c] = Idle
  BY DEF Init
<1> QED BY <1>5, <1>6, <1>7, <1>8 DEF Inv, Apart

LEMMA NextInv == Inv /\ [Next]_vars => Inv'
<1> SUFFICES ASSUME Inv, [Next]_vars PROVE Inv'
  OBVIOUS
<1>0. /\ Typed /\ begun \in 0..MaxCommands /\ \A c \in Commands : command[c] \in Asking
      /\ \A c \in Commands : Fine(live, revoked, revision, command[c])
  BY DEF Inv, Typed
<1>1. ASSUME NEW c \in Commands, NEW x \in Offers, Begin(c, x) PROVE Inv'
  <2>1. PICK y : y = command'[c]
    OBVIOUS
  <2>2. y \in Asking /\ y.held = {} /\ Fine(live, revoked, revision, y)
    BY <1>0, <1>1, <2>1, BeginKeeps
  <2>3. command' = [command EXCEPT ![c] = y]
    BY <1>1, <2>1 DEF Begin, Inv, Typed
  <2>4. begun' \in 0..MaxCommands /\ UNCHANGED worldVars
    BY <1>0, <1>1, PolicyAssumption DEF Begin
  <2>5. \A d \in Commands \ {c} : Apart(y, command[d])
    BY <2>2 DEF Apart
  <2> QED BY <2>2, <2>3, <2>4, <2>5, GoesOn
<1>2. ASSUME NEW c \in Commands, Start(c) PROVE Inv'
  <2>1. PICK y : y = command'[c]
    OBVIOUS
  <2>2. y \in Asking /\ y.held = command[c].held /\ Fine(live, revoked, revision, y)
    BY <1>0, <1>2, <2>1, StartKeeps
  <2>3. command' = [command EXCEPT ![c] = y]
    BY <1>2, <2>1 DEF Start, Inv, Typed
  <2>4. begun' \in 0..MaxCommands /\ UNCHANGED worldVars
    BY <1>0, <1>2 DEF Start
  <2>5. \A d \in Commands \ {c} : Apart(y, command[d])
    BY <2>2 DEF Inv, Apart
  <2> QED BY <2>2, <2>3, <2>4, <2>5, GoesOn
<1>3. ASSUME NEW c \in Commands, Acquire(c) PROVE Inv'
  <2>1. PICK y : y = command'[c]
    OBVIOUS
  <2>2. y \in Asking /\ Fine(live, revoked, revision, y)
        /\ \A d \in Commands \ {c} : Apart(command[c], command[d]) => Apart(y, command[d])
    BY <1>0, <1>3, <2>1, AcquireKeeps
  <2>3. command' = [command EXCEPT ![c] = y]
    BY <1>3, <2>1 DEF Acquire, Inv, Typed
  <2>4. begun' \in 0..MaxCommands /\ UNCHANGED worldVars
    BY <1>0, <1>3 DEF Acquire
  <2>5. \A d \in Commands \ {c} : Apart(y, command[d])
    BY <2>2 DEF Inv
  <2> QED BY <2>2, <2>3, <2>4, <2>5, GoesOn
<1>4. ASSUME NEW c \in Commands, Finish(c) PROVE Inv'
  <2>1. PICK y : y = command'[c]
    OBVIOUS
  <2>2. y \in Asking /\ y.held = command[c].held
    BY <1>0, <1>4, <2>1, FinishForms
  <2>3. Fine(live, revoked, revision, y)
    BY <1>0, <1>4, <2>1, FinishKeepsRows, FinishKeepsRest DEF Fine
  <2>4. command' = [command EXCEPT ![c] = y]
    BY <1>4, <2>1, Zenon DEF Finish, Inv, Typed
  <2>5. begun' \in 0..MaxCommands /\ UNCHANGED worldVars
    BY <1>0, <1>4 DEF Finish
  <2>6. \A d \in Commands \ {c} : Apart(y, command[d])
    BY <2>2 DEF Inv, Apart
  <2> QED BY <2>2, <2>3, <2>4, <2>5, <2>6, GoesOn
<1>5. ASSUME NEW c \in Commands, Refuse(c) PROVE Inv'
  <2>1. Idle \in Asking /\ Idle.held = {} /\ Fine(live, revoked, revision, Idle)
    BY IdleIsFine
  <2>2. /\ command' = [command EXCEPT ![c] = Idle] /\ begun' \in 0..MaxCommands
        /\ UNCHANGED worldVars
    BY <1>0, <1>5 DEF Refuse, End
  <2>3. \A d \in Commands \ {c} : Apart(Idle, command[d])
    BY <2>1 DEF Apart
  <2> QED BY <2>1, <2>2, <2>3, GoesOn
<1>6. ASSUME NEW c \in Commands, Commit(c) PROVE Inv'
  BY <1>6, CommitKeeps
<1>7. CASE UNCHANGED vars
  <2>1. live' = live /\ revoked' = revoked /\ revision' = revision /\ command' = command
        /\ begun' = begun
    BY <1>7 DEF vars, worldVars
  <2> QED BY <2>1 DEF Inv, Typed, NothingOutlives, NoOrphans, RevokedHoldNothing
<1> QED BY <1>1, <1>2, <1>3, <1>4, <1>5, <1>6, <1>7 DEF Next

LEMMA Invariance == Spec => []Inv
BY InitInv, NextInv, PTL DEF Spec

(***************************************************************************)
(* Where each command is, and what it has locked                           *)
(***************************************************************************)
\* Command x has done the first k statements of what was offered as o.
At(x, o, k) ==
  /\ o \in Offers /\ x.name = o.name /\ x.of = o.of
  /\ k \in 0..Len(o.next) /\ Len(x.next) = Len(o.next) - k
  /\ \A i \in 1..Len(x.next) : x.next[i] = o.next[i + k]

\* It waits for what this statement locks, and holds what it or an earlier one locks.
Locked(x, o, k) ==
  /\ \A lock \in x.pending : /\ k < Len(o.next) /\ lock \notin x.held
                             /\ Wants(o, k + 1, lock.row, lock.mode)
  /\ \A lock \in x.held : \E j \in 1..(k + 1) :
       /\ j <= Len(o.next) /\ (j = k + 1 => x.started) /\ Wants(o, j, lock.row, lock.mode)

\* It has what it took, and has erased or inserted only by statements that do.
Took(l, x, o, k) ==
  /\ \A g \in 1..k, row \in Rows, m \in Firm : o.next[g] = Statement("take", {row}, m) =>
       Lock(row, m) \in x.held /\ row \in l \cup x.added
  /\ x.removed # {} => \E g \in 1..k : o.next[g].do = "delete"
  /\ x.added # {} => \E g \in 1..k : o.next[g].do \in Inserts

\* A user's erasure has its membership when it comes to erase it, and ends with the user.
Erasing(l, x, k) == x.name = "eraseUser" =>
  /\ k <= 4 => Settles(l, x, Member(x.of), 5 - k)
  /\ k = 4 => Lock(Member(x.of), "update") \notin x.pending
  /\ k = 6 => User(x.of) \in x.removed

\* An assignment that putMember has locked is there, or its user is erased.
Putting(l, x) == x.name = "putMember" =>
  /\ Lock(Assignment(x.of), "update") \in x.pending \cup x.held =>
       Assignment(x.of) \in l \/ User(x.of) \notin l
  /\ Lock(Member(x.of), "key") \in x.pending => Assignment(x.of) \notin l

\* An assignment is shared after its member.
Turns(x) == \A u \in Users :
  Lock(Assignment(u), "share") \in x.held => Lock(Member(u), "share") \notin x.pending

Placed(l, x) == x = Idle \/ \E o \in Offers : \E k \in 0..Len(o.next) :
  /\ At(x, o, k) /\ Locked(x, o, k) /\ Took(l, x, o, k)
  /\ Erasing(l, x, k) /\ Putting(l, x) /\ Turns(x)

\* A lock is a row and a mode.
LEMMA LockParts ==
  ASSUME NEW lock \in Locks
  PROVE  lock.row \in Rows /\ lock.mode \in Modes /\ lock = Lock(lock.row, lock.mode)
BY DEF Locks, Lock

\* What a statement needs, its command may lock, and an update is of a row it sees.
LEMMA NeedsAreWanted ==
  ASSUME NEW c \in Commands, command[c] \in Asking, live \subseteq Rows,
         command[c].next # <<>>, NEW st, st = command[c].next[1], NEW lock \in Needs(c)
  PROVE  /\ Locking(st, command[c].of, lock.row, lock.mode)
         /\ lock.mode = "update" => lock.row \in Visible(c)
         /\ st.do \in Inserts => ~(st.rows \subseteq Visible(c))
<1> DEFINE x == command[c]
           rows == st.rows \cap Visible(c)
           fresh == IF st.do \in Inserts THEN st.rows \ Visible(c) ELSE {}
           keys == {Lock(p, "key") : p \in UNION {Parents(row) : row \in fresh}}
           own == {Lock(row, st.mode) : row \in
                    CASE st.do \in {"take", "hold", "change", "delete"} -> rows
                      [] st.do = "audience" -> AudienceRows(x.of, Visible(c))
                      [] OTHER -> {}}
           news == {Lock(row, "insert") : row \in fresh}
           touched == {Lock(row, "nokey") : row \in
                        Touched(IF st.do = "delete" THEN rows ELSE fresh)}
<1>0. st \in Statements /\ Current(c) = st
  BY FirstStatement DEF Current
<1>1. Needs(c) = keys \cup own \cup news \cup touched
  BY <1>0 DEF Needs
<1>2. rows \subseteq Rows /\ fresh \subseteq Rows /\ Sound(st)
  BY <1>0 DEF Statements
<1>3. Inserts \cap {"take", "hold", "change", "delete", "audience"} = {}
  BY DEF Inserts
<1>4. \A row, m : Lock(row, m).row = row /\ Lock(row, m).mode = m
  BY DEF Lock
<1>5. ASSUME lock \in keys
      PROVE  Locking(st, x.of, lock.row, lock.mode) /\ lock.mode # "update"
  <2>1. PICK row \in fresh : \E p \in Parents(row) : lock = Lock(p, "key")
    BY <1>5
  <2>2. st.do \in Inserts /\ row \in st.rows
    BY <2>1
  <2> QED BY <1>4, <2>1, <2>2 DEF Locking
<1>6. ASSUME lock \in news
      PROVE  Locking(st, x.of, lock.row, lock.mode) /\ lock.mode # "update"
  <2>1. PICK row \in fresh : lock = Lock(row, "insert")
    BY <1>6
  <2>2. st.do \in Inserts /\ row \in st.rows
    BY <2>1
  <2> QED BY <1>4, <2>1, <2>2 DEF Locking
<1>7. ASSUME lock \in touched
      PROVE  Locking(st, x.of, lock.row, lock.mode) /\ lock.mode # "update"
  <2>1. PICK p \in Touched(IF st.do = "delete" THEN rows ELSE fresh) : lock = Lock(p, "nokey")
    BY <1>7
  <2>2. PICK k \in Clients : Link(k) \in (IF st.do = "delete" THEN rows ELSE fresh)
                             /\ p \in Parents(Link(k))
    <3>1. (IF st.do = "delete" THEN rows ELSE fresh) \in SUBSET Rows
      BY <1>2
    <3> QED BY <3>1, <2>1, TouchedForms
  <2>3. st.do \in Inserts \cup {"delete"} /\ Link(k) \in st.rows
    BY <2>2
  <2> QED BY <1>4, <2>1, <2>2, <2>3 DEF Locking
<1>8. ASSUME lock \in own
      PROVE  /\ Locking(st, x.of, lock.row, lock.mode)
             /\ lock.mode = "update" => lock.row \in Visible(c)
  <2>1. CASE st.do \in {"take", "hold", "change", "delete"}
    <3>1. PICK row \in rows : lock = Lock(row, st.mode)
      BY <1>8, <2>1
    <3> QED BY <1>4, <2>1, <3>1 DEF Locking
  <2>2. CASE st.do = "audience"
    <3>1. PICK row \in AudienceRows(x.of, Visible(c)) : lock = Lock(row, st.mode)
      BY <1>8, <2>2
    <3>2. st.mode = "share"
      BY <1>2, <2>2 DEF Sound
    <3>3. \E u \in Users : row = Member(u) \/ (x.of = "group" /\ row = Assignment(u))
      BY <3>1 DEF AudienceRows, Reached
    <3> QED BY <1>4, <2>2, <3>1, <3>2, <3>3 DEF Locking
  <2>3. CASE st.do \notin {"take", "hold", "change", "delete", "audience"}
    BY <1>8, <2>3
  <2> QED BY <2>1, <2>2, <2>3
<1>9. st.do \in Inserts => ~(st.rows \subseteq Visible(c))
  BY NeedForms
<1> QED BY <1>1, <1>5, <1>6, <1>7, <1>8, <1>9

\* Where a command is in what it was offered.
LEMMA AtForms ==
  ASSUME NEW x \in Asking, NEW o, NEW k, At(x, o, k)
  PROVE  /\ Planned(o) /\ PlansLocks(o) /\ x.name = o.name /\ x.of = o.of
         /\ Len(o.next) \in Nat /\ DOMAIN o.next = 1..Len(o.next) /\ k \in Nat /\ k <= Len(o.next)
         /\ x.next = <<>> <=> k = Len(o.next)
         /\ x.next # <<>> => /\ k < Len(o.next) /\ k + 1 \in DOMAIN o.next
                             /\ x.next[1] = o.next[k + 1] /\ o.next[k + 1] \in Statements
<1>1. Planned(o) /\ PlansLocks(o) /\ o.next \in Seq(Statements)
  BY OffersArePlanned DEF At, Planned
<1>2. Len(o.next) \in Nat /\ DOMAIN o.next = 1..Len(o.next) /\ k \in Nat /\ k <= Len(o.next)
  BY <1>1 DEF At
<1>3. x.next \in Seq(Statements) /\ Len(x.next) = Len(o.next) - k
  BY DEF At, Asking
<1>4. x.next = <<>> <=> k = Len(o.next)
  BY <1>2, <1>3, EmptyForms
<1>5. ASSUME x.next # <<>>
      PROVE  /\ k < Len(o.next) /\ k + 1 \in DOMAIN o.next
             /\ x.next[1] = o.next[k + 1] /\ o.next[k + 1] \in Statements
  <2>1. k < Len(o.next) /\ k + 1 \in DOMAIN o.next /\ 1 \in 1..Len(x.next)
    BY <1>2, <1>3, <1>4, <1>5
  <2>2. x.next[1] = o.next[1 + k]
    BY <2>1 DEF At
  <2>3. 1 + k = k + 1
    BY <1>2
  <2> QED BY <1>1, <2>1, <2>2, <2>3
<1> QED BY <1>1, <1>2, <1>4, <1>5 DEF At

\* A command that is begun is at the beginning.
LEMMA BegunIsPlaced ==
  ASSUME NEW o \in Offers, NEW b \in Asking, NEW l,
         b.name = o.name, b.of = o.of, b.next = o.next, b.started = FALSE,
         b.pending = {}, b.held = {}, b.added = {}, b.removed = {}
  PROVE  Placed(l, b)
<1>1. Planned(o) /\ PlansLocks(o) /\ o.next \in Seq(Statements)
  BY OffersArePlanned DEF Planned
<1>2. Len(o.next) \in Nat /\ 0 \in 0..Len(o.next)
  BY <1>1
<1>3. At(b, o, 0)
  <2>1. \A i \in 1..Len(b.next) : i + 0 = i
    OBVIOUS
  <2>2. Len(b.next) = Len(o.next) - 0
    BY <1>2
  <2> QED BY <1>2, <2>1, <2>2 DEF At
<1>4. Locked(b, o, 0) /\ Took(l, b, o, 0) /\ Putting(l, b) /\ Turns(b)
  <2>1. 1..0 = {}
    OBVIOUS
  <2> QED BY <2>1 DEF Locked, Took, Putting, Turns
<1>5. Erasing(l, b, 0)
  <2>1. ASSUME b.name = "eraseUser" PROVE Settles(l, b, Member(b.of), 5)
    <3>1. ByUser(o)
      BY <1>1, <2>1 DEF PlansLocks
    <3>2. Takes(b, 1, "take", User(b.of)) /\ Takes(b, 2, "hold", Member(b.of))
      BY <3>1 DEF ByUser, Takes
    <3>3. User(b.of) \in Parents(Member(b.of))
      BY ParentForms
    <3>4. 2 \in 1..(5 - 1) /\ 1 \in 1..(2 - 1)
      OBVIOUS
    <3> QED BY <3>2, <3>3, <3>4, Zenon DEF Settles
  <2> QED BY <2>1 DEF Erasing
<1> QED BY <1>2, <1>3, <1>4, <1>5 DEF Placed

\* So a command is placed when it is begun.
LEMMA BeginPlaces ==
  ASSUME Typed, NEW c \in Commands, NEW x \in Offers, Begin(c, x)
  PROVE  Placed(live, command'[c])
<1>0. PICK y : y = command'[c]
  OBVIOUS
<1>1. PICK expected \in Accepts(x) :
        y = [Idle EXCEPT !.name = x.name, !.of = x.of, !.next = x.next, !.expected = expected]
  BY <1>0 DEF Begin, Typed
<1>2. y \in Asking
  BY <1>0, BeginKeeps
<1>3. /\ y.name = x.name /\ y.of = x.of /\ y.next = x.next /\ y.started = FALSE
      /\ y.pending = {} /\ y.held = {} /\ y.added = {} /\ y.removed = {}
  BY <1>1 DEF Idle
<1> QED BY <1>0, <1>2, <1>3, BegunIsPlaced

\* A statement that starts.
LEMMA StartPlaces ==
  ASSUME Typed, NEW c \in Commands, Fine(live, revoked, revision, command[c]),
         Placed(live, command[c]), Start(c)
  PROVE  Placed(live, command'[c])
<1>0. PICK y : y = command'[c]
  OBVIOUS
<1>1. PICK x : x = command[c]
  OBVIOUS
<1>2. x \in Asking /\ y \in Asking /\ live \subseteq Rows
  BY <1>0, <1>1, StartKeeps DEF Typed
<1>3. x.next # <<>> /\ ~x.started /\ Needs(c) \ x.held # {}
  BY <1>1 DEF Start
<1>4. y = [x EXCEPT !.started = TRUE, !.pending = Needs(c) \ x.held]
  BY <1>0, <1>1 DEF Start, Typed
<1>5. /\ y.name = x.name /\ y.of = x.of /\ y.next = x.next /\ y.added = x.added
      /\ y.removed = x.removed /\ y.held = x.held /\ y.started = TRUE
      /\ y.pending = Needs(c) \ x.held
  BY <1>2, <1>4 DEF Asking
<1>6. x # Idle
  BY <1>3 DEF Idle
<1>7. PICK o \in Offers : \E k \in 0..Len(o.next) :
        /\ At(x, o, k) /\ Locked(x, o, k) /\ Took(live, x, o, k)
        /\ Erasing(live, x, k) /\ Putting(live, x) /\ Turns(x)
  BY <1>1, <1>6 DEF Placed
<1>8. PICK k \in 0..Len(o.next) :
        /\ At(x, o, k) /\ Locked(x, o, k) /\ Took(live, x, o, k)
        /\ Erasing(live, x, k) /\ Putting(live, x) /\ Turns(x)
  BY <1>7
<1>9. /\ Planned(o) /\ PlansLocks(o) /\ x.name = o.name /\ x.of = o.of
      /\ Len(o.next) \in Nat /\ DOMAIN o.next = 1..Len(o.next) /\ k \in Nat
      /\ k < Len(o.next) /\ k + 1 \in DOMAIN o.next
      /\ x.next[1] = o.next[k + 1] /\ o.next[k + 1] \in Statements
  BY <1>2, <1>3, <1>8, AtForms
<1>10. Visible(c) = Sees(live, x)
  BY <1>1 DEF Visible, Sees
<1>11. ASSUME NEW lock \in Needs(c)
       PROVE  /\ Wants(o, k + 1, lock.row, lock.mode)
              /\ lock.mode = "update" => lock.row \in Sees(live, x)
              /\ o.next[k + 1].do \in Inserts => ~(o.next[k + 1].rows \subseteq Sees(live, x))
  BY <1>1, <1>2, <1>3, <1>9, <1>10, NeedsAreWanted DEF Wants
<1>12. At(y, o, k)
  BY <1>5, <1>8 DEF At
<1>13. Locked(y, o, k)
  BY <1>5, <1>8, <1>9, <1>11 DEF Locked
<1>14. Took(live, y, o, k)
  BY <1>5, <1>8 DEF Took
<1>15. ASSUME NEW row, NEW m, Lock(row, m) \in Needs(c)
       PROVE  /\ Wants(o, k + 1, row, m) /\ (m = "update" => row \in Sees(live, x))
              /\ o.next[k + 1].do \in Inserts => ~(o.next[k + 1].rows \subseteq Sees(live, x))
              /\ row \in Rows /\ m \in Modes
  <2>1. Lock(row, m).row = row /\ Lock(row, m).mode = m
    BY DEF Lock
  <2>2. Lock(row, m) \in Locks
    BY <1>1, <1>2, <1>3, <1>15, NeedForms
  <2> QED BY <1>11, <1>15, <2>1, <2>2, LockParts
<1>16. Erasing(live, y, k)
  <2> SUFFICES ASSUME y.name = "eraseUser"
               PROVE  /\ k <= 4 => Settles(live, y, Member(y.of), 5 - k)
                      /\ k = 4 => Lock(Member(y.of), "update") \notin y.pending
                      /\ k = 6 => User(y.of) \in y.removed
    BY DEF Erasing
  <2>1. ByUser(o)
    BY <1>5, <1>9 DEF PlansLocks
  <2>2. /\ k <= 4 => Settles(live, x, Member(x.of), 5 - k)
        /\ k = 6 => User(y.of) \in y.removed
    BY <1>5, <1>8 DEF Erasing
  <2>3. \A p, j : Settles(live, x, p, j) => Settles(live, y, p, j)
    <3>1. \A row : Alone(x, row) <=> Alone(y, row)
      BY <1>5 DEF Alone
    <3>2. \A p : Settled(live, x, p) => Settled(live, y, p)
      BY <1>5, <3>1 DEF Settled, Sees
    <3>3. \A g, do, p : Takes(x, g, do, p) <=> Takes(y, g, do, p)
      BY <1>5 DEF Takes
    <3> QED BY <3>1, <3>2, <3>3, Zenon DEF Settles
  <2>4. ASSUME k = 4, Lock(Member(y.of), "update") \in y.pending PROVE FALSE
    <3>1. Settles(live, x, Member(x.of), 1)
      BY <2>2, <2>4
    <3>2. 1..(1 - 1) = {}
      OBVIOUS
    <3>3. Settled(live, x, Member(x.of))
      BY <3>1, <3>2 DEF Settles
    <3>4. Lock(Member(x.of), "update") \in Needs(c) /\ ~Alone(x, Member(x.of))
      BY <1>5, <2>4 DEF Alone
    <3>5. Member(x.of) \in Sees(live, x)
      BY <1>15, <3>4
    <3> QED BY <3>3, <3>4, <3>5 DEF Settled
  <2> QED BY <1>5, <2>2, <2>3, <2>4
<1>17. Putting(live, y)
  <2> SUFFICES ASSUME y.name = "putMember"
               PROVE  /\ Lock(Assignment(y.of), "update") \in y.pending \cup y.held =>
                           Assignment(y.of) \in live \/ User(y.of) \notin live
                      /\ Lock(Member(y.of), "key") \in y.pending => Assignment(y.of) \notin live
    BY DEF Putting
  <2>1. /\ Without(o, {"delete"})
        /\ \A i \in DOMAIN o.next :
             /\ o.next[i].do \in Inserts => i = Len(o.next)
             /\ Wants(o, i, Member(o.of), "key") =>
                  o.next[i].do \in Inserts /\ o.next[i].rows = {Assignment(o.of)}
    BY <1>5, <1>9 DEF PlansLocks, PlansPutting
  <2>2. x.added = {} /\ x.removed = {}
    <3>1. \A g \in 1..k : g \in DOMAIN o.next /\ g # Len(o.next)
      BY <1>9
    <3>2. \A g \in 1..k : o.next[g].do \notin Inserts /\ o.next[g].do # "delete"
      BY <2>1, <3>1 DEF Without
    <3> QED BY <1>8, <3>2 DEF Took
  <2>3. Sees(live, x) = live
    BY <2>2 DEF Sees
  <2>4. Lock(Assignment(y.of), "update") \in Needs(c) => Assignment(y.of) \in live
    BY <1>15, <2>3
  <2>5. Lock(Member(y.of), "key") \in Needs(c) => Assignment(y.of) \notin live
    BY <1>5, <1>9, <1>15, <2>1, <2>3
  <2> QED BY <1>5, <1>8, <2>4, <2>5 DEF Putting
<1>18. Turns(y)
  <2> SUFFICES ASSUME NEW u \in Users, Lock(Assignment(u), "share") \in y.held PROVE FALSE
    BY DEF Turns
  <2>1. PICK j \in 1..(k + 1) : /\ j <= Len(o.next) /\ (j = k + 1 => x.started)
                                /\ Wants(o, j, Assignment(u), "share")
    <3>1. Lock(Assignment(u), "share").row = Assignment(u)
          /\ Lock(Assignment(u), "share").mode = "share"
      BY DEF Lock
    <3> QED BY <1>5, <1>8, <3>1 DEF Locked
  <2>2. j \in DOMAIN o.next /\ j < Len(o.next)
    BY <1>3, <1>9, <2>1
  <2> QED BY <1>9, <2>1, <2>2 DEF PlansLocks, PlansShares
<1> QED BY <1>0, <1>12, <1>13, <1>14, <1>16, <1>17, <1>18 DEF Placed

\* A lock that is got.
LEMMA AcquirePlaces ==
  ASSUME Typed, NEW c \in Commands, Fine(live, revoked, revision, command[c]),
         Placed(live, command[c]), Acquire(c)
  PROVE  Placed(live, command'[c])
<1>0. PICK y : y = command'[c]
  OBVIOUS
<1>1. PICK x : x = command[c]
  OBVIOUS
<1>2. x \in Asking
  BY <1>1 DEF Typed
<1>3. PICK lock \in x.pending :
        Turn(c, lock) /\ y = [x EXCEPT !.pending = @ \ {lock}, !.held = @ \cup {lock}]
  BY <1>0, <1>1 DEF Acquire, Typed
<1>4. /\ y.name = x.name /\ y.of = x.of /\ y.next = x.next /\ y.added = x.added
      /\ y.removed = x.removed /\ y.started = x.started
      /\ y.held = x.held \cup {lock} /\ y.pending = x.pending \ {lock}
  BY <1>2, <1>3 DEF Asking
<1>5. x.started /\ x.next # <<>> /\ x # Idle
  BY <1>1, <1>3 DEF Fine, Waits, Idle
<1>6. PICK o \in Offers : \E k \in 0..Len(o.next) :
        /\ At(x, o, k) /\ Locked(x, o, k) /\ Took(live, x, o, k)
        /\ Erasing(live, x, k) /\ Putting(live, x) /\ Turns(x)
  BY <1>1, <1>5 DEF Placed
<1>7. PICK k \in 0..Len(o.next) :
        /\ At(x, o, k) /\ Locked(x, o, k) /\ Took(live, x, o, k)
        /\ Erasing(live, x, k) /\ Putting(live, x) /\ Turns(x)
  BY <1>6
<1>8. /\ PlansLocks(o) /\ k \in Nat /\ k < Len(o.next) /\ k + 1 \in DOMAIN o.next
      /\ Len(o.next) \in Nat /\ x.next[1] = o.next[k + 1]
  BY <1>2, <1>5, <1>7, AtForms
<1>9. At(y, o, k)
  BY <1>4, <1>7 DEF At
<1>10. Wants(o, k + 1, lock.row, lock.mode) /\ lock \notin x.held
  BY <1>3, <1>7 DEF Locked
<1>11. Locked(y, o, k)
  <2>1. k + 1 \in 1..(k + 1) /\ k + 1 <= Len(o.next)
    BY <1>8
  <2> QED BY <1>4, <1>5, <1>7, <1>10, <2>1 DEF Locked
<1>12. Took(live, y, o, k)
  BY <1>4, <1>7 DEF Took
<1>13. Erasing(live, y, k)
  <2>1. \A p, j : Settles(live, x, p, j) => Settles(live, y, p, j)
    <3>1. \A row : Alone(x, row) => Alone(y, row)
      BY <1>4 DEF Alone
    <3>2. \A p : Settled(live, x, p) => Settled(live, y, p)
      BY <1>4, <3>1 DEF Settled, Sees
    <3>3. \A g, do, p : Takes(x, g, do, p) <=> Takes(y, g, do, p)
      BY <1>4 DEF Takes
    <3> QED BY <3>1, <3>2, <3>3, Zenon DEF Settles
  <2> QED BY <1>4, <1>7, <2>1 DEF Erasing
<1>14. Putting(live, y)
  BY <1>4, <1>7 DEF Putting
<1>15. Turns(y)
  <2> SUFFICES ASSUME NEW u \in Users, Lock(Assignment(u), "share") \in y.held
               PROVE  Lock(Member(u), "share") \notin y.pending
    BY DEF Turns
  <2>1. CASE Lock(Assignment(u), "share") \in x.held
    BY <1>4, <1>7, <2>1 DEF Turns
  <2>2. CASE lock = Lock(Assignment(u), "share")
    <3>1. lock.row = Assignment(u) /\ lock.mode = "share"
      BY <2>2 DEF Lock
    <3>2. o.next[k + 1].do = "audience"
      BY <1>8, <1>10, <3>1 DEF PlansLocks, PlansShares
    <3>3. Current(c) = x.next[1]
      BY <1>1, <1>2, <1>5, FirstStatement DEF Current
    <3>4. lock.row[1] = "assignment" /\ lock.row[2] = u
      BY <3>1, Tags
    <3> QED BY <1>1, <1>3, <1>4, <1>8, <3>2, <3>3, <3>4 DEF Turn
  <2> QED BY <1>4, <2>1, <2>2
<1> QED BY <1>0, <1>9, <1>11, <1>12, <1>13, <1>14, <1>15 DEF Placed

\* A statement that ends.
LEMMA FinishPlaces ==
  ASSUME Typed, NEW c \in Commands, Fine(live, revoked, revision, command[c]),
         Placed(live, command[c]), Finish(c)
  PROVE  Placed(live, command'[c])
<1>0. PICK y : y = command'[c]
  OBVIOUS
<1>1. PICK x : x = command[c]
  OBVIOUS
<1>2. PICK st : st = Current(c)
  OBVIOUS
<1>3. /\ x \in Asking /\ y \in Asking /\ Ready(c) /\ ~Refused(c)
      /\ y.name = x.name /\ y.of = x.of /\ y.next = Tail(x.next)
      /\ y.pending = x.pending /\ y.held = x.held
      /\ y.added = x.added \cup Fresh(c) /\ y.removed = x.removed \cup Gone(c)
  BY <1>0, <1>1, FinishForms DEF Typed
<1>4. x.next # <<>> /\ x.pending = {} /\ st = x.next[1] /\ st \in Statements /\ x # Idle
  BY <1>1, <1>2, <1>3, ReadyForms DEF Idle
<1>5. PICK o \in Offers : \E k \in 0..Len(o.next) :
        /\ At(x, o, k) /\ Locked(x, o, k) /\ Took(live, x, o, k)
        /\ Erasing(live, x, k) /\ Putting(live, x) /\ Turns(x)
  BY <1>1, <1>4 DEF Placed
<1>6. PICK k \in 0..Len(o.next) :
        /\ At(x, o, k) /\ Locked(x, o, k) /\ Took(live, x, o, k)
        /\ Erasing(live, x, k) /\ Putting(live, x) /\ Turns(x)
  BY <1>5
<1>7. /\ PlansLocks(o) /\ k \in Nat /\ k < Len(o.next) /\ k + 1 \in DOMAIN o.next
      /\ Len(o.next) \in Nat /\ st = o.next[k + 1] /\ x.name = o.name /\ x.of = o.of
      /\ DOMAIN o.next = 1..Len(o.next)
  BY <1>3, <1>4, <1>6, AtForms
<1>8. k + 1 \in 0..Len(o.next)
  BY <1>7
<1>9. At(y, o, k + 1)
  <2>1. Len(x.next) = Len(o.next) - k /\ \A i \in 1..Len(x.next) : x.next[i] = o.next[i + k]
    BY <1>6 DEF At
  <2>2. /\ Len(y.next) = Len(x.next) - 1
        /\ \A i \in 1..(Len(x.next) - 1) : y.next[i] = x.next[i + 1]
    BY <1>3, <1>4, FirstStatement
  <2>3. Len(y.next) = Len(o.next) - (k + 1)
    BY <1>7, <2>1, <2>2
  <2>4. ASSUME NEW i \in 1..Len(y.next) PROVE y.next[i] = o.next[i + (k + 1)]
    <3>1. i \in 1..(Len(x.next) - 1) /\ i + 1 \in 1..Len(x.next) /\ (i + 1) + k = i + (k + 1)
      BY <1>7, <2>1, <2>2
    <3> QED BY <2>1, <2>2, <3>1
  <2> QED BY <1>3, <1>6, <1>8, <2>3, <2>4 DEF At
<1>10. Locked(y, o, k + 1)
  <2>1. \A j \in 1..(k + 1) : j \in 1..((k + 1) + 1) /\ j # (k + 1) + 1
    BY <1>7
  <2> QED BY <1>3, <1>4, <1>6, <2>1 DEF Locked
<1>11. Took(live, y, o, k + 1)
  <2>1. k + 1 \in 1..(k + 1) /\ \A g \in 1..(k + 1) : g \in 1..k \/ g = k + 1
    BY <1>7
  <2>2. ASSUME NEW row, NEW m \in Firm, st = Statement("take", {row}, m)
        PROVE  Lock(row, m) \in x.held /\ row \in live \cup x.added
    <3>1. st.do = "take" /\ st.rows = {row} /\ st.mode = m
      BY <2>2 DEF Statement
    <3>2. row \in Visible(c)
      BY <1>2, <1>3, <3>1 DEF Refused
    <3> QED BY <1>1, <1>2, <1>3, <3>1, <3>2, ReadyForms DEF Visible
  <2>3. ASSUME NEW g \in 1..(k + 1), NEW row \in Rows, NEW m \in Firm,
               o.next[g] = Statement("take", {row}, m)
        PROVE  Lock(row, m) \in y.held /\ row \in live \cup y.added
    <3>1. Lock(row, m) \in x.held /\ row \in live \cup x.added
      BY <1>6, <1>7, <2>1, <2>2, <2>3 DEF Took
    <3> QED BY <1>3, <3>1
  <2>4. y.removed # {} => \E g \in 1..(k + 1) : o.next[g].do = "delete"
    <3>1. Gone(c) # {} => st.do = "delete"
      BY <1>2 DEF Gone
    <3> QED BY <1>3, <1>6, <1>7, <2>1, <3>1 DEF Took
  <2>5. y.added # {} => \E g \in 1..(k + 1) : o.next[g].do \in Inserts
    <3>1. Fresh(c) # {} => st.do \in Inserts
      BY <1>2 DEF Fresh
    <3> QED BY <1>3, <1>6, <1>7, <2>1, <3>1 DEF Took
  <2> QED BY <2>3, <2>4, <2>5 DEF Took
<1>12. Erasing(live, y, k + 1)
  <2> SUFFICES ASSUME y.name = "eraseUser"
               PROVE  /\ k + 1 <= 4 => Settles(live, y, Member(y.of), 5 - (k + 1))
                      /\ k + 1 = 4 => Lock(Member(y.of), "update") \notin y.pending
                      /\ k + 1 = 6 => User(y.of) \in y.removed
    BY DEF Erasing
  <2>1. ByUser(o)
    BY <1>3, <1>7 DEF PlansLocks
  <2>2. ASSUME k + 1 <= 4 PROVE Settles(live, y, Member(y.of), 5 - (k + 1))
    <3>1. Settles(live, x, Member(x.of), 5 - k)
      BY <1>3, <1>6, <1>7, <2>2 DEF Erasing
    <3>2. Len(o.next) = 6 /\ Without(o, Inserts)
      BY <2>1 DEF ByUser
    <3>3. Len(x.next) = 6 - k
      BY <1>6, <3>2 DEF At
    <3>4. 5 - k \in 2..(Len(x.next) + 1) /\ (5 - k) - 1 = 5 - (k + 1)
      BY <1>7, <2>2, <3>3
    <3>5. Current(c).do \notin Inserts
      BY <1>2, <1>7, <3>2 DEF Without
    <3>6. \A p : \A j \in 2..(Len(x.next) + 1) :
            Settles(live, x, p, j) => Settles(live, y, p, j - 1)
      BY <1>0, <1>1, <3>5, FinishAdvances
    <3> QED BY <1>3, <3>1, <3>4, <3>6
  <2>3. ASSUME k + 1 = 6 PROVE User(y.of) \in y.removed
    <3>1. /\ o.of \in Users /\ Takes(o, 1, "take", User(o.of)) /\ st.do = "delete"
          /\ st.rows = {User(o.of)}
      BY <1>7, <2>1, <2>3 DEF ByUser
    <3>2. 1 \in 1..k /\ "update" \in Firm /\ User(o.of) \in Rows
      BY <1>7, <2>3, <3>1, RowForms DEF Firm
    <3>3. Lock(User(o.of), "update") \in x.held /\ User(o.of) \in live \cup x.added
      BY <1>6, <3>1, <3>2 DEF Took, Takes
    <3>4. st.mode = "update"
      BY <1>4, <3>1 DEF Statements, Sound
    <3>5. User(o.of) \in x.removed \/ User(o.of) \in Gone(c)
      BY <1>1, <1>2, <3>1, <3>3, <3>4 DEF Gone, Worked, Holds, Visible
    <3> QED BY <1>3, <1>7, <3>5
  <2> QED BY <1>3, <1>4, <2>2, <2>3
<1>13. Putting(live, y)
  BY <1>3, <1>6 DEF Putting
<1>14. Turns(y)
  BY <1>3, <1>4 DEF Turns
<1> QED BY <1>0, <1>8, <1>9, <1>10, <1>11, <1>12, <1>13, <1>14 DEF Placed

\* What a command waits for or holds, one of its statements wants.
LEMMA LocksAreWanted ==
  ASSUME NEW x \in Asking, NEW o, NEW k, At(x, o, k), Locked(x, o, k),
         NEW lock, lock \in x.pending \cup x.held
  PROVE  /\ lock.row \in Rows /\ lock.mode \in Modes /\ lock = Lock(lock.row, lock.mode)
         /\ \E j \in DOMAIN o.next : j <= k + 1 /\ Wants(o, j, lock.row, lock.mode)
<1>1. /\ Len(o.next) \in Nat /\ DOMAIN o.next = 1..Len(o.next) /\ k \in Nat
  BY AtForms
<1>2. lock \in Locks
  BY DEF Asking
<1>3. CASE lock \in x.pending
  <2>1. k < Len(o.next) /\ Wants(o, k + 1, lock.row, lock.mode)
    BY <1>3 DEF Locked
  <2>2. k + 1 \in DOMAIN o.next /\ k + 1 <= k + 1
    BY <1>1, <2>1
  <2> QED BY <1>2, <2>1, <2>2, LockParts
<1>4. CASE lock \in x.held
  <2>1. PICK j \in 1..(k + 1) : j <= Len(o.next) /\ Wants(o, j, lock.row, lock.mode)
    BY <1>4 DEF Locked
  <2>2. j \in DOMAIN o.next /\ j <= k + 1
    BY <1>1, <2>1
  <2> QED BY <1>2, <2>1, <2>2, LockParts
<1> QED BY <1>3, <1>4

\* A command that has come further than its first statement has what that took.
LEMMA FirstIsTaken ==
  ASSUME NEW x \in Asking, NEW o, NEW k, At(x, o, k), Locked(x, o, k), NEW l, Took(l, x, o, k),
         NEW root \in Rows, Takes(o, 1, "take", root)
  PROVE  /\ k # 0 => Alone(x, root) /\ root \in l \cup x.added
         /\ \A lock \in x.pending \cup x.held : lock.row # root \/ lock.mode # "update" => k # 0
<1>1. /\ Len(o.next) \in Nat /\ DOMAIN o.next = 1..Len(o.next) /\ k \in Nat
  BY AtForms
<1>2. ASSUME k # 0 PROVE Alone(x, root) /\ root \in l \cup x.added
  <2>1. 1 \in 1..k /\ "update" \in Firm
    BY <1>1, <1>2 DEF Firm
  <2> QED BY <2>1 DEF Took, Takes, Alone
<1>3. ASSUME k = 0, NEW lock \in x.pending \cup x.held PROVE lock.row = root /\ lock.mode = "update"
  <2>1. PICK j \in DOMAIN o.next : j <= k + 1 /\ Wants(o, j, lock.row, lock.mode)
    BY LocksAreWanted
  <2>2. j = 1
    BY <1>1, <1>3, <2>1
  <2>3. o.next[1].do = "take" /\ o.next[1].rows = {root} /\ o.next[1].mode = "update"
    BY DEF Takes, Statement
  <2> QED BY <2>1, <2>2, <2>3 DEF Wants, Locking, Inserts
<1> QED BY <1>2, <1>3

\* Who locks an assignment, and who inserts.
LEMMA WhoWants ==
  ASSUME NEW o, PlansLocks(o), NEW i \in DOMAIN o.next, NEW row \in Rows, NEW m \in Modes,
         Wants(o, i, row, m)
  PROVE  /\ row[1] = "assignment" =>
              ByTenant(o) \/ (ByUser(o) /\ row = Assignment(o.of) /\ m = "update")
         /\ m = "insert" => row[1] # "user"
<1>1. CASE ByUser(o)
  <2>1. /\ m = "update"
        /\ row \in {User(o.of), Member(o.of), Entitlement(o.of), Assignment(o.of)}
    BY <1>1 DEF ByUser
  <2> QED BY <1>1, <2>1, Tags
<1>2. CASE ByTenant(o)
  BY <1>2 DEF ByTenant
<1>3. CASE BySignIn(o)
  <2>1. i = 1
    <3>1. Len(o.next) = 1 /\ i \in DOMAIN o.next
      BY <1>3 DEF BySignIn
    <3>2. o.next # <<>> => DOMAIN o.next = 1..Len(o.next)
      OBVIOUS
    <3> QED BY <3>1
  <2>2. \/ row \in {organization, User(o.of)} /\ m = "key"
        \/ row = Member(o.of) /\ m = "insert"
    BY <1>3, <2>1 DEF BySignIn
  <2> QED BY <2>2, Tags
<1>4. CASE ByClient(o)
  <2>1. row \in {Client(o.of), Link(o.of), resource} /\ (m = "insert" => row = Link(o.of))
    BY <1>4 DEF ByClient
  <2> QED BY <2>1, Tags
<1>5. CASE ByResource(o)
  BY <1>5, Tags DEF ByResource
<1> QED BY <1>1, <1>2, <1>3, <1>4, <1>5 DEF PlansLocks

\* What a command z commits leaves a command x that puts a member in the group what it relies on.
LEMMA PuttingStays ==
  ASSUME NEW l, NEW x \in Asking, NEW z \in Asking, Apart(x, z), Rests(l, z), Writes(l, z),
         \A row \in z.removed : Alone(z, row), z.next = <<>>,
         NEW o, NEW k, At(x, o, k), Locked(x, o, k), Took(l, x, o, k), Putting(l, x),
         NEW p, NEW n, At(z, p, n), Locked(z, p, n), Took(l, z, p, n), Erasing(l, z, n)
  PROVE  Putting(Sees(l, z), x)
<1> SUFFICES ASSUME x.name = "putMember" PROVE Putting(Sees(l, z), x)
  BY DEF Putting
<1> DEFINE u == x.of
           taken == Lock(Assignment(u), "update") \in x.pending \cup x.held
           referred == Lock(Member(u), "key") \in x.pending
<1>1. /\ PlansLocks(o) /\ PlansPutting(o) /\ x.name = o.name /\ u = o.of
      /\ u \in Users /\ Takes(o, 1, "take", organization)
  BY AtForms DEF PlansLocks, PlansPutting
<1>2. PlansLocks(p) /\ z.name = p.name /\ z.of = p.of /\ n = Len(p.next) /\ n \in Nat
  BY AtForms
<1>3. organization \in Rows /\ Assignment(u) \in Rows
  BY <1>1, RowForms
<1>4. \A row, m : Lock(row, m).row = row /\ Lock(row, m).mode = m
  BY DEF Lock
<1>5. ASSUME taken \/ referred PROVE Alone(x, organization)
  <2>1. Assignment(u) # organization /\ Member(u) # organization
    BY Tags, Zenon
  <2>2. PICK lock \in x.pending \cup x.held : lock.row # organization
    BY <1>4, <1>5, <2>1
  <2> QED BY <1>1, <1>3, <2>2, FirstIsTaken
<1>6. ASSUME Alone(x, organization), ByTenant(p) PROVE FALSE
  <2>1. n # 0
    <3>1. p.next # <<>>
      BY AtForms DEF Planned
    <3> QED BY <1>2, <3>1, AtForms, EmptyForms DEF Planned
  <2>2. Alone(z, organization)
    BY <1>3, <1>6, <2>1, FirstIsTaken DEF ByTenant
  <2>3. "update" \in Firm
    BY DEF Firm
  <2> QED BY <1>6, <2>2, <2>3, AloneExcludes DEF Alone
<1>7. ASSUME NEW m, Lock(Assignment(u), m) \in z.held, Alone(x, organization)
      PROVE  ByUser(p) /\ p.of = u /\ m = "update"
  <2>1. PICK lock \in z.held : lock = Lock(Assignment(u), m)
    BY <1>7
  <2>2. /\ lock.row = Assignment(u) /\ lock.mode = m /\ lock.mode \in Modes
        /\ \E j \in DOMAIN p.next : Wants(p, j, lock.row, lock.mode)
    BY <1>4, <2>1, LocksAreWanted
  <2>3. lock.row[1] = "assignment" /\ lock.row[2] = u
    BY <2>2, Tags
  <2>4. ByUser(p) /\ lock.row = Assignment(p.of) /\ m = "update"
    BY <1>2, <1>3, <1>6, <1>7, <2>2, <2>3, WhoWants
  <2> QED BY <2>3, <2>4, Tags
<1>8. ASSUME taken PROVE Assignment(u) \in Sees(l, z) \/ User(u) \notin Sees(l, z)
  <2>1. CASE Assignment(u) \in l
    <3> SUFFICES ASSUME Assignment(u) \in z.removed PROVE User(u) \in z.removed
      BY <2>1 DEF Sees
    <3>1. Lock(Assignment(u), "update") \in z.held
      BY DEF Alone
    <3>2. ByUser(p) /\ p.of = u
      BY <1>5, <1>7, <1>8, <3>1
    <3>3. z.name = "eraseUser" /\ n = 6 /\ z.of = u
      BY <1>2, <3>2 DEF ByUser
    <3> QED BY <3>3 DEF Erasing
  <2>2. CASE User(u) \notin l
    <3> SUFFICES ASSUME User(u) \in z.added PROVE FALSE
      BY <2>2 DEF Sees
    <3>1. PICK lock \in z.held : lock = Lock(User(u), "insert")
      BY DEF Writes
    <3>2. /\ lock.row = User(u) /\ lock.mode = "insert" /\ lock.row \in Rows /\ lock.mode \in Modes
          /\ \E j \in DOMAIN p.next : Wants(p, j, lock.row, lock.mode)
      BY <1>4, <3>1, LocksAreWanted
    <3>3. lock.row[1] = "user"
      BY <3>2, Tags
    <3> QED BY <1>2, <3>2, <3>3, WhoWants
  <2> QED BY <1>1, <1>8, <2>1, <2>2 DEF Putting
<1>9. ASSUME referred PROVE Assignment(u) \notin Sees(l, z)
  <2> SUFFICES ASSUME Assignment(u) \in z.added PROVE FALSE
    BY <1>1, <1>9 DEF Putting, Sees
  <2>1. Lock(Assignment(u), "insert") \in z.held
    BY DEF Writes
  <2> QED BY <1>5, <1>7, <1>9, <2>1
<1> QED BY <1>8, <1>9 DEF Putting

\* So what z commits leaves x where it was.
LEMMA CommitOfAnotherPlaces ==
  ASSUME NEW l, NEW rv, NEW rev, NEW x \in Asking, NEW z \in Asking, Apart(x, z),
         Fine(l, rv, rev, x), Fine(l, rv, rev, z), z.next = <<>>, z # Idle,
         Placed(l, x), Placed(l, z)
  PROVE  Placed(Sees(l, z), x)
<1> SUFFICES ASSUME x # Idle PROVE Placed(Sees(l, z), x)
  BY DEF Placed
<1>1. PICK o \in Offers : \E k \in 0..Len(o.next) :
        At(x, o, k) /\ Locked(x, o, k) /\ Took(l, x, o, k) /\ Erasing(l, x, k) /\ Putting(l, x)
        /\ Turns(x)
  BY DEF Placed
<1>2. PICK k \in 0..Len(o.next) :
        At(x, o, k) /\ Locked(x, o, k) /\ Took(l, x, o, k) /\ Erasing(l, x, k) /\ Putting(l, x)
        /\ Turns(x)
  BY <1>1
<1>3. PICK p \in Offers : \E n \in 0..Len(p.next) :
        At(z, p, n) /\ Locked(z, p, n) /\ Took(l, z, p, n) /\ Erasing(l, z, n)
  BY DEF Placed
<1>4. PICK n \in 0..Len(p.next) :
        At(z, p, n) /\ Locked(z, p, n) /\ Took(l, z, p, n) /\ Erasing(l, z, n)
  BY <1>3
<1>5. /\ Rests(l, z) /\ Writes(l, z) /\ \A row \in z.removed : Alone(z, row)
      /\ \A row \in x.removed : Alone(x, row)
  BY DEF Fine, Erases
<1>6. Took(Sees(l, z), x, o, k)
  <2>1. ASSUME NEW g \in 1..k, NEW row \in Rows, NEW m \in Firm,
               o.next[g] = Statement("take", {row}, m)
        PROVE  Lock(row, m) \in x.held /\ row \in Sees(l, z) \cup x.added
    <3>1. Lock(row, m) \in x.held /\ row \in l \cup x.added
      BY <1>2, <2>1 DEF Took
    <3>2. Apart(z, x)
      BY ApartBothWays
    <3>3. row \notin z.removed
      BY <1>5, <2>1, <3>1, <3>2, AloneExcludes
    <3> QED BY <3>1, <3>3 DEF Sees
  <2> QED BY <1>2, <2>1 DEF Took
<1>7. Erasing(Sees(l, z), x, k)
  <2>1. /\ \A q : Settled(l, x, q) => Settled(Sees(l, z), x, q)
        /\ \A row : Cut(l, x, row) => Cut(Sees(l, z), x, row)
    BY <1>5, SettledStays
  <2>2. \A q, j : Settles(l, x, q, j) => Settles(Sees(l, z), x, q, j)
    BY <2>1, PromisedStays
  <2> QED BY <1>2, <2>2 DEF Erasing
<1>8. Putting(Sees(l, z), x)
  BY <1>2, <1>4, <1>5, PuttingStays
<1> QED BY <1>2, <1>6, <1>7, <1>8 DEF Placed

\* Where every command is.
InPlace == \A c \in Commands : Placed(live, command[c])

\* No command is anywhere at first, and every step leaves each where it should be.
LEMMA InitPlaces == Init => InPlace
BY DEF Init, InPlace, Placed

LEMMA NextPlaces == Inv /\ InPlace /\ [Next]_vars => InPlace'
<1> SUFFICES ASSUME Inv, InPlace, [Next]_vars PROVE InPlace'
  OBVIOUS
<1>0. /\ Typed /\ \A c \in Commands : command[c] \in Asking
      /\ \A c \in Commands : Fine(live, revoked, revision, command[c])
      /\ \A c \in Commands : Placed(live, command[c])
  BY DEF Inv, Typed, InPlace
<1>1. ASSUME live' = live, NEW c \in Commands, Placed(live, command'[c]),
             \A d \in Commands \ {c} : command'[d] = command[d]
      PROVE  InPlace'
  <2>1. ASSUME NEW d \in Commands PROVE Placed(live, command'[d])
    <3>1. CASE d = c
      BY <1>1, <3>1
    <3>2. CASE d # c
      <4>1. command'[d] = command[d]
        BY <1>1, <3>2
      <4> QED BY <1>0, <4>1
    <3> QED BY <3>1, <3>2
  <2>2. \A d \in Commands : Placed(live', command'[d])
    BY <1>1, <2>1
  <2> QED BY <2>2 DEF InPlace
<1>2. ASSUME NEW c \in Commands, NEW x \in Offers, Begin(c, x) PROVE InPlace'
  <2>1. Placed(live, command'[c])
    BY <1>0, <1>2, BeginPlaces
  <2> QED BY <1>0, <1>1, <1>2, <2>1 DEF Begin, Typed, worldVars
<1>3. ASSUME NEW c \in Commands, Start(c) PROVE InPlace'
  <2>1. Placed(live, command'[c])
    BY <1>0, <1>3, StartPlaces
  <2> QED BY <1>0, <1>1, <1>3, <2>1 DEF Start, Typed, worldVars
<1>4. ASSUME NEW c \in Commands, Acquire(c) PROVE InPlace'
  <2>1. Placed(live, command'[c])
    BY <1>0, <1>4, AcquirePlaces
  <2> QED BY <1>0, <1>1, <1>4, <2>1 DEF Acquire, Typed, worldVars
<1>5. ASSUME NEW c \in Commands, Finish(c) PROVE InPlace'
  <2>1. Placed(live, command'[c])
    BY <1>0, <1>5, FinishPlaces
  <2>2. live' = live /\ \A d \in Commands \ {c} : command'[d] = command[d]
    BY <1>0, <1>5, Zenon DEF Finish, Typed, worldVars
  <2> QED BY <1>1, <2>1, <2>2
<1>6. ASSUME NEW c \in Commands, Refuse(c) PROVE InPlace'
  <2>1. command'[c] = Idle
    BY <1>0, <1>6 DEF Refuse, End, Typed
  <2>2. Placed(live, command'[c])
    BY <2>1 DEF Placed
  <2> QED BY <1>0, <1>1, <1>6, <2>2 DEF Refuse, End, Typed, worldVars
<1>7. ASSUME NEW c \in Commands, Commit(c) PROVE InPlace'
  <2>0. PICK z : z = command[c]
    OBVIOUS
  <2>1. /\ z \in Asking /\ z.next = <<>> /\ z # Idle /\ live' = Sees(live, z)
        /\ command' = [command EXCEPT ![c] = Idle]
    BY <1>7, <2>0, CommitForms DEF Commit
  <2>2. command'[c] = Idle /\ \A d \in Commands \ {c} : command'[d] = command[d]
    BY <1>0, <2>1 DEF Typed
  <2>3. ASSUME NEW d \in Commands PROVE Placed(Sees(live, z), command'[d])
    <3>1. CASE d = c
      BY <2>2, <3>1 DEF Placed
    <3>2. CASE d # c
      <4>1. Apart(command[d], z)
        BY <2>0, <3>2 DEF Inv
      <4>2. Placed(Sees(live, z), command[d])
        BY <1>0, <2>0, <2>1, <4>1, CommitOfAnotherPlaces
      <4> QED BY <2>2, <3>2, <4>2
    <3> QED BY <3>1, <3>2
  <2> QED BY <2>1, <2>3 DEF InPlace
<1>8. CASE UNCHANGED vars
  BY <1>8 DEF vars, worldVars, InPlace
<1> QED BY <1>2, <1>3, <1>4, <1>5, <1>6, <1>7, <1>8 DEF Next

LEMMA AlwaysInPlace == Spec => []InPlace
BY Invariance, InitPlaces, NextPlaces, PTL DEF Spec

(***************************************************************************)
(* Commands that wait for each other                                       *)
(***************************************************************************)
\* A command that waits, and that others may wait for, k statements into what was offered as o.
Stuck(c, o, k) ==
  LET x == command[c] IN
  /\ o \in Offers /\ k \in 0..Len(o.next) /\ At(x, o, k) /\ Locked(x, o, k) /\ Took(live, x, o, k)
  /\ Erasing(live, x, k) /\ Putting(live, x) /\ Turns(x) /\ x.pending # {} /\ x.held # {}

\* What c waits for, and d holds, keeps c waiting for d.
Between(c, d, lock, held) ==
  c # d /\ lock \in command[c].pending /\ held \in command[d].held /\ Excludes(held, lock)

\* Each command of a smallest circle waits for one of it, and one of it waits for the command.
LEMMA CircleForms ==
  ASSUME NEW cs \in SUBSET Commands, Circle(cs), NEW c \in cs
  PROVE  /\ \E d \in cs : d \in WaitsFor(c) /\ \E lock, held : Between(c, d, lock, held)
         /\ \E b \in cs : c \in WaitsFor(b) /\ \E lock, held : Between(b, c, lock, held)
<1>1. ASSUME NEW a \in cs, NEW d \in WaitsFor(a) PROVE \E lock, held : Between(a, d, lock, held)
  <2>1. PICK lock \in command[a].pending : d \in Blockers(a, lock)
    BY <1>1 DEF WaitsFor
  <2>2. d # a /\ \E held \in command[d].held : Excludes(held, lock)
    BY <2>1 DEF Blockers
  <2> QED BY <2>1, <2>2 DEF Between
<1>2. PICK d \in cs : d \in WaitsFor(c)
  BY DEF Circle, Deadlocked
<1>3. \E b \in cs : c \in WaitsFor(b)
  <2> SUFFICES ASSUME \A b \in cs : c \notin WaitsFor(b) PROVE FALSE
    OBVIOUS
  <2>1. d # c
    BY <1>1, <1>2 DEF Between
  <2>2. cs \ {c} # {} /\ cs \ {c} \in SUBSET cs /\ cs \ {c} # cs
    BY <2>1
  <2>3. \A b \in cs \ {c} : WaitsFor(b) \cap (cs \ {c}) # {}
    BY DEF Circle, Deadlocked
  <2> QED BY <2>2, <2>3 DEF Circle, Deadlocked
<1> QED BY <1>1, <1>2, <1>3

\* So each of them is stuck.
LEMMA CircleIsStuck ==
  ASSUME Inv, InPlace, NEW cs \in SUBSET Commands, Circle(cs), NEW c \in cs
  PROVE  \E o \in Offers : \E k \in Nat : Stuck(c, o, k)
<1>0. PICK x : x = command[c]
  OBVIOUS
<1>1. x.pending # {} /\ x.held # {}
  BY <1>0, CircleForms DEF Between
<1>2. x # Idle
  BY <1>1 DEF Idle
<1>3. Placed(live, x)
  BY <1>0 DEF InPlace
<1>4. PICK o \in Offers : \E k \in 0..Len(o.next) :
        At(x, o, k) /\ Locked(x, o, k) /\ Took(live, x, o, k) /\ Erasing(live, x, k)
        /\ Putting(live, x) /\ Turns(x)
  BY <1>2, <1>3 DEF Placed
<1>5. PICK k \in 0..Len(o.next) :
        At(x, o, k) /\ Locked(x, o, k) /\ Took(live, x, o, k) /\ Erasing(live, x, k)
        /\ Putting(live, x) /\ Turns(x)
  BY <1>4
<1>6. Stuck(c, o, k)
  BY <1>0, <1>1, <1>4, <1>5 DEF Stuck
<1> QED BY <1>4, <1>5, <1>6

\* What a stuck command waits for, holds and has taken.
LEMMA StuckForms ==
  ASSUME Inv, NEW c \in Commands, NEW o, NEW k, Stuck(c, o, k), NEW x, x = command[c]
  PROVE  /\ PlansLocks(o) /\ x.name = o.name /\ x.of = o.of /\ k \in Nat /\ k + 1 \in DOMAIN o.next
         /\ Len(o.next) \in Nat /\ DOMAIN o.next = 1..Len(o.next)
         /\ \A lock \in x.pending : lock \notin x.held /\ Wants(o, k + 1, lock.row, lock.mode)
         /\ \A lock \in x.held :
              \E j \in DOMAIN o.next : j <= k + 1 /\ Wants(o, j, lock.row, lock.mode)
         /\ \A lock \in x.pending \cup x.held :
              lock.row \in Rows /\ lock.mode \in Modes /\ lock = Lock(lock.row, lock.mode)
         /\ \A root \in Rows : Takes(o, 1, "take", root) =>
              Alone(x, root) /\ root \in live \cup x.added
<1>1. x \in Asking /\ At(x, o, k) /\ Locked(x, o, k) /\ Took(live, x, o, k)
  BY DEF Inv, Typed, Stuck
<1>2. PICK first \in x.pending : first \notin x.held /\ k < Len(o.next)
                               /\ Wants(o, k + 1, first.row, first.mode)
  BY <1>1 DEF Stuck, Locked
<1>3. /\ PlansLocks(o) /\ x.name = o.name /\ x.of = o.of /\ k \in Nat
      /\ Len(o.next) \in Nat /\ DOMAIN o.next = 1..Len(o.next)
  BY <1>1, AtForms
<1>4. k + 1 \in DOMAIN o.next
  BY <1>2, <1>3
<1>5. \A lock \in x.pending \cup x.held :
        /\ lock.row \in Rows /\ lock.mode \in Modes /\ lock = Lock(lock.row, lock.mode)
        /\ \E j \in DOMAIN o.next : j <= k + 1 /\ Wants(o, j, lock.row, lock.mode)
  BY <1>1, LocksAreWanted
<1>6. ASSUME NEW root \in Rows, Takes(o, 1, "take", root)
      PROVE  Alone(x, root) /\ root \in live \cup x.added
  <2>1. PICK last \in x.held : TRUE
    BY DEF Stuck
  <2>2. first.row # root \/ first.mode # "update" \/ last.row # root \/ last.mode # "update"
    BY <1>2, <1>5, <2>1
  <2>3. k # 0
    BY <1>1, <1>2, <1>6, <2>1, <2>2, FirstIsTaken
  <2> QED BY <1>1, <1>6, <2>3, FirstIsTaken
<1> QED BY <1>1, <1>3, <1>4, <1>5, <1>6 DEF Locked

\* Locks that exclude each other are of one row, and in modes of one kind.
LEMMA ExcludesForms ==
  ASSUME NEW held, NEW lock, held.mode \in Modes, lock.mode \in Modes, Excludes(held, lock)
  PROVE  /\ held.row = lock.row
         /\ \/ held.mode = "insert" /\ lock.mode = "insert"
            \/ held.mode \in Firm /\ lock.mode \in Firm
         /\ lock.mode = "key" => held.mode = "update"
<1>1. PICK m \in Modes : m = held.mode
  OBVIOUS
<1>2. PICK n \in Modes : n = lock.mode
  OBVIOUS
<1>3. held.row = lock.row
      /\ {m, n} \in {{"update"}, {"update", "nokey"}, {"update", "share"}, {"update", "key"},
                     {"nokey"}, {"nokey", "share"}, {"insert"}}
  BY <1>1, <1>2 DEF Excludes
<1>4. (m = "insert" \/ n = "insert") => m = "insert" /\ n = "insert"
  BY <1>3
<1>5. n = "key" => m = "update"
  BY <1>3
<1>6. \A a \in Modes : a # "insert" => a \in Firm
  BY DEF Modes, Firm
<1> QED BY <1>1, <1>2, <1>3, <1>4, <1>5, <1>6

\* What a command has to itself, no other command has locked.
LEMMA OneAlone ==
  ASSUME Inv, NEW c \in Commands, NEW d \in Commands, c # d, NEW row, Alone(command[c], row)
  PROVE  \A m \in Firm : Lock(row, m) \notin command[d].held
<1>1. Apart(command[c], command[d])
  BY DEF Inv
<1> QED BY <1>1, AloneExcludes

\* What keeps one command waiting for another.
LEMMA BetweenForms ==
  ASSUME Inv, NEW c \in Commands, NEW d \in Commands, NEW lock, NEW held,
         Between(c, d, lock, held)
  PROVE  /\ held.row = lock.row /\ held = Lock(lock.row, held.mode)
         /\ \/ held.mode = "insert" /\ lock.mode = "insert"
            \/ held.mode \in Firm /\ lock.mode \in Firm /\ ~Alone(command[c], lock.row)
         /\ lock.mode = "key" => Alone(command[d], lock.row)
<1>1. lock \in Locks /\ held \in Locks
  BY DEF Between, Inv, Typed, Asking
<1>2. /\ lock.mode \in Modes /\ held.mode \in Modes /\ held = Lock(held.row, held.mode)
  BY <1>1, LockParts
<1>3. /\ held.row = lock.row
      /\ \/ held.mode = "insert" /\ lock.mode = "insert"
         \/ held.mode \in Firm /\ lock.mode \in Firm
      /\ lock.mode = "key" => held.mode = "update"
  BY <1>2, ExcludesForms DEF Between
<1>4. ASSUME held.mode \in Firm PROVE ~Alone(command[c], lock.row)
  <2>1. Lock(lock.row, held.mode) \in command[d].held /\ c # d
    BY <1>2, <1>3 DEF Between
  <2> QED BY <1>4, <2>1, OneAlone
<1> QED BY <1>2, <1>3, <1>4 DEF Between, Alone

\* Who waits for a sign-in is another sign-in of the same user, at the insert.
LEMMA WaitsForSignIn ==
  ASSUME Inv, NEW b \in Commands, NEW p, NEW n, Stuck(b, p, n),
         NEW c \in Commands, NEW o, NEW k, Stuck(c, o, k), BySignIn(o),
         NEW lock, NEW held, Between(b, c, lock, held)
  PROVE  BySignIn(p) /\ held = Lock(Member(o.of), "insert") /\ lock = held
<1>1. /\ lock \in command[b].pending /\ held \in command[c].held
      /\ held.row = lock.row /\ held = Lock(lock.row, held.mode)
      /\ \/ held.mode = "insert" /\ lock.mode = "insert"
         \/ held.mode \in Firm /\ lock.mode \in Firm /\ ~Alone(command[b], lock.row)
      /\ held.row \in Rows /\ lock.mode \in Modes /\ held.mode \in Modes
      /\ lock = Lock(lock.row, lock.mode)
  BY BetweenForms, StuckForms DEF Between
<1>2. held.mode = "key" => lock.mode = "update"
  <2>1. Excludes(held, lock)
    BY DEF Between
  <2>2. held.mode = "key" => "key" \in {held.mode, lock.mode}
    OBVIOUS
  <2> QED BY <1>1, <2>1, <2>2 DEF Excludes, Modes
<1>3. PICK j \in DOMAIN o.next : Wants(o, j, held.row, held.mode)
  BY <1>1, StuckForms
<1>4. j = 1
  BY <1>3, StuckForms DEF BySignIn
<1>5. \/ held.mode = "key" /\ held.row \in {organization, User(o.of)}
      \/ held.mode = "insert" /\ held.row = Member(o.of)
  BY <1>1, <1>3, <1>4 DEF BySignIn
<1>6. n + 1 \in DOMAIN p.next /\ Wants(p, n + 1, lock.row, lock.mode) /\ PlansLocks(p)
  BY <1>1, StuckForms
<1>7. \A row \in Rows : Takes(p, 1, "take", row) => Alone(command[b], row)
  BY StuckForms
<1>8. /\ lock.row[1] \in {"organization", "user", "member"}
      /\ lock.mode = "insert" <=> lock.row[1] = "member"
      /\ lock.mode = "insert" \/ (lock.mode = "update" /\ ~Alone(command[b], lock.row))
      /\ organization[1] = "organization"
  <2>1. CASE held.mode = "key" /\ held.row = organization
    BY <1>1, <1>2, <2>1, Tags DEF Firm
  <2>2. CASE held.mode = "key" /\ held.row = User(o.of)
    BY <1>1, <1>2, <2>2, Tags DEF Firm
  <2>3. CASE held.mode = "insert" /\ held.row = Member(o.of)
    BY <1>1, <2>3, Tags DEF Firm
  <2> QED BY <1>5, <2>1, <2>2, <2>3
<1>9. CASE ByTenant(p)
  <2>1. lock.row[1] # "user" /\ (lock.mode = "insert" => lock.row[1] \in Inserted)
    BY <1>1, <1>6, <1>9 DEF ByTenant, PlansInserts
  <2>2. lock.row[1] = "organization"
    BY <1>8, <2>1 DEF Inserted
  <2>3. lock.row = organization
    BY <1>1, <1>5, <2>2, Tags
  <2> QED BY <1>1, <1>7, <1>8, <1>9, <2>2, <2>3 DEF ByTenant
<1>10. CASE ByUser(p)
  <2>1. lock.mode = "update"
        /\ lock.row \in {User(p.of), Member(p.of), Entitlement(p.of), Assignment(p.of)}
    BY <1>1, <1>6, <1>10 DEF ByUser
  <2>2. lock.row = User(p.of)
    BY <1>8, <2>1, Tags
  <2> QED BY <1>1, <1>7, <1>8, <1>10, <2>1, <2>2 DEF ByUser
<1>11. CASE BySignIn(p)
  <2>1. n + 1 = 1
    BY <1>6, <1>11, StuckForms DEF BySignIn
  <2>2. lock.mode = "key" \/ lock.mode = "insert"
    BY <1>1, <1>6, <1>11, <2>1 DEF BySignIn
  <2>3. held.mode = "insert" /\ lock.mode = "insert" /\ held.row = Member(o.of)
    BY <1>1, <1>5, <1>8, <2>2 DEF Firm
  <2> QED BY <1>1, <1>11, <2>3
<1>12. CASE ByClient(p)
  <2>1. lock.row \in {Client(p.of), Link(p.of), resource}
    BY <1>1, <1>6, <1>12 DEF ByClient
  <2> QED BY <1>8, <2>1, Tags
<1>13. CASE ByResource(p)
  BY <1>1, <1>6, <1>8, <1>13, Tags DEF ByResource
<1> QED BY <1>6, <1>9, <1>10, <1>11, <1>12, <1>13 DEF PlansLocks

\* So no sign-in is in a circle: it would hold the insert it waits for.
LEMMA NoSignIn ==
  ASSUME Inv, InPlace, NEW cs \in SUBSET Commands, Circle(cs), NEW c \in cs,
         NEW o, NEW k, Stuck(c, o, k), BySignIn(o)
  PROVE  FALSE
<1>1. PICK b \in cs : \E lock, held : Between(b, c, lock, held)
  BY CircleForms
<1>2. PICK lock : \E held : Between(b, c, lock, held)
  BY <1>1
<1>3. PICK p \in Offers : \E n \in Nat : Stuck(b, p, n)
  BY CircleIsStuck
<1>4. PICK n \in Nat : Stuck(b, p, n)
  BY <1>3
<1>5. BySignIn(p) /\ lock \in command[b].pending
  BY <1>2, <1>4, WaitsForSignIn DEF Between
<1>6. PICK a \in cs : \E wish, had : Between(a, b, wish, had)
  BY CircleForms
<1>7. PICK q \in Offers : \E m \in Nat : Stuck(a, q, m)
  BY CircleIsStuck
<1>8. Lock(Member(p.of), "insert") \in command[b].held
  BY <1>4, <1>5, <1>6, <1>7, WaitsForSignIn DEF Between
<1>9. Wants(p, n + 1, lock.row, lock.mode) /\ lock \notin command[b].held
  BY <1>4, <1>5, StuckForms
<1>10. lock = Lock(Member(o.of), "insert")
  BY <1>2, <1>4, WaitsForSignIn
<1>11. lock = Lock(Member(p.of), "insert")
  <2>1. n + 1 \in DOMAIN p.next /\ lock.row \in Rows /\ lock.mode \in Modes
    BY <1>4, <1>5, StuckForms
  <2>2. n + 1 = 1
    BY <1>4, <1>5, <2>1, StuckForms DEF BySignIn
  <2>3. lock.mode = "insert" /\ lock.row = Member(o.of)
    BY <1>10 DEF Lock
  <2>4. lock.row = Member(p.of)
    BY <1>5, <1>9, <2>1, <2>2, <2>3 DEF BySignIn
  <2> QED BY <1>10, <2>3, <2>4
<1> QED BY <1>8, <1>9, <1>11

\* Nor is one that locks only the resource, which it has to itself.
LEMMA NoResource ==
  ASSUME Inv, InPlace, NEW cs \in SUBSET Commands, Circle(cs), NEW c \in cs,
         NEW o, NEW k, Stuck(c, o, k), ByResource(o)
  PROVE  FALSE
<1>1. PICK d \in cs : \E lock, held : Between(c, d, lock, held)
  BY CircleForms
<1>2. PICK lock : \E held : Between(c, d, lock, held)
  BY <1>1
<1>3. lock \in command[c].pending
  BY <1>2 DEF Between
<1>4. /\ lock.row \in Rows /\ lock.mode \in Modes /\ Wants(o, k + 1, lock.row, lock.mode)
      /\ k + 1 \in DOMAIN o.next
  BY <1>3, StuckForms
<1>5. lock.row = resource /\ lock.mode # "insert"
  BY <1>4 DEF ByResource
<1>6. Alone(command[c], resource)
  BY RowForms, StuckForms DEF ByResource
<1> QED BY <1>2, <1>5, <1>6, BetweenForms

\* Commands of one root: at most one of them in a circle.
LEMMA OneOfARoot ==
  ASSUME Inv, NEW c \in Commands, NEW o, NEW k, Stuck(c, o, k),
         NEW d \in Commands, NEW p, NEW n, Stuck(d, p, n),
         NEW root \in Rows, Takes(o, 1, "take", root), Takes(p, 1, "take", root)
  PROVE  c = d
<1>1. Alone(command[c], root) /\ Alone(command[d], root)
  BY StuckForms
<1>2. "update" \in Firm
  BY DEF Firm
<1> QED BY <1>1, <1>2, OneAlone DEF Alone

\* What is waited for in a circle of others is no insert.
LEMMA NoInsert ==
  ASSUME Inv, NEW c \in Commands, NEW o, NEW k, Stuck(c, o, k), ~BySignIn(o),
         NEW d \in Commands, NEW p, NEW n, Stuck(d, p, n), ~BySignIn(p),
         NEW lock, NEW held, Between(c, d, lock, held)
  PROVE  lock.mode \in Firm /\ held.mode \in Firm
<1> SUFFICES ASSUME held.mode = "insert", lock.mode = "insert" PROVE FALSE
  BY BetweenForms
<1>1. c # d /\ lock \in command[c].pending /\ held \in command[d].held /\ held.row = lock.row
  BY BetweenForms DEF Between
<1>2. /\ k + 1 \in DOMAIN o.next /\ Wants(o, k + 1, lock.row, "insert") /\ PlansLocks(o)
      /\ lock.row \in Rows /\ "insert" \in Modes
  BY <1>1, StuckForms
<1>3. PlansLocks(p) /\ \E j \in DOMAIN p.next : Wants(p, j, lock.row, "insert")
  BY <1>1, StuckForms
<1>4. CASE ByTenant(o)
  <2>1. lock.row[1] \in Inserted
    BY <1>2, <1>4 DEF ByTenant, PlansInserts
  <2>2. CASE ByTenant(p)
    BY <1>1, <1>4, <2>2, RowForms, OneOfARoot DEF ByTenant
  <2>3. CASE ByUser(p)
    BY <1>2, <1>3, <2>3 DEF ByUser
  <2>4. CASE ByClient(p)
    BY <1>2, <1>3, <2>1, <2>4, Tags DEF ByClient, Inserted
  <2>5. CASE ByResource(p)
    BY <1>2, <1>3, <2>5 DEF ByResource
  <2> QED BY <1>3, <2>2, <2>3, <2>4, <2>5 DEF PlansLocks
<1>5. CASE ByUser(o)
  BY <1>2, <1>5 DEF ByUser
<1>6. CASE ByClient(o)
  <2>1. lock.row = Link(o.of) /\ o.of \in Clients
    BY <1>2, <1>6 DEF ByClient
  <2>2. CASE ByTenant(p)
    <3>1. lock.row[1] = "link"
      BY <2>1, Tags
    <3> QED BY <1>2, <1>3, <2>2, <3>1 DEF ByTenant
  <2>3. CASE ByUser(p)
    BY <1>2, <1>3, <2>3 DEF ByUser
  <2>4. CASE ByClient(p)
    <3>1. lock.row = Link(p.of)
      BY <1>2, <1>3, <2>4 DEF ByClient
    <3>2. o.of = p.of
      <4>1. Link(o.of)[2] = o.of /\ Link(p.of)[2] = p.of
        BY Tags
      <4> QED BY <2>1, <3>1, <4>1
    <3>3. Takes(o, 1, "take", Client(o.of)) /\ Takes(p, 1, "take", Client(o.of))
      BY <1>6, <2>4, <3>2 DEF ByClient
    <3> QED BY <1>1, <2>1, <3>3, RowForms, OneOfARoot
  <2>5. CASE ByResource(p)
    BY <1>2, <1>3, <2>5 DEF ByResource
  <2> QED BY <1>3, <2>2, <2>3, <2>4, <2>5 DEF PlansLocks
<1>7. CASE ByResource(o)
  BY <1>2, <1>7 DEF ByResource
<1> QED BY <1>2, <1>4, <1>5, <1>6, <1>7 DEF PlansLocks

\* Whoever is in a circle is a command of the tenant, of an application, or the erasure of a user.
Ours(o) == ByTenant(o) \/ ByUser(o) \/ ByClient(o)
LEMMA CircleOfOurs ==
  ASSUME Inv, InPlace, NEW cs \in SUBSET Commands, Circle(cs), NEW c \in cs
  PROVE  \E o \in Offers : \E k \in Nat : Stuck(c, o, k) /\ Ours(o) /\ ~BySignIn(o)
<1>1. PICK o \in Offers : \E k \in Nat : Stuck(c, o, k)
  BY CircleIsStuck
<1>2. PICK k \in Nat : Stuck(c, o, k)
  BY <1>1
<1>3. PlansLocks(o) /\ ~BySignIn(o) /\ ~ByResource(o)
  BY <1>2, StuckForms, NoSignIn, NoResource
<1> QED BY <1>1, <1>2, <1>3 DEF PlansLocks, Ours

\* The erasure of a user waits only for commands of the tenant, and only they wait for it.
LEMMA MeetsErasure ==
  ASSUME Inv, NEW c \in Commands, NEW o, NEW k, Stuck(c, o, k), ByUser(o),
         NEW d \in Commands, NEW p, NEW n, Stuck(d, p, n), Ours(p), d # c
  PROVE  /\ \A lock, held : Between(c, d, lock, held) =>
              /\ ByTenant(p) /\ lock.mode = "update"
              /\ \/ lock.row = Member(o.of) /\ k + 1 = 2
                 \/ lock.row = Entitlement(o.of) /\ k + 1 = 3
                 \/ lock.row = Assignment(o.of) /\ k + 1 = 4
         /\ \A lock, held : Between(d, c, lock, held) => ByTenant(p)
<1>1. \A row \in Rows, m \in Modes : \A j \in DOMAIN o.next : Wants(o, j, row, m) =>
        /\ m = "update"
        /\ row \in {User(o.of), Member(o.of), Entitlement(o.of), Assignment(o.of)}
  BY DEF ByUser
<1>2. ASSUME NEW row \in Rows, NEW m \in Modes, NEW i \in DOMAIN p.next, Wants(p, i, row, m),
             row \in {User(o.of), Member(o.of), Entitlement(o.of), Assignment(o.of)}
      PROVE  ByTenant(p)
  <2>1. row[1] \in {"user", "member", "entitlement", "assignment"} /\ row[2] = o.of
    BY <1>2, Tags
  <2>2. CASE ByUser(p)
    <3>1. row \in {User(p.of), Member(p.of), Entitlement(p.of), Assignment(p.of)}
      BY <1>2, <2>2 DEF ByUser
    <3>2. row[2] = p.of
      BY <3>1, Tags
    <3>3. Takes(o, 1, "take", User(o.of)) /\ Takes(p, 1, "take", User(o.of)) /\ o.of \in Users
      BY <2>1, <2>2, <3>2 DEF ByUser
    <3> QED BY <3>3, RowForms, OneOfARoot
  <2>3. CASE ByClient(p)
    <3>1. row \in {Client(p.of), Link(p.of), resource}
      BY <1>2, <2>3 DEF ByClient
    <3>2. row[1] \in {"client", "link", "resource"}
      BY <3>1, Tags
    <3> QED BY <2>1, <3>2
  <2> QED BY <2>2, <2>3 DEF Ours
<1>3. ASSUME NEW lock, NEW held, Between(c, d, lock, held)
      PROVE  /\ ByTenant(p) /\ lock.mode = "update"
             /\ \/ lock.row = Member(o.of) /\ k + 1 = 2
                \/ lock.row = Entitlement(o.of) /\ k + 1 = 3
                \/ lock.row = Assignment(o.of) /\ k + 1 = 4
  <2>1. lock \in command[c].pending /\ held \in command[d].held /\ held.row = lock.row
    BY <1>3, BetweenForms DEF Between
  <2>2. /\ k + 1 \in DOMAIN o.next /\ Wants(o, k + 1, lock.row, lock.mode) /\ k \in Nat
        /\ lock.row \in Rows /\ lock.mode \in Modes /\ lock = Lock(lock.row, lock.mode)
    BY <2>1, StuckForms
  <2>3. /\ held.mode \in Modes
        /\ \E j \in DOMAIN p.next : Wants(p, j, lock.row, held.mode)
    BY <2>1, StuckForms
  <2>4. ByTenant(p) /\ lock.mode = "update"
    BY <1>1, <1>2, <2>2, <2>3
  <2>5. ~Alone(command[c], lock.row)
    BY <1>3, <2>4, BetweenForms
  <2>6. Alone(command[c], User(o.of))
    <3>1. User(o.of) \in Rows /\ Takes(o, 1, "take", User(o.of))
      BY RowForms DEF ByUser
    <3> QED BY <3>1, StuckForms
  <2>7. \/ k + 1 \in {1, 6} /\ lock.row = User(o.of)
        \/ k + 1 \in {2, 5} /\ lock.row = Member(o.of)
        \/ k + 1 = 3 /\ lock.row = Entitlement(o.of)
        \/ k + 1 = 4 /\ lock.row = Assignment(o.of)
    BY <2>2 DEF ByUser
  <2>8. ~(k + 1 = 5 /\ lock.row = Member(o.of))
    <3> SUFFICES ASSUME k + 1 = 5, lock.row = Member(o.of) PROVE FALSE
      OBVIOUS
    <3>1. k = 4
      BY <2>2
    <3>2. command[c].name = "eraseUser" /\ command[c].of = o.of
      BY StuckForms DEF ByUser
    <3>3. Erasing(live, command[c], k)
      BY DEF Stuck
    <3> QED BY <2>1, <2>2, <2>4, <3>1, <3>2, <3>3 DEF Erasing
  <2> QED BY <2>4, <2>5, <2>6, <2>7, <2>8
<1>4. ASSUME NEW lock, NEW held, Between(d, c, lock, held) PROVE ByTenant(p)
  <2>1. lock \in command[d].pending /\ held \in command[c].held /\ held.row = lock.row
    BY <1>4, BetweenForms DEF Between
  <2>2. /\ held.row \in Rows /\ held.mode \in Modes
        /\ \E j \in DOMAIN o.next : Wants(o, j, held.row, held.mode)
    BY <2>1, StuckForms
  <2>3. lock.mode \in Modes /\ n + 1 \in DOMAIN p.next /\ Wants(p, n + 1, lock.row, lock.mode)
    BY <2>1, StuckForms
  <2> QED BY <1>1, <1>2, <2>1, <2>2, <2>3
<1> QED BY <1>3, <1>4

\* And that command is one of those whose locks do not follow the erasure's order.
LEMMA CrossesErasure ==
  ASSUME Inv, NEW c \in Commands, NEW o, NEW k, Stuck(c, o, k), ByUser(o),
         NEW d \in Commands, NEW p, NEW n, Stuck(d, p, n), ByTenant(p), d # c,
         NEW lock, NEW held, Between(c, d, lock, held),
         NEW wish, NEW had, Between(d, c, wish, had)
  PROVE  p.name \in Crossing
<1> SUFFICES ASSUME InTurn(p) PROVE FALSE
  BY DEF ByTenant
<1> DEFINE u == o.of
<1>0. /\ u \in Users /\ ~BySignIn(o) /\ ~BySignIn(p)
  <2>1. organization[1] = "organization" /\ p.next[1] = Statement("take", {organization}, "update")
    BY Tags DEF ByTenant, Takes
  <2>2. o.name # "provisionMembership"
    BY DEF ByUser
  <2>3. ASSUME BySignIn(p) PROVE FALSE
    <3>1. Locking(p.next[1], p.of, organization, "update")
      BY <2>1 DEF Locking, Statement
    <3>2. organization \in Rows /\ "update" \in Modes
      BY RowForms DEF Modes
    <3>3. organization # Member(p.of)
      BY Tags, Zenon
    <3> QED BY <2>3, <3>1, <3>2, <3>3 DEF BySignIn, Wants
  <2> QED BY <2>2, <2>3 DEF ByUser, BySignIn
<1>1. /\ lock.mode = "update"
      /\ \/ lock.row = Member(u) /\ k + 1 = 2
         \/ lock.row = Entitlement(u) /\ k + 1 = 3
         \/ lock.row = Assignment(u) /\ k + 1 = 4
  BY MeetsErasure DEF Ours
<1>2. /\ lock \in command[c].pending /\ held \in command[d].held /\ held.row = lock.row
      /\ wish \in command[d].pending /\ had \in command[c].held /\ had.row = wish.row
  BY BetweenForms DEF Between
<1>3. wish.mode \in Firm /\ held.mode \in Firm
  BY <1>0, NoInsert
<1>4. /\ n + 1 \in DOMAIN p.next /\ Wants(p, n + 1, wish.row, wish.mode) /\ wish.row \in Rows
      /\ wish = Lock(wish.row, wish.mode) /\ held = Lock(held.row, held.mode) /\ wish.mode \in Modes
  BY <1>2, StuckForms
<1>5. PICK j \in DOMAIN p.next : j <= n + 1 /\ Wants(p, j, lock.row, held.mode)
  BY <1>2, StuckForms
<1>6. PICK i \in DOMAIN o.next : i <= k + 1 /\ Wants(o, i, wish.row, had.mode)
  BY <1>2, StuckForms
<1>7. /\ i \in Nat /\ k \in Nat /\ had.mode \in Modes /\ lock \notin command[c].held
      /\ lock = Lock(lock.row, lock.mode) /\ had = Lock(wish.row, had.mode)
  BY <1>2, StuckForms
<1>8. /\ had.mode = "update"
      /\ \/ i \in {1, 6} /\ wish.row = User(u)
         \/ i \in {2, 5} /\ wish.row = Member(u)
         \/ i = 3 /\ wish.row = Entitlement(u)
         \/ i = 4 /\ wish.row = Assignment(u)
  BY <1>4, <1>6, <1>7 DEF ByUser
<1>9. wish.row # User(u)
  <2>1. wish.row[1] # "user"
    BY <1>4 DEF ByTenant
  <2> QED BY <2>1, Tags
<1>10. wish.row # lock.row
  BY <1>1, <1>2, <1>7, <1>8
<1>11. \/ lock.row = Entitlement(u) /\ wish.row = Member(u)
       \/ lock.row = Assignment(u) /\ wish.row \in {Member(u), Entitlement(u)}
  BY <1>1, <1>6, <1>7, <1>8, <1>9, <1>10
<1>12. CASE lock.row = Entitlement(u) /\ wish.row = Member(u)
  BY <1>0, <1>3, <1>4, <1>5, <1>12 DEF InTurn
<1>13. CASE lock.row = Assignment(u) /\ wish.row = Entitlement(u)
  BY <1>0, <1>3, <1>4, <1>5, <1>13 DEF InTurn
<1>14. CASE lock.row = Assignment(u) /\ wish.row = Member(u)
  <2>1. \/ wish.mode = "share" /\ held.mode = "share"
        \/ p.name = "putMember" /\ p.of = u /\ wish.mode = "key" /\ held.mode = "update"
    BY <1>0, <1>3, <1>4, <1>5, <1>14 DEF InTurn
  <2>2. Turns(command[d]) /\ Putting(live, command[d])
    BY DEF Stuck
  <2>3. CASE wish.mode = "share" /\ held.mode = "share"
    BY <1>0, <1>2, <1>4, <1>14, <2>2, <2>3 DEF Turns
  <2>4. CASE p.name = "putMember" /\ p.of = u /\ wish.mode = "key" /\ held.mode = "update"
    <3>1. command[d].name = "putMember" /\ command[d].of = u
      BY <2>4, StuckForms
    <3>2. Assignment(u) \notin live
      BY <1>2, <1>4, <1>14, <2>2, <2>4, <3>1 DEF Putting
    <3>3. Lock(Assignment(u), "update") \in command[d].held
      BY <1>2, <1>4, <1>14, <2>4
    <3>4. User(u) \notin live
      BY <2>2, <3>1, <3>2, <3>3 DEF Putting
    <3>5. User(u) \in live \cup command[c].added
      <4>1. User(u) \in Rows /\ Takes(o, 1, "take", User(u))
        BY <1>0, RowForms DEF ByUser
      <4> QED BY <4>1, StuckForms
    <3>6. command[c].added = {}
      <4>1. \A g \in 1..k : g \in DOMAIN o.next
        BY StuckForms
      <4>2. Took(live, command[c], o, k) /\ Without(o, Inserts)
        BY DEF Stuck, ByUser
      <4> QED BY <4>1, <4>2 DEF Took, Without
    <3> QED BY <3>4, <3>5, <3>6
  <2> QED BY <2>1, <2>3, <2>4
<1> QED BY <1>11, <1>12, <1>13, <1>14

\* A command of a tenant does not keep waiting for an application's while another waits for it.
LEMMA NoPolicy ==
  ASSUME Inv, NEW t \in Commands, NEW o, NEW k, Stuck(t, o, k), ByTenant(o),
         NEW d \in Commands, NEW p, NEW n, Stuck(d, p, n), ByClient(p),
         NEW b \in Commands, NEW q, NEW m, Stuck(b, q, m), ByClient(q),
         ~BySignIn(o), ~BySignIn(p), ~BySignIn(q),
         NEW lock, NEW held, Between(t, d, lock, held),
         NEW wish, NEW had, Between(b, t, wish, had)
  PROVE  FALSE
<1>1. /\ lock \in command[t].pending /\ held \in command[d].held /\ held.row = lock.row
      /\ wish \in command[b].pending /\ had \in command[t].held /\ had.row = wish.row
      /\ b # t /\ d # t
  BY BetweenForms DEF Between
<1>2. /\ k + 1 \in DOMAIN o.next /\ Wants(o, k + 1, lock.row, lock.mode) /\ k \in Nat
      /\ lock.row \in Rows /\ lock.mode \in Modes /\ lock = Lock(lock.row, lock.mode)
      /\ lock \notin command[t].held
  BY <1>1, StuckForms
<1>3. /\ held.mode \in Modes /\ held = Lock(held.row, held.mode)
      /\ \E j \in DOMAIN p.next : Wants(p, j, lock.row, held.mode)
  BY <1>1, StuckForms
<1>4. lock.row[1] \in {"client", "resource"}
  <2>1. lock.row \in {Client(p.of), Link(p.of), resource}
    BY <1>2, <1>3 DEF ByClient
  <2>2. lock.row[1] # "link"
    BY <1>2 DEF ByTenant
  <2> QED BY <2>1, <2>2, Tags
<1>5. wish.mode \in Modes /\ m + 1 \in DOMAIN q.next /\ Wants(q, m + 1, wish.row, wish.mode)
  BY <1>1, StuckForms
<1>6. /\ had.mode \in Modes /\ had.row \in Rows /\ had = Lock(had.row, had.mode)
      /\ \E j \in DOMAIN o.next : j <= k + 1 /\ Wants(o, j, had.row, had.mode)
  BY <1>1, StuckForms
<1>7. wish.row = resource
  <2>1. wish.row \in {Client(q.of), Link(q.of), resource}
    BY <1>1, <1>5, <1>6 DEF ByClient
  <2>2. wish.row[1] # "link"
    BY <1>1, <1>6 DEF ByTenant
  <2>3. wish.row # Client(q.of)
    <3>1. Client(q.of) \in Rows /\ Takes(q, 1, "take", Client(q.of))
      BY RowForms DEF ByClient
    <3>2. Alone(command[b], Client(q.of))
      BY <3>1, StuckForms
    <3> QED BY <3>2, NoInsert, BetweenForms DEF Firm
  <2> QED BY <2>1, <2>2, <2>3, Tags
<1>8. \/ lock.mode = "key" /\ \E g \in 1..k : o.next[g] = Statement("take", {lock.row}, "share")
      \/ /\ lock.mode = "share"
         /\ \A j \in 1..(k + 1), i \in Modes : Wants(o, j, resource, i) =>
              j = k + 1 /\ lock.row = resource /\ i = "share"
  <2>1. (k + 1) - 1 = k
    BY <1>2
  <2> QED BY <1>2, <1>4, <2>1 DEF ByTenant
<1>9. CASE lock.mode = "key" /\ \E g \in 1..k : o.next[g] = Statement("take", {lock.row}, "share")
  <2>1. "share" \in Firm /\ Took(live, command[t], o, k)
    BY DEF Firm, Stuck
  <2>2. Lock(lock.row, "share") \in command[t].held
    BY <1>2, <1>9, <2>1 DEF Took
  <2>3. Alone(command[d], lock.row)
    BY <1>9, BetweenForms
  <2> QED BY <1>1, <2>1, <2>2, <2>3, OneAlone
<1>10. CASE /\ lock.mode = "share"
            /\ \A j \in 1..(k + 1), i \in Modes : Wants(o, j, resource, i) =>
                 j = k + 1 /\ lock.row = resource /\ i = "share"
  <2>1. PICK j \in DOMAIN o.next : j <= k + 1 /\ Wants(o, j, resource, had.mode)
    BY <1>1, <1>6, <1>7
  <2>2. j \in 1..(k + 1)
    <3>1. DOMAIN o.next = 1..Len(o.next) /\ Len(o.next) \in Nat
      BY StuckForms
    <3> QED BY <1>2, <2>1, <3>1
  <2>3. lock.row = resource /\ had.mode = "share"
    BY <1>6, <1>10, <2>1, <2>2
  <2> QED BY <1>1, <1>2, <1>6, <1>7, <1>10, <2>3
<1> QED BY <1>8, <1>9, <1>10

\* Commands of applications keep each other waiting only for the resource, and only by unlinking.
LEMMA OnlyUnlinkings ==
  ASSUME Inv, NEW c \in Commands, NEW o, NEW k, Stuck(c, o, k), ByClient(o),
         NEW d \in Commands, NEW p, NEW n, Stuck(d, p, n), ByClient(p),
         NEW b \in Commands, NEW q, NEW m, Stuck(b, q, m), ByClient(q),
         ~BySignIn(o), ~BySignIn(p), ~BySignIn(q),
         NEW lock, NEW held, Between(c, d, lock, held),
         NEW wish, NEW had, Between(b, c, wish, had)
  PROVE  o.name = "unlinkResource"
<1>1. /\ lock \in command[c].pending /\ held \in command[d].held /\ held.row = lock.row
      /\ wish \in command[b].pending /\ had \in command[c].held /\ had.row = wish.row
      /\ b # c /\ d # c
  BY BetweenForms DEF Between
<1>2. ASSUME NEW a \in Commands, a # c, NEW r, NEW h, Stuck(a, r, h), ByClient(r),
             NEW row \in Rows, NEW i \in DOMAIN o.next, NEW j \in DOMAIN r.next,
             NEW x \in Modes, NEW y \in Modes, Wants(o, i, row, x), Wants(r, j, row, y)
      PROVE  row = resource
  <2>1. row \in {Client(o.of), Link(o.of), resource} /\ row \in {Client(r.of), Link(r.of), resource}
    BY <1>2 DEF ByClient
  <2>2. ASSUME row # resource PROVE o.of = r.of
    <3>1. /\ Client(o.of)[2] = o.of /\ Link(o.of)[2] = o.of
          /\ Client(r.of)[2] = r.of /\ Link(r.of)[2] = r.of
      BY Tags
    <3> QED BY <2>1, <2>2, <3>1
  <2>3. ASSUME o.of = r.of PROVE FALSE
    <3>1. Client(o.of) \in Rows /\ Takes(o, 1, "take", Client(o.of))
          /\ Takes(r, 1, "take", Client(o.of))
      BY <1>2, <2>3, RowForms DEF ByClient
    <3> QED BY <1>2, <3>1, OneOfARoot
  <2> QED BY <2>2, <2>3
<1>3. /\ k + 1 \in DOMAIN o.next /\ Wants(o, k + 1, lock.row, lock.mode) /\ k \in Nat
      /\ lock.row \in Rows /\ lock.mode \in Modes /\ lock = Lock(lock.row, lock.mode)
      /\ lock \notin command[c].held
  BY <1>1, StuckForms
<1>4. held.mode \in Modes /\ \E j \in DOMAIN p.next : Wants(p, j, lock.row, held.mode)
  BY <1>1, StuckForms
<1>5. lock.row = resource
  BY <1>1, <1>2, <1>3, <1>4
<1>6. wish.mode \in Modes /\ m + 1 \in DOMAIN q.next /\ Wants(q, m + 1, wish.row, wish.mode)
  BY <1>1, StuckForms
<1>7. /\ had.mode \in Modes /\ had.row \in Rows /\ had = Lock(had.row, had.mode)
      /\ \E j \in DOMAIN o.next : j <= k + 1 /\ Wants(o, j, had.row, had.mode)
  BY <1>1, StuckForms
<1>8. had.row = resource
  BY <1>1, <1>2, <1>6, <1>7
<1>9. \/ o.name = "unlinkResource"
      \/ \E g \in 1..k : Takes(o, g, "take", resource)
      \/ \A j \in 1..(k + 1), i \in Modes : Wants(o, j, resource, i) => j = k + 1 /\ i = lock.mode
  <2>1. (k + 1) - 1 = k
    BY <1>3
  <2> QED BY <1>3, <1>5, <2>1 DEF ByClient
<1>10. ~\E g \in 1..k : Takes(o, g, "take", resource)
  <2> SUFFICES ASSUME NEW g \in 1..k, Takes(o, g, "take", resource) PROVE FALSE
    OBVIOUS
  <2>1. "update" \in Firm /\ resource \in Rows /\ Took(live, command[c], o, k)
    BY RowForms DEF Firm, Stuck
  <2>2. Alone(command[c], resource)
    BY <2>1 DEF Took, Takes, Alone
  <2> QED BY <1>5, <2>2, NoInsert, BetweenForms DEF Firm
<1>11. ASSUME \A j \in 1..(k + 1), i \in Modes :
                Wants(o, j, resource, i) => j = k + 1 /\ i = lock.mode
       PROVE  FALSE
  <2>1. PICK j \in DOMAIN o.next : j <= k + 1 /\ Wants(o, j, resource, had.mode)
    BY <1>7, <1>8
  <2>2. j \in 1..(k + 1)
    <3>1. DOMAIN o.next = 1..Len(o.next) /\ Len(o.next) \in Nat
      BY StuckForms
    <3> QED BY <1>3, <2>1, <3>1
  <2> QED BY <1>1, <1>3, <1>5, <1>7, <1>8, <1>11, <2>1, <2>2
<1> QED BY <1>9, <1>10, <1>11

\* What a circle with the erasure of a user is.
LEMMA ErasureCircle ==
  ASSUME Inv, InPlace, NEW cs \in SUBSET Commands, Circle(cs), NEW c \in cs,
         NEW o, NEW k, Stuck(c, o, k), ByUser(o)
  PROVE  "eraseUser" \in Named(cs) /\ Named(cs) \subseteq {"eraseUser"} \cup Crossing
<1>1. PICK d \in cs : d \in WaitsFor(c) /\ \E lock, held : Between(c, d, lock, held)
  BY CircleForms
<1>2. PICK b \in cs : c \in WaitsFor(b) /\ \E lock, held : Between(b, c, lock, held)
  BY CircleForms
<1>3. PICK p \in Offers : \E n \in Nat : Stuck(d, p, n) /\ Ours(p) /\ ~BySignIn(p)
  BY CircleOfOurs
<1>4. PICK n \in Nat : Stuck(d, p, n)
  BY <1>3
<1>5. PICK q \in Offers : \E m \in Nat : Stuck(b, q, m) /\ Ours(q) /\ ~BySignIn(q)
  BY CircleOfOurs
<1>6. PICK m \in Nat : Stuck(b, q, m)
  BY <1>5
<1>7. ByTenant(p) /\ d # c
  BY <1>1, <1>3, <1>4, MeetsErasure DEF Between
<1>8. ByTenant(q) /\ b # c
  BY <1>2, <1>5, <1>6, MeetsErasure DEF Between
<1>9. b = d
  BY <1>4, <1>6, <1>7, <1>8, RowForms, OneOfARoot DEF ByTenant
<1>10. p.name \in Crossing
  BY <1>1, <1>2, <1>4, <1>7, <1>9, CrossesErasure
<1>11. cs = {c, d}
  <2>1. Deadlocked({c, d})
    BY <1>1, <1>2, <1>9 DEF Deadlocked
  <2>2. {c, d} \in SUBSET cs
    OBVIOUS
  <2> QED BY <2>1, <2>2 DEF Circle
<1>12. command[c].name = "eraseUser" /\ command[d].name = p.name
  BY <1>4, StuckForms DEF ByUser
<1> QED BY <1>10, <1>11, <1>12 DEF Named

\* What any other circle is.
LEMMA OtherCircle ==
  ASSUME Inv, InPlace, NEW cs \in SUBSET Commands, Circle(cs),
         \A c \in cs : ~\E o \in Offers : \E k \in Nat : Stuck(c, o, k) /\ ByUser(o)
  PROVE  Named(cs) = {"unlinkResource"}
<1>1. ASSUME NEW c \in cs
      PROVE  \E o \in Offers : \E k \in Nat :
               Stuck(c, o, k) /\ (ByTenant(o) \/ ByClient(o)) /\ ~BySignIn(o)
  <2>1. PICK o \in Offers : \E k \in Nat : Stuck(c, o, k) /\ Ours(o) /\ ~BySignIn(o)
    BY CircleOfOurs
  <2> QED BY <2>1 DEF Ours
<1>2. ASSUME NEW c \in cs PROVE command[c].name = "unlinkResource"
  <2>1. PICK o \in Offers : \E k \in Nat :
          Stuck(c, o, k) /\ (ByTenant(o) \/ ByClient(o)) /\ ~BySignIn(o)
    BY <1>1
  <2>2. PICK k \in Nat : Stuck(c, o, k)
    BY <2>1
  <2>3. ASSUME NEW t \in cs, NEW p \in Offers, NEW n \in Nat, Stuck(t, p, n), ByTenant(p),
               ~BySignIn(p)
        PROVE  FALSE
    <3>1. PICK d \in cs : \E lock, held : Between(t, d, lock, held)
      BY CircleForms
    <3>2. PICK b \in cs : \E lock, held : Between(b, t, lock, held)
      BY CircleForms
    <3>3. ASSUME NEW a \in cs, a # t
          PROVE  \E q \in Offers : \E m \in Nat : Stuck(a, q, m) /\ ByClient(q) /\ ~BySignIn(q)
      <4>1. PICK q \in Offers : \E m \in Nat :
              Stuck(a, q, m) /\ (ByTenant(q) \/ ByClient(q)) /\ ~BySignIn(q)
        BY <1>1
      <4>2. ~ByTenant(q)
        BY <2>3, <3>3, <4>1, RowForms, OneOfARoot DEF ByTenant
      <4> QED BY <4>1, <4>2
    <3>4. d # t /\ b # t
      BY <3>1, <3>2 DEF Between
    <3>5. PICK q \in Offers : \E m \in Nat : Stuck(d, q, m) /\ ByClient(q) /\ ~BySignIn(q)
      BY <3>3, <3>4
    <3>6. PICK r \in Offers : \E m \in Nat : Stuck(b, r, m) /\ ByClient(r) /\ ~BySignIn(r)
      BY <3>3, <3>4
    <3> QED BY <2>3, <3>1, <3>2, <3>5, <3>6, NoPolicy
  <2>4. ByClient(o)
    BY <2>1, <2>2, <2>3
  <2>5. PICK d \in cs : \E lock, held : Between(c, d, lock, held)
    BY CircleForms
  <2>6. PICK b \in cs : \E lock, held : Between(b, c, lock, held)
    BY CircleForms
  <2>7. PICK q \in Offers : \E m \in Nat : Stuck(d, q, m) /\ ByClient(q) /\ ~BySignIn(q)
    BY <1>1, <2>3
  <2>8. PICK r \in Offers : \E m \in Nat : Stuck(b, r, m) /\ ByClient(r) /\ ~BySignIn(r)
    BY <1>1, <2>3
  <2>9. o.name = "unlinkResource"
    BY <2>1, <2>2, <2>4, <2>5, <2>6, <2>7, <2>8, OnlyUnlinkings
  <2> QED BY <2>2, <2>9, StuckForms
<1>3. cs # {}
  BY DEF Circle, Deadlocked
<1> QED BY <1>2, <1>3 DEF Named

(***************************************************************************)
(* Theorems                                                                *)
(***************************************************************************)
\* Every variable keeps its type, whatever the commands do to the tenant's rows.
THEOREM TypeCorrect == Spec => []TypeOK
<1>1. Inv => TypeOK
  <2> SUFFICES ASSUME Inv PROVE TypeOK
    OBVIOUS
  <2>1. ASSUME NEW c \in Commands, NEW x, x = command[c]
        PROVE  /\ x.pending \cup x.held \subseteq Locks
               /\ Written(x) \subseteq Rows /\ x.seen \subseteq Users
    <3>1. x \in Asking
      BY <2>1 DEF Inv, Typed
    <3> QED BY <3>1 DEF Asking, Written
  <2> QED BY <2>1 DEF Inv, Typed, TypeOK, Locks, Modes
<1> QED BY <1>1, Invariance, PTL

\* Nothing outlives what it rests on.  deleteOrganization, deleteGroup, deleteUser, eraseClient and
\* eraseResource leave no live row that refers to an erased one, and removeMemberAssignments leaves
\* a revoked member no assignment and no entitlement, for any number of commands at a time.
THEOREM NothingIsLeftBehind == Spec => []NothingOutlives
<1>1. Inv => NothingOutlives
  BY DEF Inv
<1> QED BY <1>1, Invariance, PTL

\* Only its own commit ends a command and changes the tenant.
LEMMA OnlyCommits ==
  ASSUME Inv, [Next]_vars, NEW c \in Commands, Commits(c)
  PROVE  Commit(c)
<1>1. worldVars' # worldVars /\ command[c] # Idle /\ command'[c] = Idle
  BY DEF Commits
<1>2. PICK d \in Commands : Commit(d)
  BY <1>1 DEF Next, vars, Begin, Start, Acquire, Finish, Refuse
<1>3. CASE d # c
  <2>1. command'[c] = command[c]
    BY <1>2, <1>3 DEF Commit, End, Inv, Typed
  <2> QED BY <1>1, <2>1
<1> QED BY <1>2, <1>3

\* The members that readEntitlementAudience reports to the event of an entitlement's command are
\* those the entitlement reaches when that command commits.
THEOREM AudiencesAreExact == Spec => AudienceIsExact
<1>1. ASSUME Inv, [Next]_vars, NEW c \in Commands, Commits(c), command[c].name \in Audited
      PROVE  command[c].seen = Reached(command[c].of, live')
  <2>1. Commit(c)
    BY <1>1, OnlyCommits
  <2>2. command[c].next = <<>> /\ live' = Sees(live, command[c])
    BY <2>1 DEF Commit, Sees
  <2>3. Hears(live, command[c])
    BY <1>1 DEF Inv, Fine
  <2> QED BY <1>1, <2>2, <2>3 DEF Hears
<1>2. Inv /\ [Next]_vars => [\A c \in Commands : Commits(c) /\ command[c].name \in Audited
                                => command[c].seen = Reached(command[c].of, live')]_vars
  BY <1>1
<1> QED BY <1>2, Invariance, PTL DEF AudienceIsExact, Spec

\* A command that assertRevision let through commits its change on the revision its sender read: no
\* other command commits a change of the row in between.
THEOREM ConditionalChangesAreSafe == Spec => ChangesBuildOnWhatWasRead
<1>1. ASSUME Inv, [Next]_vars, NEW c \in Commands, Commits(c),
             NEW row \in command[c].changed \cap live, command[c].expected # {}
      PROVE  command[c].expected = {{revision[row]}}
  <2>1. Matches(live, revision, command[c])
    BY <1>1 DEF Inv, Fine
  <2> QED BY <1>1, <2>1 DEF Matches
<1>2. Inv /\ [Next]_vars => [\A c \in Commands : Commits(c) =>
        \A row \in command[c].changed \cap live :
          command[c].expected # {} /\ command[c].name \notin {"linkResource", "unlinkResource"}
            => command[c].expected = {{revision[row]}}]_vars
  BY <1>1
<1> QED BY <1>2, Invariance, PTL DEF ChangesBuildOnWhatWasRead, Spec

\* The transactions PostgreSQL may find waiting in a circle, for any number of them: one erasure of
\* a user, whose deleteUser locks the membership before what it holds, and one command that locks a
\* member's entitlement first; or unlinkings of applications, which readResourceForPolicy lets share
\* one resource before each changes it.
THEOREM OnlyErasuresMeet == Spec => []OnlyErasuresDeadlock
<1>1. Inv /\ InPlace => OnlyErasuresDeadlock
  <2> SUFFICES ASSUME Inv, InPlace, NEW cs \in SUBSET Commands, Circle(cs)
               PROVE  \/ Named(cs) = {"unlinkResource"}
                      \/ /\ "eraseUser" \in Named(cs)
                         /\ Named(cs) \subseteq {"eraseUser", "eraseOrganization",
                                                 "updateEntitlement", "removeEntitlement"}
    BY DEF OnlyErasuresDeadlock
  <2>1. ASSUME NEW c \in cs, NEW o \in Offers, NEW k \in Nat, Stuck(c, o, k), ByUser(o)
        PROVE  "eraseUser" \in Named(cs) /\ Named(cs) \subseteq {"eraseUser"} \cup Crossing
    BY <2>1, ErasureCircle
  <2>2. CASE \E c \in cs : \E o \in Offers : \E k \in Nat : Stuck(c, o, k) /\ ByUser(o)
    BY <2>1, <2>2 DEF Crossing
  <2>3. CASE \A c \in cs : ~\E o \in Offers : \E k \in Nat : Stuck(c, o, k) /\ ByUser(o)
    BY <2>3, OtherCircle
  <2> QED BY <2>2, <2>3
<1> QED BY <1>1, Invariance, AlwaysInPlace, PTL
===============================================================================
