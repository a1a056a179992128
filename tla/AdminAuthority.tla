---------------------------- MODULE AdminAuthority ----------------------------
(***************************************************************************)
(* Who may command Answerable ID, and what a command holds while it does   *)
(* (apps/id/src/services, db/queries/grants.ts).  A command is one         *)
(* transaction: it locks the rows its authority rests on, decides, locks   *)
(* what it changes, and commits or rolls back, which releases every lock.  *)
(*                                                                         *)
(* Staff are users of the platform's organisation.  Root is admitted only  *)
(* while no platform writer exists, or as break-glass, which is left out.  *)
(* A row stands for its table's rows that are locked with it: a user's for *)
(* the user and the session, the platform's for its policy.  Left out: the *)
(* passage of time, tenants, whose rows are taken in the same order, and   *)
(* the bound resource, which every authority shares and no command changes.*)
(***************************************************************************)
EXTENDS Naturals, Sequences, FiniteSets

CONSTANTS
  Staff,        \* users of the platform's organisation
  Commands,     \* transactions at a time
  MaxCommands,  \* bound: how many commands are begun
  MaxMoves      \* bound: sign-ins, sign-outs and first memberships

Rows == Staff \cup {"platform", "machine"}
Principals == Staff \cup {"root", "machine"}
Roles == {"none", "users", "write"}
UserKinds == {"disable", "enable", "sessions", "erase"}
Kinds == UserKinds \cup {"role", "member", "client"}

ASSUME AuthorityAssumption ==
  /\ Staff \cap {"platform", "machine", "root", "none"} = {} /\ Commands # {}
  /\ MaxCommands \in Nat /\ MaxMoves \in Nat

VARIABLES
  standing,    \* each user: "active", "disabled" or "erased"
  membership,  \* each user's in the platform's organisation: "none", "active" or "revoked"
  role,        \* what entitlements and groups give each user
  signedIn,    \* the users who have a session
  machine,     \* whether the platform's client is enabled
  command,     \* each transaction
  begun,       \* how many have been begun
  moves        \* how many other moves have happened

worldVars == <<standing, membership, role, signedIn, machine>>
vars == <<worldVars, command, begun, moves>>

Lock(row, mode) == [row |-> row, mode |-> mode]
Locks == [row : Rows, mode : {"share", "update"}]

None == "none"
Idle == [at |-> "idle", by |-> None, kind |-> None, user |-> None,
         held |-> {}, next |-> <<>>]

Init ==
  /\ standing = [u \in Staff |-> "active"]
  /\ membership \in [Staff -> {"none", "active"}] /\ role \in [Staff -> Roles]
  /\ signedIn = {u \in Staff : membership[u] = "active"} /\ machine = TRUE
  /\ command = [c \in Commands |-> Idle] /\ begun = 0 /\ moves = 0

(***************************************************************************)
(* Locks                                                                   *)
(***************************************************************************)
Excludes(held, lock) == held.row = lock.row /\ "update" \in {held.mode, lock.mode}

Blockers(c, lock) == {d \in Commands \ {c} : \E held \in command[d].held : Excludes(held, lock)}

Locking(c) == command[c].at \in {"authority", "body"} /\ command[c].next # <<>>
WaitsFor(c) == IF Locking(c) THEN Blockers(c, Head(command[c].next)) ELSE {}

\* Commands that wait for each other in a circle, which has nobody it can do without.
WaitInside(cs) == cs # {} /\ \A c \in cs : WaitsFor(c) \cap cs # {}
Deadlocked(cs) == WaitInside(cs) /\ \A ds \in (SUBSET cs) \ {cs} : ~WaitInside(ds)

\* A change that is no command waits for those who hold the row.
Untouched(row, mode) == \A c \in Commands : \A held \in command[c].held :
                          ~Excludes(held, Lock(row, mode))

(***************************************************************************)
(* Authority                                                               *)
(***************************************************************************)
Writer(u) == standing[u] = "active" /\ membership[u] = "active" /\ role[u] = "write"
Signed(u) == standing[u] = "active" /\ u \in signedIn
hasPlatformWriter == \E u \in Staff : Writer(u)

\* What a kind of command asks for: to change users, or to change anything.
Required(kind) == IF kind \in {"disable", "enable", "sessions", "member"}
                  THEN {"users", "write"} ELSE {"write"}

Authorised(by, kind) ==
  CASE by = "root" -> ~hasPlatformWriter
    [] by = "machine" -> machine
    [] OTHER -> Signed(by) /\ membership[by] = "active" /\ role[by] \in Required(kind)

\* Mutant: the session and its user are read and not locked.
AuthorityLocksOfPolicy(by) ==
  CASE by = "root" -> <<Lock("platform", "update")>>
    [] by = "machine" -> <<Lock("platform", "share"), Lock("machine", "share")>>
    [] OTHER -> <<Lock("platform", "share")>>

AuthorityLocks(by) ==
  CASE by = "root" -> <<Lock("platform", "update")>>
    [] by = "machine" -> <<Lock("platform", "share"), Lock("machine", "share")>>
    [] OTHER -> <<Lock(by, "share"), Lock("platform", "share")>>

\* A member command locks its organisation first, then asks for authority.
FirstLocks(by, kind) ==
  IF kind = "member" THEN <<Lock("platform", "update")>> \o AuthorityLocks(by)
                     ELSE AuthorityLocks(by)

BodyLocks(kind, u) ==
  CASE kind \in UserKinds -> <<Lock(u, "update")>>
    [] kind = "role" -> <<Lock("platform", "update")>>
    [] kind = "client" -> <<Lock("machine", "update")>>
    [] OTHER -> <<>>

(***************************************************************************)
(* A command                                                               *)
(***************************************************************************)
\* A command that locks no user is about whatever user it finds.
Begin(c, by, kind, u) ==
  /\ command[c].at = "idle" /\ begun < MaxCommands /\ begun' = begun + 1
  /\ by \in Staff => by \in signedIn
  /\ u \in IF kind \in UserKinds THEN Staff ELSE {None}
  /\ command' = [command EXCEPT ![c] =
       [at |-> "authority", by |-> by, kind |-> kind, user |-> u,
        held |-> {}, next |-> FirstLocks(by, kind)]]
  /\ UNCHANGED <<worldVars, moves>>

\* The session is read with its lock: who has none is refused before any other lock.
Unsigned(c) == LET by == command[c].by IN
  command[c].at = "authority" /\ by \in Staff /\ Lock(by, "share") \in command[c].held /\ ~Signed(by)

Acquire(c) ==
  /\ Locking(c) /\ WaitsFor(c) = {} /\ ~Unsigned(c)
  /\ command' = [command EXCEPT ![c].held = @ \cup {Head(command[c].next)},
                                ![c].next = Tail(@)]
  /\ UNCHANGED <<worldVars, begun, moves>>

authorizeCommand(c) ==
  LET x == command[c] IN
  /\ x.at = "authority" /\ x.next = <<>> /\ Authorised(x.by, x.kind)
  /\ command' = [command EXCEPT ![c].at = "body", ![c].next = BodyLocks(x.kind, x.user)]
  /\ UNCHANGED <<worldVars, begun, moves>>

End(c) == command' = [command EXCEPT ![c] = Idle]

Refuse(c) ==
  LET x == command[c] IN
  /\ x.at = "authority" /\ End(c)
  /\ Unsigned(c) \/ (x.next = <<>> /\ ~Authorised(x.by, x.kind))
  /\ UNCHANGED <<worldVars, begun, moves>>

Locked(c) == command[c].at = "body" /\ command[c].next = <<>>
Protects(c) == command[c].kind \in {"disable", "erase"}
LastWriter(u) == Writer(u) /\ \A v \in Staff \ {u} : ~Writer(v)

\* Mutant: a platform writer is looked for without the platform's lock.
protectPlatformUserUnlocked(c) ==
  LET u == command[c].user IN
  /\ Locked(c) /\ Protects(c)
  /\ IF LastWriter(u) THEN End(c)
     ELSE command' = [command EXCEPT ![c].at = "ready"]
  /\ UNCHANGED <<worldVars, begun, moves>>

\* Mutant: the platform's lock is waited for.
protectPlatformUserWaits(c) ==
  LET u == command[c].user  lock == Lock("platform", "update") IN
  /\ Locked(c) /\ Protects(c)
  /\ IF membership[u] # "none" /\ lock \notin command[c].held
     THEN command' = [command EXCEPT ![c].next = <<lock>>]
     ELSE IF LastWriter(u) THEN End(c)
     ELSE command' = [command EXCEPT ![c].at = "ready"]
  /\ UNCHANGED <<worldVars, begun, moves>>

\* Asked under the user's lock: whether to lock the platform, never waiting for it, and then
\* whether another writer remains.  What cannot be locked at once fails the command.
protectPlatformUser(c) ==
  LET u == command[c].user  lock == Lock("platform", "update") IN
  /\ Locked(c) /\ Protects(c)
  /\ IF membership[u] = "none" THEN command' = [command EXCEPT ![c].at = "ready"]
     ELSE IF Blockers(c, lock) # {} \/ LastWriter(u) THEN End(c)
     ELSE command' = [command EXCEPT ![c].at = "ready", ![c].held = @ \cup {lock}]
  /\ UNCHANGED <<worldVars, begun, moves>>

CanCommit(c) == command[c].at = "ready" \/ (Locked(c) /\ ~Protects(c))
On(c, kind) == CanCommit(c) /\ command[c].kind = kind /\ End(c) /\ UNCHANGED <<begun, moves>>
Live(u) == standing[u] # "erased"

disableUser(c) ==
  LET u == command[c].user IN
  /\ On(c, "disable") /\ Live(u)
  /\ standing' = [standing EXCEPT ![u] = "disabled"] /\ signedIn' = signedIn \ {u}
  /\ UNCHANGED <<membership, role, machine>>

enableUser(c) ==
  LET u == command[c].user IN
  /\ On(c, "enable") /\ Live(u)
  /\ standing' = [standing EXCEPT ![u] = "active"]
  /\ UNCHANGED <<membership, role, signedIn, machine>>

revokeUserSessions(c) ==
  /\ On(c, "sessions") /\ signedIn' = signedIn \ {command[c].user}
  /\ UNCHANGED <<standing, membership, role, machine>>

eraseUser(c) ==
  LET u == command[c].user IN
  /\ On(c, "erase") /\ Live(u)
  /\ standing' = [standing EXCEPT ![u] = "erased"] /\ signedIn' = signedIn \ {u}
  /\ membership' = [membership EXCEPT ![u] = IF @ = "none" THEN @ ELSE "revoked"]
  /\ role' = [role EXCEPT ![u] = "none"]
  /\ UNCHANGED machine

\* An entitlement, a group or a capability of the platform's organisation.
assign(c, u, value) ==
  /\ On(c, "role") /\ role' = [role EXCEPT ![u] = value]
  /\ UNCHANGED <<standing, membership, signedIn, machine>>

changeMember(c, u) ==
  /\ On(c, "member") /\ Live(u) /\ membership[u] # "none"
  /\ \/ membership' = [membership EXCEPT ![u] = "active"] /\ UNCHANGED role
     \/ membership' = [membership EXCEPT ![u] = "revoked"] /\ role' = [role EXCEPT ![u] = "none"]
  /\ UNCHANGED <<standing, signedIn, machine>>

setClientDisabled(c) ==
  /\ On(c, "client") /\ machine' = ~machine
  /\ UNCHANGED <<standing, membership, role, signedIn>>

\* Refused by what it finds, a statement's failure, its time limit or a lost connection.
Fail(c) ==
  /\ command[c].at # "idle" /\ End(c)
  /\ UNCHANGED <<worldVars, begun, moves>>

\* PostgreSQL ends one transaction of those that wait for each other.
DetectDeadlock ==
  /\ \E cs \in SUBSET Commands : Deadlocked(cs) /\ \E c \in cs : End(c)
  /\ UNCHANGED <<worldVars, begun, moves>>

(***************************************************************************)
(* Sign-in and sign-out                                                    *)
(***************************************************************************)
Move == moves < MaxMoves /\ moves' = moves + 1 /\ UNCHANGED <<command, begun>>

\* Its insert of a first membership refers to the user and the organisation.
provisionMembership(u) ==
  /\ Move /\ standing[u] = "active" /\ membership[u] = "none"
  /\ Untouched(u, "share") /\ Untouched("platform", "share")
  /\ membership' = [membership EXCEPT ![u] = "active"] /\ signedIn' = signedIn \cup {u}
  /\ UNCHANGED <<standing, role, machine>>

SignIn(u) ==
  /\ Move /\ standing[u] = "active" /\ membership[u] = "active" /\ Untouched(u, "share")
  /\ signedIn' = signedIn \cup {u}
  /\ UNCHANGED <<standing, membership, role, machine>>

SignOut(u) ==
  /\ Move /\ u \in signedIn
  /\ \A c \in Commands : command[c].by = u => Lock(u, "share") \notin command[c].held
  /\ signedIn' = signedIn \ {u}
  /\ UNCHANGED <<standing, membership, role, machine>>

Step(c) ==
  \/ Acquire(c) \/ authorizeCommand(c) \/ Refuse(c) \/ protectPlatformUser(c)
  \/ disableUser(c) \/ enableUser(c) \/ revokeUserSessions(c) \/ eraseUser(c)
  \/ setClientDisabled(c)
  \/ \E u \in Staff : changeMember(c, u) \/ \E value \in Roles : assign(c, u, value)

Next ==
  \/ \E c \in Commands, by \in Principals, kind \in Kinds, u \in Staff \cup {None} :
       Begin(c, by, kind, u)
  \/ \E c \in Commands : Step(c) \/ Fail(c)
  \/ DetectDeadlock
  \/ \E u \in Staff : provisionMembership(u) \/ SignIn(u) \/ SignOut(u)

Spec == Init /\ [][Next]_vars

(***************************************************************************)
(* Properties                                                              *)
(***************************************************************************)
CommandType ==
  [at : {"idle", "authority", "body", "ready"}, by : Principals \cup {None},
   kind : Kinds \cup {None}, user : Staff \cup {None}, held : SUBSET Locks, next : Seq(Locks)]

\* Every variable keeps its type.
TypeOK ==
  /\ standing \in [Staff -> {"active", "disabled", "erased"}]
  /\ membership \in [Staff -> {"none", "active", "revoked"}] /\ role \in [Staff -> Roles]
  /\ signedIn \subseteq Staff /\ machine \in BOOLEAN
  /\ command \in [Commands -> CommandType]
  /\ begun \in 0..MaxCommands /\ moves \in 0..MaxMoves

Commits(c) == command[c].at # "idle" /\ command'[c].at = "idle" /\ worldVars' # worldVars

\* A command commits under an authority that still stands then, however long it waited after it
\* was asked: no other command ends the session, the user, the membership, the role or the client
\* it rests on in between, and root commits nothing beside a platform writer.
AuthorityLastsToTheCommit ==
  [][\A c \in Commands : Commits(c) => Authorised(command[c].by, command[c].kind)]_vars

\* Disabling or erasing users never takes the last platform writer away, whoever is disabled by
\* whom at the same time, and whoever joins meanwhile.
LastWriterStays ==
  [][\A c \in Commands : Commits(c) /\ Protects(c) /\ hasPlatformWriter => hasPlatformWriter']_vars

\* Which commands PostgreSQL may have to end for waiting in a circle: none that holds the user it
\* changes, and none that still asks for its authority, unless root is in the circle.
AuthorityDoesNotDeadlock ==
  \A cs \in SUBSET Commands : Deadlocked(cs) =>
    /\ \A c \in cs : Lock(command[c].user, "update") \notin command[c].held
    /\ \/ \E c \in cs : command[c].by = "root"
       \/ \A c \in cs : command[c].at = "body"

(***************************************************************************)
(* Why they hold: every command past its authority has locked what that    *)
(* rests on, shared, and whoever would change a row locks it alone.        *)
(***************************************************************************)
Elements(s) == {s[i] : i \in DOMAIN s}
Past(c) == command[c].at \in {"body", "ready"}

CommandsAreNamed == \A c \in Commands : command[c].at # "idle" =>
  /\ command[c].by \in Principals /\ command[c].kind \in Kinds
  /\ command[c].kind \in UserKinds <=> command[c].user \in Staff

LocksExclude == \A c, d \in Commands : c # d =>
  \A h \in command[c].held, k \in command[d].held : ~Excludes(h, k)

\* A lock of the list is held or still to be taken, and all are held before the next thing.
LocksAreTaken == \A c \in Commands : LET x == command[c] IN
  /\ x.at = "authority" => Elements(FirstLocks(x.by, x.kind)) \subseteq x.held \cup Elements(x.next)
  /\ Past(c) => Elements(FirstLocks(x.by, x.kind)) \subseteq x.held
  /\ x.at = "body" => Elements(BodyLocks(x.kind, x.user)) \subseteq x.held \cup Elements(x.next)
  /\ x.at = "ready" => Elements(BodyLocks(x.kind, x.user)) \subseteq x.held /\ Protects(c)

AuthorityStands == \A c \in Commands : Past(c) => Authorised(command[c].by, command[c].kind)

\* A user outside the platform is no writer; of another, the platform's lock keeps all writers.
WriterChecked == \A c \in Commands : command[c].at = "ready" =>
  LET u == command[c].user IN
  \/ membership[u] = "none"
  \/ Lock("platform", "update") \in command[c].held /\ ~LastWriter(u)

Inv == /\ TypeOK /\ CommandsAreNamed /\ LocksExclude /\ LocksAreTaken
       /\ AuthorityStands /\ WriterChecked

\* Only what is needed is locked, and, but by root, nothing alone after a share: a command that
\* waits for its authority holds at most the platform alone, and that from its very first step.
LocksAreNeeded == \A c \in Commands : LET x == command[c] IN
  /\ x.at = "authority" =>
       /\ x.held \cup Elements(x.next) \subseteq Elements(FirstLocks(x.by, x.kind))
       /\ \/ x.by = "root"
          \/ x.held = {} /\ x.next = FirstLocks(x.by, x.kind)
          \/ \A lock \in Elements(x.next) : lock.mode = "share"
  /\ x.at = "body" /\ x.next # <<>> =>
       x.held \subseteq Elements(FirstLocks(x.by, x.kind)) /\ x.next = BodyLocks(x.kind, x.user)
===============================================================================
