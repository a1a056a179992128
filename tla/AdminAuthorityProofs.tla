------------------------- MODULE AdminAuthorityProofs -------------------------
(***************************************************************************)
(* What a command rests on, for any number of staff and of transactions at *)
(* once.  Two locks of one row exclude each other unless both are shared;  *)
(* whoever is past its authority holds a share of every row that it rests  *)
(* on, and of the platform at least a share, so that a command that holds  *)
(* the platform alone is the only one past its authority.  What remains is *)
(* that a command that changes a row holds it alone.                       *)
(***************************************************************************)
EXTENDS AdminAuthority, TLAPS

LEMMA NamesDiffer ==
  /\ "none" \notin Staff /\ "root" \notin Staff /\ "machine" \notin Staff /\ "platform" \notin Staff
  /\ None \notin Staff
BY AuthorityAssumption DEF None

(***************************************************************************)
(* Lists of locks                                                          *)
(***************************************************************************)
LEMMA LocksOfRows ==
  ASSUME NEW row \in Rows, NEW mode \in {"share", "update"}
  PROVE  Lock(row, mode) \in Locks
BY DEF Lock, Locks

LEMMA EmptyHasNone == Elements(<<>>) = {}
BY DEF Elements

\* The first of what is left, and the rest, are all of it.
LEMMA HeadAndTail ==
  ASSUME NEW s \in Seq(Locks), s # <<>>
  PROVE  Head(s) \in Locks /\ Tail(s) \in Seq(Locks) /\ Elements(s) \subseteq {Head(s)} \cup Elements(Tail(s))
<1>1. Head(s) \in Locks /\ Tail(s) \in Seq(Locks)
  OBVIOUS
<1>2. ASSUME NEW i \in DOMAIN s, i # 1  PROVE s[i] \in Elements(Tail(s))
  <2>1. i \in 1 .. Len(s) /\ i - 1 \in 1 .. Len(Tail(s)) /\ Tail(s)[i - 1] = s[i]
    BY <1>2
  <2> QED BY <2>1, <1>1 DEF Elements
<1>3. s[1] = Head(s)
  OBVIOUS
<1> QED BY <1>1, <1>2, <1>3 DEF Elements

LEMMA OneLock ==
  ASSUME NEW a \in Locks
  PROVE  <<a>> \in Seq(Locks) /\ Elements(<<a>>) = {a}
BY DEF Elements

LEMMA TwoLocks ==
  ASSUME NEW a \in Locks, NEW b \in Locks
  PROVE  <<a, b>> \in Seq(Locks) /\ Elements(<<a, b>>) = {a, b}
<1>1. DOMAIN <<a, b>> = {1, 2}
  OBVIOUS
<1> QED BY <1>1 DEF Elements

LEMMA OneBefore ==
  ASSUME NEW a \in Locks, NEW s \in Seq(Locks)
  PROVE  <<a>> \o s \in Seq(Locks) /\ Elements(<<a>> \o s) = {a} \cup Elements(s)
<1> DEFINE t == <<a>> \o s
<1>1. t \in Seq(Locks) /\ Len(t) = Len(s) + 1 /\ t[1] = a
  OBVIOUS
<1>2. \A i \in 1 .. Len(s) : t[i + 1] = s[i]
  OBVIOUS
<1>3. \A i \in 2 .. Len(t) : i - 1 \in 1 .. Len(s) /\ t[i] = s[i - 1]
  BY <1>1
<1>4. DOMAIN t = 1 .. Len(t) /\ DOMAIN s = 1 .. Len(s) /\ Len(s) \in Nat
  BY <1>1
<1>5. Elements(t) \subseteq {a} \cup Elements(s)
  BY <1>1, <1>3, <1>4 DEF Elements
<1>6. {a} \cup Elements(s) \subseteq Elements(t)
  <2>1. a \in Elements(t)
    BY <1>1, <1>4 DEF Elements
  <2>2. ASSUME NEW i \in DOMAIN s  PROVE s[i] \in Elements(t)
    <3>1. i + 1 \in DOMAIN t /\ t[i + 1] = s[i]
      BY <1>1, <1>2, <1>4
    <3> QED BY <3>1 DEF Elements
  <2> QED BY <2>1, <2>2 DEF Elements
<1> QED BY <1>1, <1>5, <1>6

\* Every authority locks the platform, and what its principal is.
LEMMA AuthorityLocksAre ==
  ASSUME NEW by \in Principals
  PROVE  /\ AuthorityLocks(by) \in Seq(Locks)
         /\ by = "root" => Elements(AuthorityLocks(by)) = {Lock("platform", "update")}
         /\ by = "machine" => Elements(AuthorityLocks(by)) = {Lock("platform", "share"), Lock("machine", "share")}
         /\ by \in Staff => Elements(AuthorityLocks(by)) = {Lock(by, "share"), Lock("platform", "share")}
<1>1. /\ Lock("platform", "update") \in Locks /\ Lock("platform", "share") \in Locks
      /\ Lock("machine", "share") \in Locks /\ (by \in Staff => Lock(by, "share") \in Locks)
  BY LocksOfRows DEF Rows
<1>2. CASE by = "root"
  BY <1>1, <1>2, OneLock, NamesDiffer DEF AuthorityLocks
<1>3. CASE by = "machine"
  BY <1>1, <1>3, TwoLocks, NamesDiffer DEF AuthorityLocks
<1>4. CASE by \in Staff
  <2>1. AuthorityLocks(by) = <<Lock(by, "share"), Lock("platform", "share")>>
    BY <1>4, NamesDiffer DEF AuthorityLocks
  <2> QED BY <1>1, <1>4, <2>1, TwoLocks, NamesDiffer
<1> QED BY <1>2, <1>3, <1>4 DEF Principals

LEMMA FirstLocksAre ==
  ASSUME NEW by \in Principals, NEW kind \in Kinds
  PROVE  /\ FirstLocks(by, kind) \in Seq(Locks)
         /\ Elements(AuthorityLocks(by)) \subseteq Elements(FirstLocks(by, kind))
         /\ kind = "member" => Lock("platform", "update") \in Elements(FirstLocks(by, kind))
<1>1. Lock("platform", "update") \in Locks
  BY LocksOfRows DEF Rows
<1>2. CASE kind = "member"
  BY <1>1, <1>2, OneBefore, AuthorityLocksAre DEF FirstLocks
<1>3. CASE kind # "member"
  BY <1>3, AuthorityLocksAre DEF FirstLocks
<1> QED BY <1>2, <1>3

LEMMA BodyLocksAre ==
  ASSUME NEW kind \in Kinds, NEW u, kind \in UserKinds => u \in Staff
  PROVE  /\ BodyLocks(kind, u) \in Seq(Locks)
         /\ kind \in UserKinds => Elements(BodyLocks(kind, u)) = {Lock(u, "update")}
         /\ kind = "role" => Elements(BodyLocks(kind, u)) = {Lock("platform", "update")}
         /\ kind = "client" => Elements(BodyLocks(kind, u)) = {Lock("machine", "update")}
<1>1. /\ Lock("platform", "update") \in Locks /\ Lock("machine", "update") \in Locks
      /\ u \in Staff => Lock(u, "update") \in Locks
  BY LocksOfRows DEF Rows
<1>2. CASE kind \in UserKinds
  BY <1>1, <1>2, OneLock DEF BodyLocks, UserKinds
<1>3. CASE kind = "role"
  BY <1>1, <1>3, OneLock DEF BodyLocks, UserKinds
<1>4. CASE kind = "client"
  BY <1>1, <1>4, OneLock DEF BodyLocks, UserKinds
<1>5. CASE kind \notin UserKinds \cup {"role", "client"}
  BY <1>5 DEF BodyLocks
<1> QED BY <1>2, <1>3, <1>4, <1>5 DEF UserKinds

(***************************************************************************)
(* What the locks exclude                                                  *)
(***************************************************************************)
\* A row is not locked alone by one command and at all by another.
LEMMA Alone ==
  ASSUME LocksExclude, NEW c \in Commands, NEW d \in Commands, c # d, NEW row, NEW mode,
         Lock(row, "update") \in command[c].held
  PROVE  Lock(row, mode) \notin command[d].held
BY DEF LocksExclude, Excludes, Lock

\* What a command past its authority holds.
LEMMA PastHolds ==
  ASSUME Inv, NEW c \in Commands, Past(c)
  PROVE  /\ command[c].by \in Principals /\ command[c].kind \in Kinds
         /\ command[c].by = "root" => Lock("platform", "update") \in command[c].held
         /\ command[c].by # "root" => Lock("platform", "share") \in command[c].held
         /\ command[c].by = "machine" => Lock("machine", "share") \in command[c].held
         /\ command[c].by \in Staff => Lock(command[c].by, "share") \in command[c].held
         /\ command[c].kind = "member" => Lock("platform", "update") \in command[c].held
<1> DEFINE x == command[c]
<1>1. x.by \in Principals /\ x.kind \in Kinds
  BY DEF Inv, CommandsAreNamed, Past
<1>2. Elements(FirstLocks(x.by, x.kind)) \subseteq x.held
  BY DEF Inv, LocksAreTaken
<1>3. /\ Elements(AuthorityLocks(x.by)) \subseteq x.held
      /\ x.kind = "member" => Lock("platform", "update") \in x.held
  BY <1>1, <1>2, FirstLocksAre
<1> QED BY <1>1, <1>3, AuthorityLocksAre DEF Principals

\* Who holds the platform alone is the only command past its authority.
LEMMA PlatformIsAlone ==
  ASSUME Inv, NEW c \in Commands, NEW d \in Commands, c # d, Past(d),
         Lock("platform", "update") \in command[c].held
  PROVE  FALSE
<1>1. LocksExclude
  BY DEF Inv
<1> QED BY <1>1, Alone, PastHolds

\* A command that is about to take effect holds what it changes.
LEMMA BodyHolds ==
  ASSUME Inv, NEW c \in Commands, Locked(c) \/ command[c].at = "ready"
  PROVE  LET x == command[c] IN
         /\ Past(c) /\ x.next \in Seq(Locks)
         /\ x.kind \in UserKinds => x.user \in Staff /\ Lock(x.user, "update") \in x.held
         /\ x.kind = "role" => Lock("platform", "update") \in x.held
         /\ x.kind = "client" => Lock("machine", "update") \in x.held
<1> DEFINE x == command[c]
<1>1. Past(c)
  BY DEF Locked, Past
<1>2. x \in CommandType
  BY DEF Inv, TypeOK
<1>3. x.kind \in Kinds /\ (x.kind \in UserKinds <=> x.user \in Staff)
  BY <1>1 DEF Inv, CommandsAreNamed, Past
<1>4. Elements(BodyLocks(x.kind, x.user)) \subseteq x.held
  <2>1. CASE Locked(c)
    BY <2>1, EmptyHasNone DEF Inv, LocksAreTaken, Locked
  <2>2. CASE x.at = "ready"
    BY <2>2 DEF Inv, LocksAreTaken
  <2> QED BY <2>1, <2>2
<1>5. x.next \in Seq(Locks)
  BY <1>2 DEF CommandType
<1> QED BY <1>1, <1>3, <1>4, <1>5, BodyLocksAre

LEMMA ReadyHolds ==
  ASSUME Inv, NEW c \in Commands, command[c].at = "ready"
  PROVE  /\ Past(c) /\ Protects(c) /\ command[c].user \in Staff
         /\ Lock(command[c].user, "update") \in command[c].held
<1>1. Protects(c)
  BY DEF Inv, LocksAreTaken
<1>2. command[c].kind \in UserKinds
  BY <1>1 DEF Protects, UserKinds
<1> QED BY <1>1, <1>2, BodyHolds

(***************************************************************************)
(* The locks of a step                                                     *)
(***************************************************************************)
LockInv == command \in [Commands -> CommandType] /\ CommandsAreNamed /\ LocksExclude /\ LocksAreTaken

\* A command that ends leaves nothing behind.
LEMMA EndKeepsLocks ==
  ASSUME LockInv, NEW c \in Commands, End(c)
  PROVE  LockInv'
<1>1. Idle \in CommandType
  BY DEF Idle, CommandType, None
<1>2. /\ command'[c] = Idle /\ \A d \in Commands \ {c} : command'[d] = command[d]
      /\ command' \in [Commands -> CommandType]
  BY <1>1 DEF LockInv, End
<1>3. CommandsAreNamed'
  BY <1>2 DEF LockInv, CommandsAreNamed, Idle
<1>4. LocksExclude'
  BY <1>2 DEF LockInv, LocksExclude, Idle
<1>5. LocksAreTaken'
  <2>1. ASSUME NEW d \in Commands, d # c  PROVE Past(d)' = Past(d) /\ Protects(d)' = Protects(d)
    BY <2>1, <1>2 DEF Past, Protects
  <2>2. ~Past(c)' /\ command'[c].at = "idle"
    BY <1>2 DEF Past, Idle
  <2> QED BY <1>2, <2>1, <2>2 DEF LockInv, LocksAreTaken
<1> QED BY <1>2, <1>3, <1>4, <1>5 DEF LockInv

LEMMA BeginKeepsLocks ==
  ASSUME LockInv, NEW c \in Commands, NEW by \in Principals, NEW kind \in Kinds,
         NEW u \in Staff \cup {None}, Begin(c, by, kind, u)
  PROVE  LockInv'
<1> DEFINE x == [at |-> "authority", by |-> by, kind |-> kind, user |-> u,
                 held |-> {}, next |-> FirstLocks(by, kind)]
<1>0. x \in CommandType
  BY FirstLocksAre DEF CommandType
<1>1. kind \in UserKinds <=> u \in Staff
  BY NamesDiffer DEF Begin
<1>2. command' = [command EXCEPT ![c] = x]
  BY DEF Begin
<1>3. /\ command'[c] = x /\ \A d \in Commands \ {c} : command'[d] = command[d]
      /\ command' \in [Commands -> CommandType]
  BY <1>0, <1>2 DEF LockInv
<1> HIDE DEF x
<1>4. /\ x.at = "authority" /\ x.by = by /\ x.kind = kind /\ x.user = u
      /\ x.held = {} /\ x.next = FirstLocks(by, kind)
  BY DEF x
<1>5. CommandsAreNamed'
  BY <1>1, <1>3, <1>4 DEF LockInv, CommandsAreNamed
<1>6. LocksExclude'
  BY <1>3, <1>4 DEF LockInv, LocksExclude
<1>7. LocksAreTaken'
  <2>1. ASSUME NEW d \in Commands, d # c  PROVE Past(d)' = Past(d) /\ Protects(d)' = Protects(d)
    BY <2>1, <1>3 DEF Past, Protects
  <2>2. ~Past(c)' /\ command'[c].at = "authority"
    BY <1>3, <1>4 DEF Past
  <2> QED BY <1>3, <1>4, <2>1, <2>2 DEF LockInv, LocksAreTaken
<1> QED BY <1>3, <1>5, <1>6, <1>7 DEF LockInv

\* A lock is taken when nobody holds one that it excludes.
LEMMA AcquireKeepsLocks ==
  ASSUME LockInv, NEW c \in Commands, Acquire(c)
  PROVE  LockInv'
<1> DEFINE x == command[c]
           y == [x EXCEPT !.held = @ \cup {Head(x.next)}, !.next = Tail(@)]
<1>1. x \in CommandType /\ x.next \in Seq(Locks) /\ x.next # <<>> /\ x.at \in {"authority", "body"}
  BY DEF LockInv, CommandType, Acquire, Locking
<1>2. /\ Head(x.next) \in Locks /\ Tail(x.next) \in Seq(Locks)
      /\ Elements(x.next) \subseteq {Head(x.next)} \cup Elements(Tail(x.next))
  BY <1>1, HeadAndTail
<1>3. /\ y \in CommandType /\ y.at = x.at /\ y.by = x.by /\ y.kind = x.kind /\ y.user = x.user
      /\ y.held = x.held \cup {Head(x.next)} /\ y.next = Tail(x.next)
  BY <1>1, <1>2 DEF CommandType
<1>4. command' = [command EXCEPT ![c] = y]
  BY DEF Acquire, LockInv
<1>5. /\ command'[c] = y /\ \A d \in Commands \ {c} : command'[d] = command[d]
      /\ command' \in [Commands -> CommandType]
  BY <1>3, <1>4 DEF LockInv
<1>6. \A d \in Commands \ {c} : \A h \in command[d].held : ~Excludes(h, Head(x.next))
  BY DEF Acquire, WaitsFor, Blockers
<1> HIDE DEF y
<1>7. CommandsAreNamed'
  BY <1>3, <1>5 DEF LockInv, CommandsAreNamed
<1>8. LocksExclude'
  <2>1. \A h, k : Excludes(h, k) <=> Excludes(k, h)
    BY DEF Excludes
  <2>2. ASSUME NEW d \in Commands \ {c}, NEW h \in y.held, NEW k \in command[d].held
        PROVE  ~Excludes(h, k)
    BY <1>3, <1>6, <2>1 DEF LockInv, LocksExclude
  <2> QED BY <1>5, <2>1, <2>2 DEF LockInv, LocksExclude
<1>9. LocksAreTaken'
  <2>1. ASSUME NEW d \in Commands, d # c  PROVE Past(d)' = Past(d) /\ Protects(d)' = Protects(d)
    BY <2>1, <1>5 DEF Past, Protects
  <2>2. Past(c)' = Past(c) /\ Protects(c)' = Protects(c)
    BY <1>3, <1>5 DEF Past, Protects
  <2>3. \A needed : needed \subseteq x.held \cup Elements(x.next) =>
          needed \subseteq y.held \cup Elements(y.next)
    BY <1>2, <1>3
  <2>4. x.held \subseteq y.held
    BY <1>3
  <2> QED BY <1>1, <1>3, <1>5, <2>1, <2>2, <2>3, <2>4 DEF LockInv, LocksAreTaken
<1> QED BY <1>5, <1>7, <1>8, <1>9 DEF LockInv

LEMMA authorizeKeepsLocks ==
  ASSUME LockInv, NEW c \in Commands, authorizeCommand(c)
  PROVE  LockInv'
<1> DEFINE x == command[c]
           y == [x EXCEPT !.at = "body", !.next = BodyLocks(x.kind, x.user)]
<1>1. x \in CommandType /\ x.at = "authority" /\ x.next = <<>>
  BY DEF LockInv, authorizeCommand
<1>2. x.by \in Principals /\ x.kind \in Kinds /\ (x.kind \in UserKinds <=> x.user \in Staff)
  BY <1>1 DEF LockInv, CommandsAreNamed
<1>3. BodyLocks(x.kind, x.user) \in Seq(Locks)
  BY <1>2, BodyLocksAre
<1>4. /\ y \in CommandType /\ y.at = "body" /\ y.by = x.by /\ y.kind = x.kind /\ y.user = x.user
      /\ y.held = x.held /\ y.next = BodyLocks(x.kind, x.user)
  BY <1>1, <1>3 DEF CommandType
<1>5. command' = [command EXCEPT ![c] = y]
  BY DEF authorizeCommand, LockInv
<1>6. /\ command'[c] = y /\ \A d \in Commands \ {c} : command'[d] = command[d]
      /\ command' \in [Commands -> CommandType]
  BY <1>4, <1>5 DEF LockInv
<1> HIDE DEF y
<1>7. CommandsAreNamed'
  BY <1>1, <1>2, <1>4, <1>6 DEF LockInv, CommandsAreNamed
<1>8. LocksExclude'
  BY <1>4, <1>6 DEF LockInv, LocksExclude
<1>9. LocksAreTaken'
  <2>1. ASSUME NEW d \in Commands, d # c  PROVE Past(d)' = Past(d) /\ Protects(d)' = Protects(d)
    BY <2>1, <1>6 DEF Past, Protects
  <2>2. Elements(FirstLocks(x.by, x.kind)) \subseteq x.held
    BY <1>1, EmptyHasNone DEF LockInv, LocksAreTaken
  <2> QED BY <1>4, <1>6, <2>1, <2>2 DEF LockInv, LocksAreTaken
<1> QED BY <1>6, <1>7, <1>8, <1>9 DEF LockInv

\* The last of what may be locked is the platform, when nobody else holds any of it.
LEMMA protectKeepsLocks ==
  ASSUME LockInv, NEW c \in Commands, protectPlatformUser(c)
  PROVE  LockInv'
<1> DEFINE x == command[c]
           lock == Lock("platform", "update")
<1>1. CASE End(c)
  BY <1>1, EndKeepsLocks
<1>2. ASSUME NEW held, command' = [command EXCEPT ![c].at = "ready", ![c].held = held],
             held \subseteq x.held \cup {lock}, x.held \subseteq held,
             lock \in held \ x.held => Blockers(c, lock) = {}
      PROVE  LockInv'
  <2> DEFINE y == [x EXCEPT !.at = "ready", !.held = held]
  <2>1. x \in CommandType /\ x.at = "body" /\ x.next = <<>> /\ Protects(c)
    BY DEF LockInv, protectPlatformUser, Locked
  <2>2. lock \in Locks
    BY LocksOfRows DEF Rows
  <2>3. /\ y \in CommandType /\ y.at = "ready" /\ y.by = x.by /\ y.kind = x.kind
        /\ y.user = x.user /\ y.held = held /\ y.next = x.next
    BY <1>2, <2>1, <2>2 DEF CommandType
  <2>4. command' = [command EXCEPT ![c] = y]
    BY <1>2 DEF LockInv
  <2>5. /\ command'[c] = y /\ \A d \in Commands \ {c} : command'[d] = command[d]
        /\ command' \in [Commands -> CommandType]
    BY <2>3, <2>4 DEF LockInv
  <2> HIDE DEF y, lock
  <2>6. CommandsAreNamed'
    BY <2>1, <2>3, <2>5 DEF LockInv, CommandsAreNamed
  <2>7. LocksExclude'
    <3>1. \A h, k : Excludes(h, k) <=> Excludes(k, h)
      BY DEF Excludes
    <3>2. ASSUME NEW d \in Commands \ {c}, NEW h \in held, NEW k \in command[d].held
          PROVE  ~Excludes(h, k)
      <4>1. CASE h \in x.held
        BY <4>1 DEF LockInv, LocksExclude
      <4>2. CASE h \notin x.held
        BY <1>2, <3>1, <4>2 DEF Blockers
      <4> QED BY <4>1, <4>2
    <3> QED BY <2>3, <2>5, <3>1, <3>2 DEF LockInv, LocksExclude
  <2>8. LocksAreTaken'
    <3>1. ASSUME NEW d \in Commands, d # c  PROVE Past(d)' = Past(d) /\ Protects(d)' = Protects(d)
      BY <3>1, <2>5 DEF Past, Protects
    <3>2. Past(c) /\ Protects(c)'
      BY <2>1, <2>3, <2>5 DEF Past, Protects
    <3>3. /\ Elements(FirstLocks(x.by, x.kind)) \subseteq held
          /\ Elements(BodyLocks(x.kind, x.user)) \subseteq held
      BY <1>2, <2>1, <3>2, EmptyHasNone DEF LockInv, LocksAreTaken
    <3> QED BY <2>3, <2>5, <3>1, <3>2, <3>3 DEF LockInv, LocksAreTaken
  <2> QED BY <2>5, <2>6, <2>7, <2>8 DEF LockInv
<1>3. CASE command' = [command EXCEPT ![c].at = "ready"]
  <2>1. command' = [command EXCEPT ![c].at = "ready", ![c].held = x.held]
    BY <1>3 DEF LockInv, CommandType
  <2> QED BY <1>2, <2>1
<1>4. CASE /\ command' = [command EXCEPT ![c].at = "ready", ![c].held = @ \cup {lock}]
           /\ Blockers(c, lock) = {}
  BY <1>2, <1>4
<1> QED BY <1>1, <1>3, <1>4 DEF protectPlatformUser

(***************************************************************************)
(* The authority of a step                                                 *)
(***************************************************************************)
\* What a change must leave of what command c rests on.
Leaves(c) ==
  LET x == command[c]  by == command[c].by  u == command[c].user IN
  /\ by \in Staff => /\ standing'[by] = standing[by] /\ (by \in signedIn => by \in signedIn')
                     /\ membership'[by] = membership[by] /\ role'[by] = role[by]
  /\ by = "machine" => machine' = machine
  /\ by = "root" \/ Lock("platform", "update") \in x.held =>
       standing' = standing /\ membership' = membership /\ role' = role
  /\ x.at = "ready" /\ membership[u] = "none" => membership'[u] = "none"

\* What stands of a command that is past its authority.
Stands(c) ==
  /\ Past(c) => Authorised(command[c].by, command[c].kind)
  /\ command[c].at = "ready" /\ membership[command[c].user] # "none" =>
       Lock("platform", "update") \in command[c].held /\ ~LastWriter(command[c].user)

LEMMA AllStand == (\A c \in Commands : Stands(c)) <=> AuthorityStands /\ WriterChecked
BY DEF Stands, AuthorityStands, WriterChecked

\* Then what c was found to be allowed, and whom it left as a writer, stay so.
LEMMA LeavesKeeps ==
  ASSUME Inv, NEW c \in Commands, command'[c] = command[c], Past(c), Leaves(c)
  PROVE  Stands(c)'
<1> DEFINE x == command[c]
<1>1. Authorised(x.by, x.kind) /\ x.by \in Principals
  BY PastHolds DEF Inv, AuthorityStands
<1>2. standing' = standing /\ membership' = membership /\ role' = role =>
        /\ \A u : Writer(u)' <=> Writer(u)
        /\ hasPlatformWriter' <=> hasPlatformWriter
  BY DEF Writer, hasPlatformWriter
<1>3. Authorised(x.by, x.kind)'
  <2>1. CASE x.by = "root"
    <3>1. ~hasPlatformWriter
      BY <1>1, <2>1, Zenon DEF Authorised
    <3>2. ~hasPlatformWriter'
      BY <2>1, <3>1, <1>2 DEF Leaves
    <3>3. x'.by = "root"
      BY <2>1
    <3> QED BY <3>2, <2>1, Zenon DEF Authorised
  <2>2. CASE x.by = "machine"
    <3>1. machine
      BY <1>1, <2>2, Zenon DEF Authorised
    <3>2. machine'
      BY <2>2, <3>1 DEF Leaves
    <3> QED BY <3>2, <2>2, Zenon DEF Authorised
  <2>3. CASE x.by \in Staff
    <3>1. x.by # "root" /\ x.by # "machine"
      BY <2>3, NamesDiffer
    <3>2. Signed(x.by) /\ membership[x.by] = "active" /\ role[x.by] \in Required(x.kind)
      BY <1>1, <3>1, Zenon DEF Authorised
    <3>3. Signed(x.by)' /\ membership'[x.by] = "active" /\ role'[x.by] \in Required(x.kind)
      BY <2>3, <3>2 DEF Leaves, Signed
    <3> QED BY <3>1, <3>3, Zenon DEF Authorised, Required
  <2> QED BY <1>1, <2>1, <2>2, <2>3 DEF Principals
<1>4. ASSUME x.at = "ready", membership'[x.user] # "none"
      PROVE  Lock("platform", "update") \in x.held /\ ~LastWriter(x.user)'
  <2>1. membership[x.user] # "none"
    BY <1>4 DEF Leaves
  <2>2. Lock("platform", "update") \in x.held /\ ~LastWriter(x.user)
    BY <1>4, <2>1 DEF Inv, WriterChecked
  <2>3. \A u : Writer(u)' <=> Writer(u)
    BY <1>2, <2>2 DEF Leaves
  <2> QED BY <2>2, <2>3 DEF LastWriter
<1>5. x' = x
  OBVIOUS
<1> QED BY <1>3, <1>4, <1>5 DEF Stands


\* The other commands, when c does something, and those of a step that is no command's.
LEMMA OthersKeep ==
  ASSUME Inv, NEW C \in SUBSET Commands,
         \A d \in C : command'[d] = command[d] /\ (Past(d) => Leaves(d))
  PROVE  \A d \in C : Stands(d)'
<1> TAKE d \in C
<1>1. CASE Past(d)
  BY <1>1, LeavesKeeps
<1>2. CASE ~Past(d)
  BY <1>2 DEF Past, Stands
<1> QED BY <1>1, <1>2

\* What a command that changes a user excludes of the others.
LEMMA UserIsAlone ==
  ASSUME Inv, NEW c \in Commands, NEW d \in Commands, c # d, CanCommit(c), Past(d),
         command[c].kind \in UserKinds
  PROVE  /\ command[c].user \in Staff
         /\ command[d].by # "root" /\ Lock("platform", "update") \notin command[d].held
         /\ command[d].by \in Staff => command[d].by # command[c].user
         /\ command[d].at = "ready" => command[d].user # command[c].user
<1>1. /\ Past(c) /\ command[c].user \in Staff
      /\ Lock(command[c].user, "update") \in command[c].held
  BY BodyHolds DEF CanCommit
<1>2. Lock("platform", "update") \notin command[d].held
  BY <1>1, PlatformIsAlone
<1>3. LocksExclude
  BY DEF Inv
<1>4. \A mode : Lock(command[c].user, mode) \notin command[d].held
  BY <1>1, <1>3, Alone
<1> QED BY <1>1, <1>2, <1>4, PastHolds, ReadyHolds

\* What a command leaves of the others, by what it changes.
LEMMA CommitLeaves ==
  ASSUME Inv, NEW c \in Commands, NEW d \in Commands, c # d, CanCommit(c), Past(d),
         \/ /\ command[c].kind \in UserKinds /\ machine' = machine
            /\ \A u \in Staff \ {command[c].user} :
                 /\ standing'[u] = standing[u] /\ membership'[u] = membership[u] /\ role'[u] = role[u]
                 /\ u \in signedIn => u \in signedIn'
         \/ command[c].kind \in {"role", "member"}
         \/ /\ command[c].kind = "client"
            /\ UNCHANGED <<standing, membership, role, signedIn>>
  PROVE  Leaves(d)
<1>1. CASE command[c].kind \in UserKinds
  <2>1. /\ command[c].user \in Staff
        /\ command[d].by # "root" /\ Lock("platform", "update") \notin command[d].held
        /\ command[d].by \in Staff => command[d].by # command[c].user
        /\ command[d].at = "ready" => command[d].user # command[c].user
    BY <1>1, UserIsAlone
  <2>2. command[d].at = "ready" => command[d].user \in Staff
    BY ReadyHolds
  <2>3. /\ machine' = machine
        /\ \A u \in Staff \ {command[c].user} :
                 /\ standing'[u] = standing[u] /\ membership'[u] = membership[u] /\ role'[u] = role[u]
                 /\ u \in signedIn => u \in signedIn'
    BY <1>1 DEF UserKinds
  <2> QED BY <2>1, <2>2, <2>3 DEF Leaves
<1>2. CASE command[c].kind \in {"role", "member"}
  <2>1. Past(c) /\ (command[c].kind = "role" => Lock("platform", "update") \in command[c].held)
    BY BodyHolds DEF CanCommit
  <2>2. Lock("platform", "update") \in command[c].held
    BY <1>2, <2>1, PastHolds
  <2> QED BY <2>2, PlatformIsAlone
<1>3. CASE command[c].kind = "client"
  <2>1. Lock("machine", "update") \in command[c].held
    BY <1>3, BodyHolds DEF CanCommit
  <2>2. LocksExclude
    BY DEF Inv
  <2>3. command[d].by # "machine"
    BY <2>1, <2>2, Alone, PastHolds
  <2> QED BY <1>3, <2>3 DEF Leaves, UserKinds
<1> QED BY <1>1, <1>2, <1>3

(***************************************************************************)
(* Each step keeps the invariant                                           *)
(***************************************************************************)
LEMMA InvParts == Inv <=> TypeOK /\ LockInv /\ \A c \in Commands : Stands(c)
BY AllStand DEF Inv, LockInv, TypeOK

LEMMA InvNext ==
  ASSUME TypeOK', LockInv', \A c \in Commands : Stands(c)'
  PROVE  Inv'
<1>1. AuthorityStands' /\ WriterChecked'
  BY DEF Stands, AuthorityStands, WriterChecked
<1> QED BY <1>1 DEF Inv, LockInv

\* One that leaves the world as it is: only its own command has to be looked at.
LEMMA StillWorld ==
  ASSUME Inv, UNCHANGED worldVars, NEW c \in Commands, Stands(c)',
         \A d \in Commands \ {c} : command'[d] = command[d]
  PROVE  \A d \in Commands : Stands(d)'
<1>1. \A d \in Commands \ {c} : Leaves(d)
  BY DEF Leaves, worldVars
<1>2. \A d \in Commands \ {c} : Stands(d)'
  BY <1>1, OthersKeep
<1> QED BY <1>2

LEMMA EndStands ==
  ASSUME Inv, NEW c \in Commands, End(c)
  PROVE  Stands(c)' /\ LockInv' /\ \A d \in Commands \ {c} : command'[d] = command[d]
<1>1. LockInv'
  BY EndKeepsLocks, InvParts
<1>2. command'[c] = Idle /\ \A d \in Commands \ {c} : command'[d] = command[d]
  BY DEF End, Inv, TypeOK
<1> QED BY <1>1, <1>2 DEF Stands, Idle, Past

\* A command that commits has its authority until then, and takes nothing of another's.
LEMMA CommitKeeps ==
  ASSUME Inv, NEW c \in Commands, CanCommit(c), End(c), TypeOK',
         \/ /\ command[c].kind \in UserKinds /\ machine' = machine
            /\ \A u \in Staff \ {command[c].user} :
                 /\ standing'[u] = standing[u] /\ membership'[u] = membership[u] /\ role'[u] = role[u]
                 /\ u \in signedIn => u \in signedIn'
         \/ command[c].kind \in {"role", "member"}
         \/ /\ command[c].kind = "client"
            /\ UNCHANGED <<standing, membership, role, signedIn>>
  PROVE  Inv'
<1>1. Stands(c)' /\ LockInv' /\ \A d \in Commands \ {c} : command'[d] = command[d]
  BY EndStands
<1>2. \A d \in Commands \ {c} : Past(d) => Leaves(d)
  BY CommitLeaves
<1>3. \A d \in Commands \ {c} : Stands(d)'
  BY <1>1, <1>2, OthersKeep
<1>4. \A d \in Commands : Stands(d)'
  BY <1>1, <1>3
<1> QED BY <1>1, <1>4, InvNext

LEMMA EndType ==
  ASSUME TypeOK, NEW c \in Commands, End(c)
  PROVE  command' \in [Commands -> CommandType]
<1>1. Idle \in CommandType
  BY DEF Idle, CommandType, None
<1> QED BY <1>1 DEF TypeOK, End

\* A command that ends and changes nothing: refused, failed, or ended by PostgreSQL.
LEMMA EndKeeps ==
  ASSUME Inv, NEW c \in Commands, End(c), UNCHANGED <<worldVars, begun, moves>>
  PROVE  Inv'
<1>1. TypeOK'
  BY EndType DEF TypeOK, Inv, worldVars
<1>2. Stands(c)' /\ LockInv' /\ \A d \in Commands \ {c} : command'[d] = command[d]
  BY EndStands
<1> QED BY <1>1, <1>2, StillWorld, InvNext

LEMMA BeginKeeps ==
  ASSUME Inv, NEW c \in Commands, NEW by \in Principals, NEW kind \in Kinds,
         NEW u \in Staff \cup {None}, Begin(c, by, kind, u)
  PROVE  Inv'
<1>1. LockInv'
  BY BeginKeepsLocks, InvParts
<1>2. TypeOK'
  BY <1>1, AuthorityAssumption DEF TypeOK, Inv, worldVars, Begin, LockInv
<1>3. \A d \in Commands \ {c} : command'[d] = command[d]
  BY DEF Begin, Inv, TypeOK
<1>4. command'[c].at = "authority"
  BY DEF Begin, Inv, TypeOK
<1>5. Stands(c)'
  BY <1>4 DEF Stands, Past
<1> QED BY <1>1, <1>2, <1>3, <1>5, StillWorld, InvNext DEF Begin

LEMMA AcquireKeeps ==
  ASSUME Inv, NEW c \in Commands, Acquire(c)
  PROVE  Inv'
<1> DEFINE x == command[c]
<1>1. LockInv'
  BY AcquireKeepsLocks, InvParts
<1>2. TypeOK'
  BY <1>1 DEF TypeOK, Inv, worldVars, Acquire, LockInv
<1>3. \A d \in Commands \ {c} : command'[d] = command[d]
  BY DEF Acquire, Inv, TypeOK
<1>4. command'[c].at = x.at /\ command'[c].by = x.by /\ command'[c].kind = x.kind /\ x.at # "ready"
  BY DEF Acquire, Locking, Inv, TypeOK, CommandType
<1>5. Past(c)' <=> Past(c)
  BY <1>4 DEF Past
<1>6. Past(c) => Authorised(command[c].by, command[c].kind)
  BY DEF Inv, AuthorityStands
<1>7. \A by, kind : Authorised(by, kind)' <=> Authorised(by, kind)
  <2>1. /\ hasPlatformWriter' <=> hasPlatformWriter
        /\ \A by : Signed(by)' <=> Signed(by)
    BY DEF Acquire, worldVars, hasPlatformWriter, Writer, Signed
  <2>2. machine' = machine /\ membership' = membership /\ role' = role
    BY DEF Acquire, worldVars
  <2> QED BY <2>1, <2>2, Zenon DEF Authorised, Required
<1>8. Past(c)' => Authorised(command[c].by, command[c].kind)'
  BY <1>4, <1>5, <1>6, <1>7, Zenon
<1>9. Stands(c)'
  BY <1>4, <1>8, Zenon DEF Stands
<1> QED BY <1>1, <1>2, <1>3, <1>9, StillWorld, InvNext DEF Acquire

LEMMA authorizeKeeps ==
  ASSUME Inv, NEW c \in Commands, authorizeCommand(c)
  PROVE  Inv'
<1>1. LockInv'
  BY authorizeKeepsLocks, InvParts
<1>2. TypeOK'
  BY <1>1 DEF TypeOK, Inv, worldVars, authorizeCommand, LockInv
<1>3. /\ \A d \in Commands \ {c} : command'[d] = command[d]
      /\ command'[c].at = "body" /\ command'[c].by = command[c].by /\ command'[c].kind = command[c].kind
  BY DEF authorizeCommand, Inv, TypeOK, CommandType
<1>4. Authorised(command[c].by, command[c].kind)
  BY Zenon DEF authorizeCommand
<1>5. /\ hasPlatformWriter' <=> hasPlatformWriter
      /\ \A by : Signed(by)' <=> Signed(by)
      /\ machine' = machine /\ membership' = membership /\ role' = role
  BY DEF authorizeCommand, worldVars, hasPlatformWriter, Writer, Signed
<1>6. Authorised(command[c].by, command[c].kind)'
  BY <1>3, <1>4, <1>5, Zenon DEF Authorised, Required
<1>7. Stands(c)'
  BY <1>3, <1>6, Zenon DEF Stands
<1> QED BY <1>1, <1>2, <1>3, <1>7, StillWorld, InvNext DEF authorizeCommand

LEMMA protectKeeps ==
  ASSUME Inv, NEW c \in Commands, protectPlatformUser(c)
  PROVE  Inv'
<1> DEFINE x == command[c]  lock == Lock("platform", "update")
<1>1. CASE End(c)
  BY <1>1, EndKeeps DEF protectPlatformUser
<1>2. CASE ~End(c)
  <2>1. LockInv'
    BY protectKeepsLocks, InvParts
  <2>2. TypeOK'
    BY <2>1 DEF TypeOK, Inv, worldVars, protectPlatformUser, LockInv
  <2>3. \/ membership[x.user] = "none" /\ command' = [command EXCEPT ![c].at = "ready"]
        \/ /\ ~LastWriter(x.user)
           /\ command' = [command EXCEPT ![c].at = "ready", ![c].held = @ \cup {lock}]
    BY <1>2 DEF protectPlatformUser
  <2>4. x \in CommandType
    BY DEF Inv, TypeOK
  <2>5. /\ \A d \in Commands \ {c} : command'[d] = command[d]
        /\ command'[c].by = x.by /\ command'[c].kind = x.kind /\ command'[c].user = x.user
        /\ membership[x.user] = "none" \/ (lock \in command'[c].held /\ ~LastWriter(x.user))
    BY <2>3, <2>4 DEF Inv, TypeOK, CommandType
  <2>6. UNCHANGED worldVars
    BY DEF protectPlatformUser
  <2>7. Past(c)
    BY DEF protectPlatformUser, Locked, Past
  <2>8. Authorised(x.by, x.kind)
    BY <2>7, Zenon DEF Inv, AuthorityStands
  <2>9. /\ hasPlatformWriter' <=> hasPlatformWriter
        /\ \A by : Signed(by)' <=> Signed(by)
        /\ \A u : Writer(u)' <=> Writer(u)
        /\ machine' = machine /\ membership' = membership /\ role' = role
    BY <2>6 DEF worldVars, hasPlatformWriter, Writer, Signed
  <2>10. Authorised(command[c].by, command[c].kind)'
    BY <2>5, <2>8, <2>9, Zenon DEF Authorised, Required
  <2>11. \A u : LastWriter(u)' <=> LastWriter(u)
    BY <2>9 DEF LastWriter
  <2>12. membership'[command'[c].user] = "none" \/ (lock \in command'[c].held /\ ~LastWriter(command[c].user)')
    BY <2>5, <2>9, <2>11, Zenon
  <2>13. Stands(c)'
    BY <2>10, <2>12, Zenon DEF Stands
  <2> QED BY <2>1, <2>2, <2>5, <2>6, <2>13, StillWorld, InvNext
<1> QED BY <1>1, <1>2

\* A command of a user changes that user alone.
LEMMA UserCommandsKeep ==
  ASSUME Inv, NEW c \in Commands,
         disableUser(c) \/ enableUser(c) \/ revokeUserSessions(c) \/ eraseUser(c)
  PROVE  Inv'
<1> DEFINE u == command[c].user
<1>1. CanCommit(c) /\ End(c) /\ command[c].kind \in UserKinds /\ UNCHANGED <<begun, moves, machine>>
  BY DEF disableUser, enableUser, revokeUserSessions, eraseUser, On, UserKinds
<1>2. u \in Staff
  BY <1>1, BodyHolds DEF CanCommit
<1>3. TypeOK
  BY DEF Inv
<1>4. command' \in [Commands -> CommandType]
  BY <1>1, <1>3, EndType
<1>5. TypeOK'
  <2>1. CASE disableUser(c) \/ enableUser(c) \/ revokeUserSessions(c)
    BY <1>1, <1>2, <1>3, <1>4, <2>1 DEF TypeOK, disableUser, enableUser, revokeUserSessions
  <2>2. CASE eraseUser(c)
    <3>1. membership' \in [Staff -> {"none", "active", "revoked"}]
      BY <1>2, <1>3, <2>2 DEF TypeOK, eraseUser
    <3>2. role' \in [Staff -> Roles] /\ standing' \in [Staff -> {"active", "disabled", "erased"}]
      BY <1>2, <1>3, <2>2 DEF TypeOK, eraseUser, Roles
    <3> QED BY <1>1, <1>3, <1>4, <2>2, <3>1, <3>2 DEF TypeOK, eraseUser
  <2> QED BY <2>1, <2>2
<1>6. \A v \in Staff \ {u} :
        /\ standing'[v] = standing[v] /\ membership'[v] = membership[v] /\ role'[v] = role[v]
        /\ v \in signedIn => v \in signedIn'
  BY <1>3 DEF TypeOK, disableUser, enableUser, revokeUserSessions, eraseUser
<1> QED BY <1>1, <1>5, <1>6, CommitKeeps

LEMMA OtherCommandsKeep ==
  ASSUME Inv, NEW c \in Commands,
         \/ setClientDisabled(c)
         \/ \E u \in Staff : changeMember(c, u) \/ \E value \in Roles : assign(c, u, value)
  PROVE  Inv'
<1>1. TypeOK
  BY DEF Inv
<1>2. CASE setClientDisabled(c)
  <2>1. CanCommit(c) /\ End(c) /\ command[c].kind = "client"
    BY <1>2 DEF setClientDisabled, On
  <2>2. TypeOK'
    BY <1>1, <1>2, <2>1, EndType DEF TypeOK, setClientDisabled, On
  <2> QED BY <1>2, <2>1, <2>2, CommitKeeps DEF setClientDisabled
<1>3. ASSUME NEW u \in Staff, changeMember(c, u)  PROVE Inv'
  <2>1. CanCommit(c) /\ End(c) /\ command[c].kind = "member"
    BY <1>3 DEF changeMember, On
  <2>2. command' \in [Commands -> CommandType]
    BY <1>1, <2>1, EndType
  <2>3. TypeOK'
    BY <1>1, <1>3, <2>2 DEF TypeOK, changeMember, On, Roles
  <2> QED BY <2>1, <2>3, CommitKeeps
<1>4. ASSUME NEW u \in Staff, NEW value \in Roles, assign(c, u, value)  PROVE Inv'
  <2>1. CanCommit(c) /\ End(c) /\ command[c].kind = "role"
    BY <1>4 DEF assign, On
  <2>2. command' \in [Commands -> CommandType]
    BY <1>1, <2>1, EndType
  <2>3. TypeOK'
    BY <1>1, <1>4, <2>2 DEF TypeOK, assign, On
  <2> QED BY <2>1, <2>3, CommitKeeps
<1> QED BY <1>2, <1>3, <1>4

\* Signing in, and joining, change nothing that a command past its authority rests on.
LEMMA MovesKeep ==
  ASSUME Inv, NEW u \in Staff, provisionMembership(u) \/ SignIn(u) \/ SignOut(u)
  PROVE  Inv'
<1>1. TypeOK /\ LockInv
  BY InvParts DEF Inv
<1>2. command' = command
  BY DEF provisionMembership, SignIn, SignOut, Move
<1>3. LockInv'
  BY <1>1, <1>2 DEF LockInv, CommandsAreNamed, LocksExclude, LocksAreTaken, Past, Protects
<1>4. TypeOK'
  <2>1. begun' = begun /\ moves' \in 0 .. MaxMoves
    BY <1>1, AuthorityAssumption DEF TypeOK, provisionMembership, SignIn, SignOut, Move
  <2> QED BY <1>1, <1>2, <2>1 DEF TypeOK, provisionMembership, SignIn, SignOut
<1>5. ASSUME NEW c \in Commands, Past(c)  PROVE Leaves(c)
  <2> DEFINE x == command[c]
  <2>1. /\ x.by \in Principals
        /\ x.by = "root" => Lock("platform", "update") \in x.held
        /\ x.by \in Staff => Lock(x.by, "share") \in x.held
    BY <1>5, PastHolds
  <2>2. x.at = "ready" => x.user \in Staff /\ Lock(x.user, "update") \in x.held
    BY ReadyHolds
  <2>3. x.by \in Staff => membership[x.by] = "active"
    <3>1. Authorised(x.by, x.kind)
      BY <1>5, Zenon DEF Inv, AuthorityStands
    <3>2. x.by \in Staff => x.by # "root" /\ x.by # "machine"
      BY NamesDiffer
    <3> QED BY <3>1, <3>2, Zenon DEF Authorised
  <2>4. CASE provisionMembership(u)
    <3>1. Lock("platform", "update") \notin x.held /\ Lock(u, "update") \notin x.held
      BY <2>4 DEF provisionMembership, Untouched, Excludes, Lock
    <3>2. membership[u] = "none" /\ membership' = [membership EXCEPT ![u] = "active"]
          /\ signedIn \subseteq signedIn' /\ UNCHANGED <<standing, role, machine>>
      BY <2>4 DEF provisionMembership
    <3> QED BY <1>1, <2>1, <2>2, <2>3, <3>1, <3>2 DEF Leaves, TypeOK
  <2>5. CASE SignIn(u)
    BY <2>5 DEF SignIn, Leaves
  <2>6. CASE SignOut(u)
    <3>1. x.by # u
      BY <2>1, <2>6 DEF SignOut
    <3> QED BY <2>6, <3>1 DEF SignOut, Leaves
  <2> QED BY <2>4, <2>5, <2>6
<1>6. \A c \in Commands : Stands(c)'
  BY <1>2, <1>5, OthersKeep
<1> QED BY <1>3, <1>4, <1>6, InvNext

LEMMA InitInv == Init => Inv
<1> SUFFICES ASSUME Init  PROVE Inv
  OBVIOUS
<1>1. Idle \in CommandType
  BY DEF Idle, CommandType, None
<1>2. TypeOK
  BY <1>1, AuthorityAssumption DEF Init, TypeOK, Roles
<1>3. \A c \in Commands : command[c] = Idle
  BY DEF Init
<1>4. \A c \in Commands : command[c].at = "idle" /\ command[c].held = {}
  BY <1>3 DEF Idle
<1> QED BY <1>2, <1>4 DEF Inv, CommandsAreNamed, LocksExclude, LocksAreTaken, AuthorityStands,
                          WriterChecked, Past

LEMMA StepInv == Inv /\ [Next]_vars => Inv'
<1> SUFFICES ASSUME Inv, [Next]_vars  PROVE Inv'
  OBVIOUS
<1>1. ASSUME NEW c \in Commands, NEW by \in Principals, NEW kind \in Kinds,
             NEW u \in Staff \cup {None}, Begin(c, by, kind, u)
      PROVE  Inv'
  BY <1>1, BeginKeeps
<1>2. ASSUME NEW c \in Commands, Step(c)  PROVE Inv'
  <2>1. CASE Acquire(c)
    BY <2>1, AcquireKeeps
  <2>2. CASE authorizeCommand(c)
    BY <2>2, authorizeKeeps
  <2>3. CASE Refuse(c)
    BY <2>3, EndKeeps DEF Refuse
  <2>4. CASE protectPlatformUser(c)
    BY <2>4, protectKeeps
  <2>5. CASE disableUser(c) \/ enableUser(c) \/ revokeUserSessions(c) \/ eraseUser(c)
    BY <2>5, UserCommandsKeep
  <2>6. CASE \/ setClientDisabled(c)
             \/ \E u \in Staff : changeMember(c, u) \/ \E value \in Roles : assign(c, u, value)
    BY <2>6, OtherCommandsKeep
  <2> QED BY <1>2, <2>1, <2>2, <2>3, <2>4, <2>5, <2>6 DEF Step
<1>3. ASSUME NEW c \in Commands, Fail(c)  PROVE Inv'
  BY <1>3, EndKeeps DEF Fail
<1>4. CASE DetectDeadlock
  <2>1. PICK cs \in SUBSET Commands : \E c \in cs : End(c)
    BY <1>4 DEF DetectDeadlock
  <2> QED BY <1>4, <2>1, EndKeeps DEF DetectDeadlock
<1>5. ASSUME NEW u \in Staff, provisionMembership(u) \/ SignIn(u) \/ SignOut(u)  PROVE Inv'
  BY <1>5, MovesKeep
<1>6. CASE UNCHANGED vars
  <2>1. LockInv' /\ TypeOK'
    BY <1>6, InvParts DEF vars, worldVars, LockInv, TypeOK, CommandsAreNamed, LocksExclude,
                          LocksAreTaken, Past, Protects
  <2>2. \A c \in Commands : command'[c] = command[c] /\ Leaves(c)
    BY <1>6 DEF vars, worldVars, Leaves
  <2>3. \A c \in Commands : Stands(c)'
    BY <2>2, OthersKeep
  <2> QED BY <2>1, <2>3, InvNext
<1> QED BY <1>1, <1>2, <1>3, <1>4, <1>5, <1>6 DEF Next

THEOREM Invariance == Spec => []Inv
BY InitInv, StepInv, PTL DEF Spec

(***************************************************************************)
(* The properties                                                          *)
(***************************************************************************)
\* Every variable keeps its type.
THEOREM AuthorityTypeCorrect == Spec => []TypeOK
<1>1. Inv => TypeOK
  BY DEF Inv
<1> QED BY <1>1, Invariance, PTL

\* Who commits was about to: its locks were taken, its authority was found to stand.
LEMMA CommitsWhatWasReady ==
  ASSUME Inv, Next, NEW c \in Commands, Commits(c)
  PROVE  /\ CanCommit(c)
         /\ Protects(c) => command[c].at = "ready" /\ (disableUser(c) \/ eraseUser(c))
<1>1. command' # command /\ worldVars' # worldVars
  BY DEF Commits
<1>2. ASSUME NEW d \in Commands, Step(d) \/ Fail(d)
      PROVE  /\ CanCommit(d) /\ End(d)
             /\ Protects(d) => command[d].at = "ready" /\ (disableUser(d) \/ eraseUser(d))
  <2>1. \/ disableUser(d) \/ enableUser(d) \/ revokeUserSessions(d) \/ eraseUser(d)
        \/ setClientDisabled(d)
        \/ \E u \in Staff : changeMember(d, u) \/ \E value \in Roles : assign(d, u, value)
    BY <1>1, <1>2 DEF Step, Acquire, authorizeCommand, Refuse, protectPlatformUser, Fail
  <2>2. CanCommit(d) /\ End(d)
    BY <2>1 DEF disableUser, enableUser, revokeUserSessions, eraseUser, setClientDisabled,
                changeMember, assign, On
  <2>3. ASSUME Protects(d)  PROVE disableUser(d) \/ eraseUser(d)
    BY <2>1, <2>3 DEF Protects, On, enableUser, revokeUserSessions, setClientDisabled,
                      changeMember, assign
  <2> QED BY <2>2, <2>3 DEF CanCommit
<1>3. ASSUME NEW d \in Commands, End(d)  PROVE c = d
  <2>1. command' = [command EXCEPT ![d] = Idle] /\ command \in [Commands -> CommandType]
    BY <1>3 DEF End, Inv, TypeOK
  <2> QED BY <2>1 DEF Commits
<1>4. \E d \in Commands : Step(d) \/ Fail(d)
  <2>1. ~ \E d \in Commands, by \in Principals, kind \in Kinds, u \in Staff \cup {None} :
            Begin(d, by, kind, u)
    BY <1>1 DEF Begin
  <2>2. ~DetectDeadlock
    BY <1>1 DEF DetectDeadlock
  <2>3. ~ \E u \in Staff : provisionMembership(u) \/ SignIn(u) \/ SignOut(u)
    BY <1>1 DEF provisionMembership, SignIn, SignOut, Move
  <2> QED BY <2>1, <2>2, <2>3 DEF Next
<1> QED BY <1>2, <1>3, <1>4

\* However long a command waits after it was asked who sent it, and whatever other commands,
\* sign-ins and sign-outs do meanwhile, it takes effect only under an authority that stands.
THEOREM AuthorityLasts == Spec => AuthorityLastsToTheCommit
<1>1. ASSUME Inv, Next, NEW c \in Commands, Commits(c)
      PROVE  Authorised(command[c].by, command[c].kind)
  <2>1. Past(c)
    BY <1>1, CommitsWhatWasReady DEF CanCommit, Locked, Past
  <2> QED BY <1>1, <2>1, Zenon DEF Inv, AuthorityStands
<1>2. ASSUME UNCHANGED vars, NEW c \in Commands, Commits(c)
      PROVE  FALSE
  BY <1>2 DEF vars, Commits
<1>3. Inv /\ [Next]_vars =>
        [\A c \in Commands : Commits(c) => Authorised(command[c].by, command[c].kind)]_vars
  BY <1>1, <1>2, Zenon
<1> QED BY <1>3, Invariance, PTL DEF Spec, AuthorityLastsToTheCommit

\* Whoever is disabled or erased, by however many at once, a platform writer remains where there
\* was one: who locks the platform alone, without waiting, has looked at all of them.
THEOREM WritersRemain == Spec => LastWriterStays
<1>1. ASSUME Inv, Next, NEW c \in Commands, Commits(c), Protects(c), hasPlatformWriter
      PROVE  hasPlatformWriter'
  <2> DEFINE u == command[c].user
  <2>1. command[c].at = "ready" /\ (disableUser(c) \/ eraseUser(c))
    BY <1>1, CommitsWhatWasReady
  <2>2. u \in Staff /\ TypeOK
    BY <1>1, <2>1, ReadyHolds DEF Inv
  <2>3. \A v \in Staff \ {u} : Writer(v)' <=> Writer(v)
    BY <2>1, <2>2 DEF disableUser, eraseUser, Writer, TypeOK
  <2>4. PICK w \in Staff : Writer(w)
    BY <1>1 DEF hasPlatformWriter
  <2>5. \E v \in Staff \ {u} : Writer(v)
    <3>1. CASE membership[u] = "none"
      BY <3>1, <2>4 DEF Writer
    <3>2. CASE ~LastWriter(u)
      BY <3>2, <2>4 DEF LastWriter
    <3> QED BY <1>1, <2>1, <3>1, <3>2 DEF Inv, WriterChecked
  <2> QED BY <2>3, <2>5 DEF hasPlatformWriter
<1>2. ASSUME UNCHANGED vars, NEW c \in Commands, Commits(c)
      PROVE  FALSE
  BY <1>2 DEF vars, Commits
<1>3. Inv /\ [Next]_vars =>
        [\A c \in Commands : Commits(c) /\ Protects(c) /\ hasPlatformWriter => hasPlatformWriter']_vars
  BY <1>1, <1>2, Zenon
<1> QED BY <1>3, Invariance, PTL DEF Spec, LastWriterStays

(***************************************************************************)
(* Waiting in a circle                                                     *)
(***************************************************************************)
LEMMA PartsOfList ==
  ASSUME NEW s \in Seq(Locks), s # <<>>
  PROVE  Head(s) \in Elements(s) /\ Elements(Tail(s)) \subseteq Elements(s)
<1>1. 1 \in DOMAIN s /\ Head(s) = s[1]
  OBVIOUS
<1>2. ASSUME NEW i \in DOMAIN Tail(s)  PROVE Tail(s)[i] \in Elements(s)
  <2>1. i + 1 \in DOMAIN s /\ Tail(s)[i] = s[i + 1]
    BY <1>2
  <2> QED BY <2>1 DEF Elements
<1> QED BY <1>1, <1>2 DEF Elements

\* What is locked for an authority: but by root only shares, and the platform alone first of all.
LEMMA FirstLocksShare ==
  ASSUME NEW by \in Principals, NEW kind \in Kinds, by # "root"
  PROVE  /\ \A lock \in Elements(FirstLocks(by, kind)) :
              lock.mode = "share" \/ (kind = "member" /\ lock = Lock("platform", "update"))
         /\ FirstLocks(by, kind) # <<>>
         /\ \A lock \in Elements(Tail(FirstLocks(by, kind))) : lock.mode = "share"
<1>1. \A lock \in Elements(AuthorityLocks(by)) : lock.mode = "share"
  BY AuthorityLocksAre DEF Lock, Principals
<1>2. AuthorityLocks(by) \in Seq(Locks) /\ AuthorityLocks(by) # <<>>
  <2>1. AuthorityLocks(by) \in Seq(Locks) /\ Elements(AuthorityLocks(by)) # {}
    BY AuthorityLocksAre DEF Principals
  <2> QED BY <2>1, EmptyHasNone
<1>3. CASE kind = "member"
  <2>1. FirstLocks(by, kind) = <<Lock("platform", "update")>> \o AuthorityLocks(by)
    BY <1>3 DEF FirstLocks
  <2>2. Lock("platform", "update") \in Locks
    BY LocksOfRows DEF Rows
  <2>3. Elements(FirstLocks(by, kind)) = {Lock("platform", "update")} \cup Elements(AuthorityLocks(by))
    BY <1>2, <2>1, <2>2, OneBefore
  <2>4. FirstLocks(by, kind) # <<>> /\ Tail(FirstLocks(by, kind)) = AuthorityLocks(by)
    BY <1>2, <2>1, <2>2
  <2> QED BY <1>1, <1>3, <2>3, <2>4
<1>4. CASE kind # "member"
  <2>1. FirstLocks(by, kind) = AuthorityLocks(by)
    BY <1>4 DEF FirstLocks
  <2> QED BY <1>1, <1>2, <2>1, PartsOfList
<1> QED BY <1>3, <1>4

LEMMA BodyLocksAreOne ==
  ASSUME NEW kind \in Kinds, NEW u, BodyLocks(kind, u) # <<>>
  PROVE  Tail(BodyLocks(kind, u)) = <<>> /\ kind # "member"
<1>1. \A a : Tail(<<a>>) = <<>>
  OBVIOUS
<1>2. CASE kind \in UserKinds
  <2>1. BodyLocks(kind, u) = <<Lock(u, "update")>>
    BY <1>2 DEF BodyLocks, UserKinds
  <2> QED BY <1>1, <1>2, <2>1 DEF UserKinds
<1>3. CASE kind = "role"
  <2>1. BodyLocks(kind, u) = <<Lock("platform", "update")>>
    BY <1>3 DEF BodyLocks, UserKinds
  <2> QED BY <1>1, <1>3, <2>1
<1>4. CASE kind = "client"
  <2>1. BodyLocks(kind, u) = <<Lock("machine", "update")>>
    BY <1>4 DEF BodyLocks, UserKinds
  <2> QED BY <1>1, <1>4, <2>1
<1>5. CASE kind \notin UserKinds \cup {"role", "client"}
  BY <1>5 DEF BodyLocks
<1> QED BY <1>2, <1>3, <1>4, <1>5

\* One command's part of LocksAreNeeded.
Needed(x) ==
  /\ x.at = "authority" =>
       /\ x.held \cup Elements(x.next) \subseteq Elements(FirstLocks(x.by, x.kind))
       /\ \/ x.by = "root"
          \/ x.held = {} /\ x.next = FirstLocks(x.by, x.kind)
          \/ \A lock \in Elements(x.next) : lock.mode = "share"
  /\ x.at = "body" /\ x.next # <<>> =>
       x.held \subseteq Elements(FirstLocks(x.by, x.kind)) /\ x.next = BodyLocks(x.kind, x.user)

LEMMA AllNeeded ==
  /\ LocksAreNeeded <=> \A c \in Commands : Needed(command[c])
  /\ LocksAreNeeded' <=> \A c \in Commands : Needed(command'[c])
BY DEF LocksAreNeeded, Needed

LEMMA AcquireIsNeeded ==
  ASSUME Inv, LocksAreNeeded, NEW c \in Commands, Acquire(c)
  PROVE  Needed(command'[c])
<1> DEFINE x == command[c]  y == command'[c]
<1>1. x \in CommandType /\ x.next \in Seq(Locks) /\ x.next # <<>> /\ x.at \in {"authority", "body"}
  BY DEF Inv, TypeOK, CommandType, Acquire, Locking
<1>2. /\ y.at = x.at /\ y.by = x.by /\ y.kind = x.kind /\ y.user = x.user
      /\ y.held = x.held \cup {Head(x.next)} /\ y.next = Tail(x.next)
  BY <1>1 DEF Acquire, Inv, TypeOK, CommandType
<1>3. x.by \in Principals /\ x.kind \in Kinds
  BY <1>1 DEF Inv, CommandsAreNamed
<1>4. Needed(x)
  BY AllNeeded
<1>5. Head(x.next) \in Elements(x.next) /\ Elements(Tail(x.next)) \subseteq Elements(x.next)
  BY <1>1, PartsOfList
<1>6. CASE x.at = "authority"
  <2>1. y.held \cup Elements(y.next) \subseteq Elements(FirstLocks(x.by, x.kind))
    BY <1>2, <1>4, <1>5, <1>6 DEF Needed
  <2>2. CASE x.by = "root"
    BY <1>2, <1>6, <2>1, <2>2 DEF Needed
  <2>3. CASE x.by # "root" /\ x.next = FirstLocks(x.by, x.kind)
    <3>1. \A lock \in Elements(y.next) : lock.mode = "share"
      BY <1>2, <1>3, <2>3, FirstLocksShare
    <3> QED BY <1>2, <1>6, <2>1, <3>1 DEF Needed
  <2>4. CASE \A lock \in Elements(x.next) : lock.mode = "share"
    <3>1. \A lock \in Elements(y.next) : lock.mode = "share"
      BY <1>2, <1>5, <2>4
    <3> QED BY <1>2, <1>6, <2>1, <3>1 DEF Needed
  <2> QED BY <1>4, <1>6, <2>2, <2>3, <2>4 DEF Needed
<1>7. CASE x.at = "body"
  <2>1. x.next = BodyLocks(x.kind, x.user)
    BY <1>1, <1>4, <1>7 DEF Needed
  <2>2. y.next = <<>>
    BY <1>1, <1>2, <1>3, <2>1, BodyLocksAreOne
  <2> QED BY <1>2, <1>7, <2>2 DEF Needed
<1> QED BY <1>1, <1>6, <1>7

LEMMA StepNeeded == Inv /\ LocksAreNeeded /\ [Next]_vars => LocksAreNeeded'
<1> SUFFICES ASSUME Inv, LocksAreNeeded, [Next]_vars, NEW d \in Commands  PROVE Needed(command'[d])
  BY AllNeeded
<1>0. Needed(command[d]) /\ command \in [Commands -> CommandType]
  BY AllNeeded DEF Inv, TypeOK
<1>1. ASSUME NEW c \in Commands, End(c)  PROVE Needed(command'[d])
  <2>1. command'[d] = Idle \/ command'[d] = command[d]
    BY <1>0, <1>1 DEF End
  <2> QED BY <1>0, <2>1 DEF Needed, Idle
<1>2. ASSUME NEW c \in Commands, NEW by \in Principals, NEW kind \in Kinds,
             NEW u \in Staff \cup {None}, Begin(c, by, kind, u)
      PROVE  Needed(command'[d])
  <2> DEFINE x == [at |-> "authority", by |-> by, kind |-> kind, user |-> u,
                   held |-> {}, next |-> FirstLocks(by, kind)]
  <2>1. command'[d] = x \/ command'[d] = command[d]
    BY <1>0, <1>2 DEF Begin
  <2>2. Needed(x)
    BY DEF Needed
  <2> QED BY <1>0, <2>1, <2>2
<1>3. ASSUME NEW c \in Commands, Acquire(c)  PROVE Needed(command'[d])
  <2>1. c # d => command'[d] = command[d]
    BY <1>0, <1>3 DEF Acquire
  <2> QED BY <1>0, <1>3, <2>1, AcquireIsNeeded
<1>4. ASSUME NEW c \in Commands, authorizeCommand(c)  PROVE Needed(command'[d])
  <2> DEFINE x == command[c]
  <2>1. c # d => command'[d] = command[d]
    BY <1>0, <1>4 DEF authorizeCommand
  <2>2. /\ command'[c].at = "body" /\ command'[c].by = x.by /\ command'[c].kind = x.kind
        /\ command'[c].user = x.user /\ command'[c].held = x.held
        /\ command'[c].next = BodyLocks(x.kind, x.user)
    BY <1>0, <1>4 DEF authorizeCommand, CommandType
  <2>3. x.held \subseteq Elements(FirstLocks(x.by, x.kind))
    BY <1>4, AllNeeded DEF authorizeCommand, Needed
  <2> QED BY <1>0, <2>1, <2>2, <2>3 DEF Needed
<1>5. ASSUME NEW c \in Commands, protectPlatformUser(c)  PROVE Needed(command'[d])
  <2>1. CASE End(c)
    BY <1>1, <2>1
  <2>2. CASE ~End(c)
    <3>1. command'[c].at = "ready" /\ (c # d => command'[d] = command[d])
      BY <1>0, <1>5, <2>2 DEF protectPlatformUser, CommandType
    <3> QED BY <1>0, <3>1 DEF Needed
  <2> QED BY <2>1, <2>2
<1>6. ASSUME NEW c \in Commands, Step(c) \/ Fail(c)  PROVE Needed(command'[d])
  <2>1. \/ Acquire(c) \/ authorizeCommand(c) \/ protectPlatformUser(c) \/ End(c)
    BY <1>6 DEF Step, Refuse, Fail, disableUser, enableUser, revokeUserSessions, eraseUser,
                setClientDisabled, changeMember, assign, On
  <2> QED BY <1>1, <1>3, <1>4, <1>5, <2>1
<1>7. CASE DetectDeadlock
  BY <1>1, <1>7 DEF DetectDeadlock
<1>8. CASE command' = command
  BY <1>0, <1>8
<1>9. ASSUME NEW u \in Staff, provisionMembership(u) \/ SignIn(u) \/ SignOut(u)  PROVE command' = command
  BY <1>9 DEF provisionMembership, SignIn, SignOut, Move
<1> QED BY <1>2, <1>6, <1>7, <1>8, <1>9 DEF Next, vars

LEMMA NeededAlways == Spec => []LocksAreNeeded
<1>1. Init => LocksAreNeeded
  <2>1. Init => \A c \in Commands : command[c] = Idle
    BY DEF Init
  <2>2. Needed(Idle)
    BY DEF Needed, Idle
  <2> QED BY <2>1, <2>2, AllNeeded
<1> QED BY <1>1, StepNeeded, Invariance, PTL DEF Spec

\* Who waits for a lock, and holds one alone, holds the platform; but for root, it is a member
\* command that still asks for its authority.
LEMMA WaitersHold ==
  ASSUME Inv, LocksAreNeeded, NEW c \in Commands, Locking(c),
         NEW held \in command[c].held, held.mode = "update"
  PROVE  held = Lock("platform", "update") /\ (command[c].by # "root" => command[c].at = "authority")
<1> DEFINE x == command[c]
<1>1. x.by \in Principals /\ x.kind \in Kinds /\ x.at \in {"authority", "body"} /\ x.next # <<>>
  BY DEF Locking, Inv, CommandsAreNamed
<1>2. Needed(x)
  BY AllNeeded
<1>3. held \in Elements(FirstLocks(x.by, x.kind))
  BY <1>1, <1>2 DEF Needed
<1>4. CASE x.by # "root"
  <2>1. x.kind = "member" /\ held = Lock("platform", "update")
    BY <1>1, <1>3, <1>4, FirstLocksShare
  <2>2. x.at # "body"
    BY <1>1, <1>2, <2>1, BodyLocksAreOne DEF Needed
  <2> QED BY <1>1, <2>1, <2>2
<1>5. CASE x.by = "root"
  <2>1. Lock("platform", "update") \in Locks /\ AuthorityLocks(x.by) \in Seq(Locks)
    BY <1>1, AuthorityLocksAre, LocksOfRows DEF Rows
  <2>2. Elements(FirstLocks(x.by, x.kind)) = {Lock("platform", "update")}
    <3>1. CASE x.kind = "member"
      BY <1>1, <1>5, <2>1, <3>1, AuthorityLocksAre, OneBefore DEF FirstLocks
    <3>2. CASE x.kind # "member"
      BY <1>1, <1>5, <3>2, AuthorityLocksAre DEF FirstLocks
    <3> QED BY <3>1, <3>2
  <2> QED BY <1>3, <1>5, <2>2
<1> QED BY <1>4, <1>5

\* However many commands wait for each other, none holds the user it changes; and unless root is
\* among them, none of them still asks for its authority. In a circle everybody is waited for; who
\* asks waits for someone that holds a row alone, and waits itself: that is a member command,
\* which waits for shares only, and there is but one that holds the platform.
THEOREM CirclesAreInBodies == Spec => []AuthorityDoesNotDeadlock
<1>1. Inv /\ LocksAreNeeded => AuthorityDoesNotDeadlock
  <2> SUFFICES ASSUME Inv, LocksAreNeeded, NEW cs \in SUBSET Commands, Deadlocked(cs)
               PROVE  /\ \A c \in cs : Lock(command[c].user, "update") \notin command[c].held
                      /\ \/ \E c \in cs : command[c].by = "root"
                         \/ \A c \in cs : command[c].at = "body"
    BY DEF AuthorityDoesNotDeadlock
  <2>1. ASSUME NEW c \in cs
        PROVE  /\ Locking(c) /\ c \in Commands
               /\ \E e \in cs : e \in WaitsFor(c)
               /\ WaitsFor(c) = Blockers(c, Head(command[c].next))
    <3>1. WaitsFor(c) \cap cs # {}
      BY DEF Deadlocked, WaitInside
    <3> QED BY <3>1 DEF WaitsFor
  <2>2. ASSUME NEW c \in cs  PROVE Lock(command[c].user, "update") \notin command[c].held
    <3>1. SUFFICES ASSUME Lock(command[c].user, "update") \in command[c].held  PROVE FALSE
      OBVIOUS
    <3>2. Lock(command[c].user, "update") = Lock("platform", "update")
      BY <2>1, <3>1, WaitersHold DEF Lock
    <3>3. command[c].user = "platform" /\ command[c].user \in Staff \cup {None}
      BY <2>1, <3>2 DEF Lock, Inv, TypeOK, CommandType
    <3> QED BY <3>3, NamesDiffer DEF None
  \* Who asks, and has something that is waited for, waits for who holds the platform alone.
  <2>3. ASSUME NEW c \in cs, command[c].at = "authority", command[c].by # "root",
               command[c].held # {}, \A d \in cs : command[d].by # "root"
        PROVE  \E e \in cs \ {c} : command[e].at = "authority" /\ Lock("platform", "update") \in command[e].held
    <3>1. /\ command[c].next \in Seq(Locks) /\ command[c].next # <<>>
          /\ \A lock \in Elements(command[c].next) : lock.mode = "share"
      BY <2>1, <2>3, AllNeeded DEF Needed, Locking, Inv, TypeOK, CommandType
    <3>2. Head(command[c].next).mode = "share"
      BY <3>1, PartsOfList
    <3>3. PICK e \in cs : e \in Blockers(c, Head(command[c].next))
      BY <2>1
    <3>4. PICK h \in command[e].held : Excludes(h, Head(command[c].next)) /\ e # c
      BY <3>3 DEF Blockers
    <3>5. h.mode = "update"
      BY <3>2, <3>4 DEF Excludes
    <3>6. h = Lock("platform", "update") /\ command[e].at = "authority"
      BY <2>1, <2>3, <3>4, <3>5, WaitersHold
    <3> QED BY <3>4, <3>6
  <2>4. ASSUME NEW c \in cs, command[c].at # "body", \A d \in cs : command[d].by # "root"
        PROVE  FALSE
    <3>1. command[c].at = "authority"
      BY <2>1, <2>4 DEF Locking
    <3>2. \E d \in cs : c \in WaitsFor(d)
      <4>1. SUFFICES ASSUME \A d \in cs : c \notin WaitsFor(d)  PROVE FALSE
        OBVIOUS
      <4>2. c \notin WaitsFor(c) /\ \E e \in cs : e # c
        BY <2>1, <4>1
      <4>3. WaitInside(cs \ {c})
        BY <2>1, <4>1, <4>2 DEF WaitInside
      <4> QED BY <4>3 DEF Deadlocked
    <3>3. command[c].held # {}
      <4>1. PICK d \in cs : c \in Blockers(d, Head(command[d].next))
        BY <2>1, <3>2
      <4> QED BY <4>1 DEF Blockers
    <3>4. PICK e \in cs \ {c} : command[e].at = "authority" /\ Lock("platform", "update") \in command[e].held
      BY <2>3, <2>4, <3>1, <3>3
    <3>5. PICK f \in cs \ {e} : Lock("platform", "update") \in command[f].held
      BY <2>3, <2>4, <3>4
    <3>6. LocksExclude
      BY DEF Inv
    <3> QED BY <3>4, <3>5, <3>6, Alone
  <2> QED BY <2>2, <2>4
<1> QED BY <1>1, Invariance, NeededAlways, PTL
===============================================================================
