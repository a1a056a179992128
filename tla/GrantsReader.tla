---------------------------- MODULE GrantsReader ----------------------------
(***************************************************************************)
(* The Toolbox's grants reader (mcps/toolbox/src/grants.ts): what a member *)
(* may use, read from ID's member access view, cached for a lifetime, and  *)
(* read again when the audit poller names the member's organisation or     *)
(* user, or when the caller's token has another authorisation version.     *)
(*                                                                         *)
(* A read awaits ID: ID may answer before a change while its answer        *)
(* arrives after the invalidation that announces it, callers that come     *)
(* meanwhile share the read, and it may fail.                              *)
(*                                                                         *)
(* Abstracted: a member's targets are the number of changes ID has made to *)
(* them; which of them a caller's client narrows is left out.              *)
(***************************************************************************)
EXTENDS Integers, FiniteSets

CONSTANTS
  Members,        \* the members of organisations
  OrganisationOf, \* a member's organisation
  UserOf,         \* and the person
  Calls,          \* the calls that read a member's grants
  Lifetime,       \* how long an entry is served (60 seconds)
  ReadTime,       \* the longest a read takes (the timeouts of createIdAdmin)
  Reliable,       \* whether every read of ID succeeds
  MaxClock,       \* bound: how far the clock goes
  MaxChanges,     \* bound: the changes of one member's access
  MaxVersion,     \* bound: an organisation's authorisation version
  NoEntry, NoRead \* what the cache and `pending` hold of an unread member

Organisations == {OrganisationOf[m] : m \in Members}
Users == {UserOf[m] : m \in Members}
Versions == 1..MaxVersion

Entry == [value : Nat, version : Versions, expires : 0..(MaxClock + Lifetime), stale : BOOLEAN]
Said == Nat \cup {-1}   \* -1 until ID has answered
Read == [kept : Entry \cup {NoEntry}, began : 0..MaxClock, said : Said]

ASSUME ReaderAssumption ==
  /\ OrganisationOf \in [Members -> Organisations]
  /\ UserOf \in [Members -> Users]
  /\ Lifetime \in Nat \ {0} /\ ReadTime \in Nat /\ Reliable \in BOOLEAN
  /\ MaxClock \in Nat /\ MaxChanges \in Nat /\ MaxVersion \in Nat \ {0}
  /\ NoEntry \notin Entry /\ NoRead \notin Read

VARIABLES
  \* ID
  clock,
  access,    \* how often each member's access has changed
  ended,     \* when each earlier access of a member ended
  epoch,     \* each organisation's authorisation version
  floor,     \* a member's access when its organisation took each version
  \* the reader
  cache,     \* the entry of each member
  pending,   \* the read in flight of each member and version
  promised,  \* the access of a member when it was last invalidated
  quiet,     \* the same, where no read of the member was in flight then
  \* its callers
  at,        \* where each call is
  member,    \* who calls,
  version,   \* with a token of which version
  owed,      \* what was promised, and quiet, when it began
  answer,    \* the access it was told, -1 for UPSTREAM_UNAVAILABLE
  source,    \* where from
  answered   \* and when

idVars == <<access, ended, epoch, floor>>
readerVars == <<cache, pending, promised, quiet>>
callVars == <<at, member, version, owed, answer, source, answered>>
vars == <<clock, idVars, readerVars, callVars>>

Init ==
  /\ clock = 0
  /\ access = [m \in Members |-> 0]
  /\ ended = [m \in Members |-> [k \in 0..MaxChanges |-> 0]]
  /\ epoch = [o \in Organisations |-> 1]
  /\ floor = [m \in Members |-> [v \in Versions |-> 0]]
  /\ cache = [m \in Members |-> NoEntry]
  /\ pending = [m \in Members |-> [v \in Versions |-> NoRead]]
  /\ promised = [m \in Members |-> 0] /\ quiet = [m \in Members |-> 0]
  /\ at = [c \in Calls |-> "idle"]
  /\ \E m \in Members : member = [c \in Calls |-> m]
  /\ version = [c \in Calls |-> 1]
  /\ owed = [c \in Calls |-> [promised |-> 0, quiet |-> 0]]
  /\ answer = [c \in Calls |-> -1]
  /\ source = [c \in Calls |-> "none"]
  /\ answered = [c \in Calls |-> 0]

-----------------------------------------------------------------------------
(***************************************************************************)
(* ID and the clock.                                                       *)
(***************************************************************************)
Move(S) ==
  /\ \A m \in S : access[m] < MaxChanges
  /\ access' = [m \in Members |-> IF m \in S THEN access[m] + 1 ELSE access[m]]
  /\ ended' = [m \in Members |->
       IF m \in S THEN [ended[m] EXCEPT ![access[m]] = clock] ELSE ended[m]]

OfOrganisation(o) == {m \in Members : OrganisationOf[m] = o}
OfUser(u) == {m \in Members : UserOf[m] = u}

\* What changes access with an event on an organisation or a user, and what
\* changes it with none, such as the end of an entitlement's window.
ChangeAccess ==
  /\ \/ \E o \in Organisations : Move(OfOrganisation(o))
     \/ \E u \in Users : Move(OfUser(u))
     \/ \E m \in Members : Move({m})
  /\ UNCHANGED <<clock, epoch, floor, readerVars, callVars>>

\* Disabling an organisation advances its authorisation version.
AdvanceVersion(o) ==
  /\ epoch[o] < MaxVersion
  /\ epoch' = [epoch EXCEPT ![o] = @ + 1]
  /\ Move(OfOrganisation(o))
  /\ floor' = [m \in Members |->
       IF OrganisationOf[m] = o THEN [floor[m] EXCEPT ![epoch'[o]] = access'[m]]
       ELSE floor[m]]
  /\ UNCHANGED <<clock, readerVars, callVars>>

\* A read that takes longer than ReadTime has failed by then.
Tick ==
  /\ clock < MaxClock
  /\ \A m \in Members, v \in Versions :
       pending[m][v] # NoRead => clock < pending[m][v].began + ReadTime
  /\ clock' = clock + 1
  /\ UNCHANGED <<idVars, readerVars, callVars>>

-----------------------------------------------------------------------------
(***************************************************************************)
(* The reader.                                                             *)
(***************************************************************************)

\* The cached entry, if it is of the caller's version.
Kept(m, v) ==
  IF cache[m] # NoEntry /\ cache[m].version = v THEN cache[m] ELSE NoEntry

\* Mutant: an entry is served however old it is.
ServableForEver(entry) == entry # NoEntry /\ ~entry.stale

Servable(entry) == entry # NoEntry /\ ~entry.stale /\ clock < entry.expires

Answer(C, value, from) ==
  /\ at' = [c \in Calls |-> IF c \in C THEN "done" ELSE at[c]]
  /\ answer' = [c \in Calls |-> IF c \in C THEN value ELSE answer[c]]
  /\ source' = [c \in Calls |-> IF c \in C THEN from ELSE source[c]]
  /\ answered' = [c \in Calls |-> IF c \in C THEN clock ELSE answered[c]]

\* Who calls, with a token of a version that ID has issued.
Arrive(c, m, v) ==
  /\ at[c] = "idle"
  /\ v <= epoch[OrganisationOf[m]]
  /\ member' = [member EXCEPT ![c] = m]
  /\ version' = [version EXCEPT ![c] = v]
  /\ owed' = [owed EXCEPT ![c] = [promised |-> promised[m], quiet |-> quiet[m]]]

AnswerFromCache(c, m, v) ==
  /\ Servable(Kept(m, v))
  /\ Arrive(c, m, v)
  /\ Answer({c}, Kept(m, v).value, "cache")
  /\ UNCHANGED <<clock, idVars, readerVars>>

\* Start a read, or join the one in flight for this member and version.
AwaitRead(c, m, v) ==
  /\ ~Servable(Kept(m, v))
  /\ Arrive(c, m, v)
  /\ at' = [at EXCEPT ![c] = "waiting"]
  /\ pending' = IF pending[m][v] # NoRead THEN pending
                ELSE [pending EXCEPT ![m][v] =
                        [kept |-> Kept(m, v), began |-> clock, said |-> -1]]
  /\ UNCHANGED <<clock, idVars, cache, promised, quiet, answer, source, answered>>

\* ID reads the member's access and sends its answer.
IdAnswers(m, v) ==
  /\ pending[m][v] # NoRead /\ pending[m][v].said = -1
  /\ pending' = [pending EXCEPT ![m][v].said = access[m]]
  /\ UNCHANGED <<clock, idVars, cache, promised, quiet, callVars>>

Waiting(m, v) ==
  {c \in Calls : at[c] = "waiting" /\ member[c] = m /\ version[c] = v}

Fresh(m, v, value) ==
  [value |-> value, version |-> v, stale |-> FALSE, expires |-> clock + Lifetime]

\* The answer arrives: forget expired entries, remember this one and answer
\* everyone who waits for it.
Remember(m, v) ==
  LET said == pending[m][v].said IN
  /\ pending[m][v] # NoRead /\ said # -1
  /\ cache' = [n \in Members |->
       IF n = m THEN Fresh(m, v, said)
       ELSE IF cache[n] # NoEntry /\ cache[n].expires <= clock THEN NoEntry
       ELSE cache[n]]
  /\ pending' = [pending EXCEPT ![m][v] = NoRead]
  /\ Answer(Waiting(m, v), said, "read")
  /\ UNCHANGED <<clock, idVars, promised, quiet, member, version, owed>>

\* ID does not answer in time, or its answer is lost: the entry kept when the
\* read began covers for it until it expires.
ReadFails(m, v) ==
  LET kept == pending[m][v].kept IN
  /\ ~Reliable /\ pending[m][v] # NoRead
  /\ \/ /\ kept # NoEntry /\ clock < kept.expires
        /\ Answer(Waiting(m, v), kept.value, "kept")
     \/ /\ ~(kept # NoEntry /\ clock < kept.expires)
        /\ Answer(Waiting(m, v), -1, "none")
  /\ pending' = [pending EXCEPT ![m][v] = NoRead]
  /\ UNCHANGED <<clock, idVars, cache, promised, quiet, member, version, owed>>

\* Mutant: a user is invalidated in the organisations named only.
NamedInOrganisation(m, O, U) == OrganisationOf[m] \in O

Named(m, O, U) == OrganisationOf[m] \in O \/ UserOf[m] \in U
InFlight(m) == \E v \in Versions : pending[m][v] # NoRead

\* A poll names organisations and users.
Invalidate(O, U) ==
  /\ cache' = [m \in Members |->
       IF Named(m, O, U) /\ cache[m] # NoEntry THEN [cache[m] EXCEPT !.stale = TRUE]
       ELSE cache[m]]
  /\ promised' = [m \in Members |->
       IF OrganisationOf[m] \in O \/ UserOf[m] \in U THEN access[m] ELSE promised[m]]
  /\ quiet' = [m \in Members |->
       IF (OrganisationOf[m] \in O \/ UserOf[m] \in U) /\ ~InFlight(m)
       THEN access[m] ELSE quiet[m]]
  /\ UNCHANGED <<clock, idVars, pending, callVars>>

-----------------------------------------------------------------------------
Next ==
  \/ Tick \/ ChangeAccess \/ \E o \in Organisations : AdvanceVersion(o)
  \/ \E c \in Calls, m \in Members, v \in Versions :
       AnswerFromCache(c, m, v) \/ AwaitRead(c, m, v)
  \/ \E m \in Members, v \in Versions :
       IdAnswers(m, v) \/ Remember(m, v) \/ ReadFails(m, v)
  \/ \E O \in SUBSET Organisations, U \in SUBSET Users : Invalidate(O, U)

Spec == Init /\ [][Next]_vars

-----------------------------------------------------------------------------
(***************************************************************************)
(* Properties.                                                             *)
(***************************************************************************)
Call == [promised : Nat, quiet : Nat]

\* Every variable keeps to its type.
TypeOK ==
  /\ clock \in 0..MaxClock
  /\ access \in [Members -> 0..MaxChanges]
  /\ ended \in [Members -> [0..MaxChanges -> 0..MaxClock]]
  /\ epoch \in [Organisations -> Versions]
  /\ floor \in [Members -> [Versions -> 0..MaxChanges]]
  /\ cache \in [Members -> Entry \cup {NoEntry}]
  /\ pending \in [Members -> [Versions -> Read \cup {NoRead}]]
  /\ promised \in [Members -> Nat] /\ quiet \in [Members -> Nat]
  /\ at \in [Calls -> {"idle", "waiting", "done"}]
  /\ member \in [Calls -> Members] /\ version \in [Calls -> Versions]
  /\ owed \in [Calls -> Call]
  /\ answer \in [Calls -> Said]
  /\ source \in [Calls -> {"none", "cache", "read", "kept"}]
  /\ answered \in [Calls -> 0..MaxClock]

\* A member's access had, at the moment t, changed at most k times.
HeldSince(m, k, t) == k <= access[m] /\ (k < access[m] => ended[m][k] >= t)

\* What ID takes away stops working: no call is told access that ended a
\* lifetime and a read ago, whatever polls miss, whichever reads fail or are
\* shared, and in whatever order answers arrive (createGrantsReader: "cached
\* ... for 60 seconds", and "When ID fails, a cached entry answers until it
\* expires").
EndedAccessStops ==
  \A c \in Calls :
    answer[c] # -1 =>
      HeldSince(member[c], answer[c], answered[c] - Lifetime - ReadTime + 1)

\* A caller whose token has a version is told nothing from before its
\* organisation took that version, with no poll needed ("the token's
\* organisation authorisation version", docs/08: one that "differs from the
\* cached one also drops it").
NewVersionReadsAgain ==
  \A c \in Calls : answer[c] # -1 => answer[c] >= floor[member[c]][version[c]]

(***************************************************************************)
(* Why these two hold: what the cache and a read in flight hold was in      *)
(* force late enough, and is of the version it is kept under.               *)
(***************************************************************************)
\* Only a version ID has taken has a floor, which access has reached.
FloorsAreReached ==
  \A m \in Members, v \in Versions : floor[m][v] <= access[m]

EntryHolds(m, entry) ==
  /\ HeldSince(m, entry.value, entry.expires - Lifetime - ReadTime)
  /\ entry.expires <= clock + Lifetime
  /\ entry.version <= epoch[OrganisationOf[m]]
  /\ entry.value >= floor[m][entry.version]

CacheHolds == \A m \in Members : cache[m] # NoEntry => EntryHolds(m, cache[m])

ReadHolds(m, v, read) ==
  /\ v <= epoch[OrganisationOf[m]]
  /\ read.began <= clock /\ clock <= read.began + ReadTime
  /\ read.kept # NoEntry => EntryHolds(m, read.kept) /\ read.kept.version = v
  /\ read.said # -1 => HeldSince(m, read.said, read.began) /\ read.said >= floor[m][v]

ReadsHold ==
  \A m \in Members, v \in Versions :
    pending[m][v] # NoRead => ReadHolds(m, v, pending[m][v])

CallsHold ==
  \A c \in Calls :
    /\ at[c] # "idle" => version[c] <= epoch[OrganisationOf[member[c]]]
    /\ at[c] # "done" => answer[c] = -1
    /\ answered[c] <= clock

Inv == /\ TypeOK /\ FloorsAreReached /\ CacheHolds /\ ReadsHold /\ CallsHold
       /\ EndedAccessStops /\ NewVersionReadsAgain

\* After an invalidation that finds no read of the member in flight, a call
\* that is not covered for a failed read is told access at least as new.
QuietInvalidationReadsAgain ==
  \A c \in Calls : source[c] \in {"cache", "read"} => answer[c] >= owed[c].quiet

\* Why: what an invalidation that met no read left, and what was read since, is
\* at least as new as the access it promised.
QuietIsReached == \A m \in Members : quiet[m] <= access[m]
CacheIsQuiet ==
  \A m \in Members : cache[m] # NoEntry /\ ~cache[m].stale => cache[m].value >= quiet[m]
ReadsAreQuiet ==
  \A m \in Members, v \in Versions :
    pending[m][v] # NoRead /\ pending[m][v].said # -1 => pending[m][v].said >= quiet[m]
CallsAreQuiet ==
  \A c \in Calls :
    /\ at[c] = "waiting" => owed[c].quiet <= quiet[member[c]]
    /\ at[c] # "done" => source[c] = "none"

Quiet == /\ QuietIsReached /\ CacheIsQuiet /\ ReadsAreQuiet /\ CallsAreQuiet
         /\ QuietInvalidationReadsAgain

\* A call gets access at least as new as what it is owed: as its token's version,
\* and as any invalidation it came after that met no read in flight.
CallsReadWhatTheyAreOwed == NewVersionReadsAgain /\ QuietInvalidationReadsAgain

\* After an invalidation a call that is not covered for a failed read is told access
\* at least as new (invalidate: "Read these organisations' members, and these users in
\* every organisation, from ID again on their next call").  Violated: a read in flight,
\* which ID has answered before the change, is remembered as fresh after it.
InvalidationReadsAgain ==
  \A c \in Calls : source[c] \in {"cache", "read"} => answer[c] >= owed[c].promised
=============================================================================
