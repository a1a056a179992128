--------------------------- MODULE FreshnessProofs ---------------------------
(***************************************************************************)
(* Proofs about what keeps a server's cached grants fresh: its reader of   *)
(* grants (GrantsReader), and the poller of ID's audit log that tells it   *)
(* whom to forget (AuditPoller).                                           *)
(*                                                                         *)
(* Of the reader: types, that access that ended stops being told, and that *)
(* a token's version, and an invalidation that meets no read in flight,    *)
(* are enough to have grants read again.  Of the poller: types, and that   *)
(* it passes no event by that committed ahead of it, in whatever order     *)
(* transactions commit.                                                    *)
(***************************************************************************)
EXTENDS GrantsReader, AuditPoller, TLAPS

-----------------------------------------------------------------------------
\* Changing the access of some members keeps its type.
LEMMA MoveType ==
  ASSUME TypeOK, NEW S, Move(S)
  PROVE  /\ access' \in [Members -> 0..MaxChanges]
         /\ ended' \in [Members -> [0..MaxChanges -> 0..MaxClock]]
  BY ReaderAssumption DEF TypeOK, Move

\* What a read keeps is an entry of the version it reads.
LEMMA KeptType ==
  ASSUME TypeOK, NEW m \in Members, NEW v \in Versions
  PROVE  /\ Kept(m, v) \in Entry \cup {NoEntry}
         /\ Kept(m, v) # NoEntry => Kept(m, v) = cache[m] /\ Kept(m, v).version = v
  BY DEF TypeOK, Kept

\* Answering calls of one member keeps the types of what calls hold.
LEMMA AnswerType ==
  ASSUME TypeOK, NEW C \in SUBSET Calls, NEW value \in Said,
         NEW from \in {"none", "cache", "read", "kept"}, Answer(C, value, from)
  PROVE  /\ at' \in [Calls -> {"idle", "waiting", "done"}]
         /\ answer' \in [Calls -> Said]
         /\ source' \in [Calls -> {"none", "cache", "read", "kept"}]
         /\ answered' \in [Calls -> 0..MaxClock]
  BY DEF TypeOK, Answer

\* Every step keeps the types.
LEMMA TypeStep == TypeOK /\ [Next]_vars => TypeOK'
  <1> SUFFICES ASSUME TypeOK, [Next]_vars PROVE TypeOK'
    OBVIOUS
  <1>0. /\ OrganisationOf \in [Members -> Organisations]
        /\ Lifetime \in Nat /\ MaxClock \in Nat /\ MaxVersion \in Nat
        /\ NoEntry \notin Entry /\ NoRead \notin Read
    BY ReaderAssumption
  <1> USE DEF idVars, readerVars, callVars
  <1>1. CASE Tick
    BY <1>0, <1>1 DEF Tick, TypeOK
  <1>2. CASE ChangeAccess
    <2>1. PICK S : Move(S)
      BY <1>2 DEF ChangeAccess
    <2> QED
      BY <1>2, <2>1, MoveType DEF ChangeAccess, TypeOK
  <1>3. ASSUME NEW o \in Organisations, AdvanceVersion(o) PROVE TypeOK'
    <2>1. epoch' \in [Organisations -> Versions] /\ epoch'[o] \in Versions
      BY <1>0, <1>3 DEF AdvanceVersion, TypeOK, Versions
    <2>2. /\ access' \in [Members -> 0..MaxChanges]
          /\ ended' \in [Members -> [0..MaxChanges -> 0..MaxClock]]
      BY <1>3, MoveType DEF AdvanceVersion
    <2>3. floor' \in [Members -> [Versions -> 0..MaxChanges]]
      BY <1>3, <2>1, <2>2 DEF AdvanceVersion, TypeOK
    <2> QED
      BY <1>3, <2>1, <2>2, <2>3 DEF AdvanceVersion, TypeOK
  <1>4. ASSUME NEW c \in Calls, NEW m \in Members, NEW v \in Versions,
               AnswerFromCache(c, m, v)
        PROVE  TypeOK'
    <2>1. Kept(m, v).value \in Said
      BY <1>4, KeptType DEF AnswerFromCache, Servable, Entry, Said
    <2>2. owed' \in [Calls -> Call]
      BY <1>4 DEF AnswerFromCache, Arrive, TypeOK, Call
    <2> QED
      BY <1>4, <2>1, <2>2, AnswerType DEF AnswerFromCache, Arrive, TypeOK
  <1>5. ASSUME NEW c \in Calls, NEW m \in Members, NEW v \in Versions,
               AwaitRead(c, m, v)
        PROVE  TypeOK'
    <2>1. [kept |-> Kept(m, v), began |-> clock, said |-> -1] \in Read
      BY KeptType DEF Read, Said, TypeOK
    <2>2. pending' \in [Members -> [Versions -> Read \cup {NoRead}]]
      BY <1>5, <2>1 DEF AwaitRead, TypeOK
    <2>3. owed' \in [Calls -> Call]
      BY <1>5 DEF AwaitRead, Arrive, TypeOK, Call
    <2> QED
      BY <1>5, <2>2, <2>3 DEF AwaitRead, Arrive, TypeOK
  <1>6. ASSUME NEW m \in Members, NEW v \in Versions, IdAnswers(m, v) PROVE TypeOK'
    <2>1. access[m] \in Said
      BY ReaderAssumption DEF TypeOK, Said
    <2>2. pending[m][v] \in Read
      BY <1>6 DEF IdAnswers, TypeOK
    <2>3. [pending[m][v] EXCEPT !.said = access[m]] \in Read
      BY <2>1, <2>2 DEF Read
    <2>4. pending' = [pending EXCEPT ![m] = [@ EXCEPT ![v] =
                        [pending[m][v] EXCEPT !.said = access[m]]]]
      BY <1>6 DEF IdAnswers, TypeOK
    <2>5. pending' \in [Members -> [Versions -> Read \cup {NoRead}]]
      BY <2>3, <2>4 DEF TypeOK
    <2> QED
      BY <1>6, <2>5 DEF IdAnswers, TypeOK
  <1>7. ASSUME NEW m \in Members, NEW v \in Versions, Remember(m, v) PROVE TypeOK'
    <2>1. pending[m][v] \in Read /\ pending[m][v].said \in Nat
      BY <1>7 DEF Remember, TypeOK, Read, Said
    <2>2. Fresh(m, v, pending[m][v].said) \in Entry
      BY <1>0, <2>1 DEF Fresh, Entry, TypeOK
    <2>3. cache' \in [Members -> Entry \cup {NoEntry}]
      BY <1>7, <2>2 DEF Remember, TypeOK
    <2>4. pending' \in [Members -> [Versions -> Read \cup {NoRead}]]
      BY <1>7 DEF Remember, TypeOK
    <2>5. Answer(Waiting(m, v), pending[m][v].said, "read") /\ pending[m][v].said \in Said
      BY <1>7, <2>1 DEF Remember, Said
    <2> QED
      BY <1>7, <2>3, <2>4, <2>5, AnswerType DEF Remember, TypeOK, Waiting
  <1>8. ASSUME NEW m \in Members, NEW v \in Versions, ReadFails(m, v) PROVE TypeOK'
    <2>1. pending' \in [Members -> [Versions -> Read \cup {NoRead}]]
      BY <1>8 DEF ReadFails, TypeOK
    <2>2. pending[m][v].kept # NoEntry => pending[m][v].kept.value \in Said
      BY <1>8 DEF ReadFails, TypeOK, Read, Entry, Said
    <2>3. PICK value \in Said, from \in {"none", "cache", "read", "kept"} :
            Answer(Waiting(m, v), value, from)
      BY <1>8, <2>2 DEF ReadFails, Said
    <2>4. /\ at' \in [Calls -> {"idle", "waiting", "done"}]
          /\ answer' \in [Calls -> Said]
          /\ source' \in [Calls -> {"none", "cache", "read", "kept"}]
          /\ answered' \in [Calls -> 0..MaxClock]
      <3>1. Waiting(m, v) \in SUBSET Calls
        BY DEF Waiting
      <3> QED
        BY <2>3, <3>1, AnswerType
    <2> QED
      BY <1>8, <2>1, <2>4 DEF ReadFails, TypeOK
  <1>9. ASSUME NEW O \in SUBSET Organisations, NEW U \in SUBSET Users, Invalidate(O, U)
        PROVE  TypeOK'
    <2>1. \A entry \in Entry : [entry EXCEPT !.stale = TRUE] \in Entry
      BY DEF Entry
    <2>2. cache' \in [Members -> Entry \cup {NoEntry}]
      BY <1>9, <2>1 DEF Invalidate, TypeOK
    <2>3. promised' \in [Members -> Nat] /\ quiet' \in [Members -> Nat]
      BY <1>9, ReaderAssumption DEF Invalidate, TypeOK
    <2> QED
      BY <1>9, <2>2, <2>3 DEF Invalidate, TypeOK
  <1>10. CASE UNCHANGED vars
    BY <1>10 DEF vars, TypeOK
  <1> QED
    BY <1>1, <1>2, <1>3, <1>4, <1>5, <1>6, <1>7, <1>8, <1>9, <1>10 DEF Next

\* Every variable of the grants reader keeps to its type.
THEOREM ReaderTypeCorrect == Spec => []TypeOK
  <1>1. Init => TypeOK
    BY ReaderAssumption DEF Init, TypeOK, Versions, Said, Call
  <1>2. QED
    BY <1>1, TypeStep, PTL DEF Spec

-----------------------------------------------------------------------------
(***************************************************************************)
(* What is held was in force late enough.                                  *)
(***************************************************************************)
\* When ID changes the access of some members, whatever was held stays held.
LEMMA MoveHolds ==
  ASSUME TypeOK, NEW S, Move(S),
         NEW m \in Members, NEW k \in Nat, NEW t \in Int, t <= clock,
         HeldSince(m, k, t)
  PROVE  HeldSince(m, k, t)'
  BY ReaderAssumption DEF TypeOK, Move, HeldSince

\* An earlier moment is easier.
LEMMA HeldEarlier ==
  ASSUME TypeOK, NEW m \in Members, NEW k \in Nat, NEW t \in Int, NEW u \in Int,
         u <= t, HeldSince(m, k, t)
  PROVE  HeldSince(m, k, u)
  <1>1. k < access[m] => ended[m][k] \in Int
    BY ReaderAssumption DEF TypeOK
  <1> QED
    BY <1>1 DEF HeldSince

\* Steps in which ID does not change.
LEMMA SameHolds ==
  ASSUME UNCHANGED idVars
  PROVE  /\ \A m \in Members, k \in Nat, t \in Int : HeldSince(m, k, t)' = HeldSince(m, k, t)
         /\ UNCHANGED FloorsAreReached
  BY DEF idVars, HeldSince, FloorsAreReached

\* Steps of ID and the clock, which leave the reader and its callers alone:
\* what is held stays held, and versions that were taken keep their floors.
LEMMA WorldStep ==
  ASSUME Inv, TypeOK', clock <= clock',
         \A m \in Members, k \in Nat, t \in Int :
           t <= clock /\ HeldSince(m, k, t) => HeldSince(m, k, t)',
         \A o \in Organisations : epoch[o] <= epoch'[o],
         \A m \in Members, v \in Versions :
           v <= epoch[OrganisationOf[m]] => floor'[m][v] = floor[m][v],
         FloorsAreReached', UNCHANGED <<readerVars, callVars>>,
         \A m \in Members, v \in Versions :
           pending[m][v] # NoRead => clock' <= pending[m][v].began + ReadTime
  PROVE  Inv'
  <1>0. TypeOK /\ TypeOK' /\ UNCHANGED <<readerVars, callVars>>
    BY DEF Inv
  <1>1. /\ \A m \in Members : epoch[OrganisationOf[m]] \in Int
                           /\ epoch'[OrganisationOf[m]] \in Int
                           /\ epoch[OrganisationOf[m]] <= epoch'[OrganisationOf[m]]
        /\ clock \in Int /\ clock' \in Int
        /\ Lifetime \in Nat \ {0} /\ ReadTime \in Nat
    BY <1>0, ReaderAssumption DEF TypeOK, Versions
  <1>2. ASSUME NEW m \in Members, NEW entry \in Entry, EntryHolds(m, entry)
        PROVE  EntryHolds(m, entry)'
    <2>1. /\ entry.expires \in Int /\ entry.value \in Nat /\ entry.version \in Versions
          /\ entry.version \in Int
      BY DEF Entry, Versions
    <2>2. entry.expires - Lifetime - ReadTime \in Int
          /\ entry.expires - Lifetime - ReadTime <= clock
      BY <1>1, <1>2, <2>1 DEF EntryHolds
    <2>3. HeldSince(m, entry.value, entry.expires - Lifetime - ReadTime)'
      BY <1>2, <2>1, <2>2 DEF EntryHolds
    <2> QED
      BY <1>1, <1>2, <2>1, <2>3 DEF EntryHolds
  <1>3. CacheHolds'
    <2> SUFFICES ASSUME NEW m \in Members, cache[m] # NoEntry
                 PROVE  EntryHolds(m, cache[m])'
      BY <1>0 DEF CacheHolds, readerVars
    <2>1. cache[m] \in Entry /\ EntryHolds(m, cache[m]) /\ cache'[m] = cache[m]
      BY <1>0 DEF TypeOK, Inv, CacheHolds, readerVars
    <2> QED
      BY <1>2, <2>1 DEF EntryHolds
  <1>4. ReadsHold'
    <2> SUFFICES ASSUME NEW m \in Members, NEW v \in Versions, pending[m][v] # NoRead
                 PROVE  ReadHolds(m, v, pending[m][v])'
      BY <1>0 DEF ReadsHold, readerVars
    <2>1. pending[m][v] \in Read
      BY <1>0 DEF TypeOK
    <2> v \in Int
      BY DEF Versions
    <2>2. LET read == pending[m][v] IN
          /\ read.kept \in Entry \cup {NoEntry} /\ read.began \in Int /\ read.said \in Said
      BY <2>1 DEF Read
    <2>3. LET read == pending[m][v] IN
          /\ v <= epoch[OrganisationOf[m]]
          /\ read.began <= clock /\ clock <= read.began + ReadTime
          /\ read.kept # NoEntry => EntryHolds(m, read.kept) /\ read.kept.version = v
          /\ read.said # -1 =>
               HeldSince(m, read.said, read.began) /\ read.said >= floor[m][v]
      BY DEF Inv, ReadsHold, ReadHolds
    <2>4. pending[m][v].kept # NoEntry =>
            EntryHolds(m, pending[m][v].kept)' /\ pending[m][v].kept.version = v
      <3> SUFFICES ASSUME pending[m][v].kept # NoEntry
                   PROVE  EntryHolds(m, pending[m][v].kept)'
        BY <2>3
      <3>1. pending[m][v].kept \in Entry /\ EntryHolds(m, pending[m][v].kept)
        BY <2>2, <2>3
      <3>2. UNCHANGED pending
        BY <1>0 DEF readerVars
      <3> QED
        BY <1>2, <3>1, <3>2 DEF EntryHolds, HeldSince
    <2>5. pending[m][v].said # -1 =>
            HeldSince(m, pending[m][v].said, pending[m][v].began)'
      BY <1>0, <2>2, <2>3 DEF Said, HeldSince, readerVars
    <2>6. floor'[m][v] = floor[m][v]
      BY <2>3
    <2> QED
      BY <1>0, <1>1, <2>2, <2>3, <2>4, <2>5, <2>6 DEF ReadHolds, readerVars
  <1>5. ASSUME NEW c \in Calls
        PROVE  /\ member[c] \in Members /\ version[c] \in Versions /\ version[c] \in Int
               /\ at[c] # "idle" => version[c] <= epoch[OrganisationOf[member[c]]]
               /\ at[c] # "done" => answer[c] = -1
               /\ at[c] \in {"idle", "waiting", "done"}
               /\ answer[c] \in Said /\ answered[c] \in Int /\ answered[c] <= clock
    BY <1>0 DEF Inv, CallsHold, TypeOK, Versions
  <1>6. CallsHold'
    BY <1>0, <1>1, <1>5 DEF CallsHold, callVars
  <1>7. EndedAccessStops'
    <2> SUFFICES ASSUME NEW c \in Calls, answer[c] # -1
                 PROVE  HeldSince(member[c], answer[c], answered[c] - Lifetime - ReadTime + 1)'
      BY <1>0 DEF EndedAccessStops, callVars, HeldSince
    <2>1. /\ answered[c] - Lifetime - ReadTime + 1 \in Int
          /\ answered[c] - Lifetime - ReadTime + 1 <= clock
          /\ member[c] \in Members /\ answer[c] \in Nat
      BY <1>1, <1>5 DEF Said
    <2>2. HeldSince(member[c], answer[c], answered[c] - Lifetime - ReadTime + 1)
      BY DEF Inv, EndedAccessStops
    <2>3. UNCHANGED <<member, answer, answered>>
      BY <1>0 DEF callVars
    <2> QED
      BY <2>1, <2>2, <2>3 DEF HeldSince
  <1>8. NewVersionReadsAgain'
    BY <1>0, <1>5 DEF NewVersionReadsAgain, callVars, Inv
  <1> QED
    BY <1>0, <1>3, <1>4, <1>6, <1>7, <1>8 DEF Inv

\* Steps of the reader, which leave ID and the clock alone.
LEMMA ReaderStep ==
  ASSUME Inv, TypeOK', UNCHANGED <<clock, idVars>>,
         \A m \in Members : cache'[m] # NoEntry => EntryHolds(m, cache'[m]),
         \A m \in Members, v \in Versions :
           pending'[m][v] # NoRead => ReadHolds(m, v, pending'[m][v])
  PROVE  FloorsAreReached' /\ CacheHolds' /\ ReadsHold'
  BY DEF Inv, idVars, FloorsAreReached, CacheHolds, ReadsHold, ReadHolds, EntryHolds, HeldSince

\* Answering some calls with what was in force late enough.
LEMMA AnswerStep ==
  ASSUME Inv, TypeOK', UNCHANGED <<clock, idVars>>,
         NEW C \in SUBSET Calls, NEW value \in Said, NEW from, Answer(C, value, from),
         \A c \in Calls \ C : member'[c] = member[c] /\ version'[c] = version[c],
         \A c \in C :
           /\ version'[c] <= epoch[OrganisationOf[member'[c]]]
           /\ value # -1 =>
                /\ HeldSince(member'[c], value, clock - Lifetime - ReadTime + 1)
                /\ value >= floor[member'[c]][version'[c]]
  PROVE  CallsHold' /\ EndedAccessStops' /\ NewVersionReadsAgain'
  <1>0. TypeOK /\ CallsHold /\ EndedAccessStops /\ NewVersionReadsAgain
    BY DEF Inv
  <1>1. UNCHANGED <<clock, access, ended, epoch, floor>>
    BY DEF idVars
  <1>2. ASSUME NEW c \in C
        PROVE  /\ at'[c] = "done" /\ answer'[c] = value /\ answered'[c] = clock
    BY <1>0 DEF Answer, TypeOK
  <1>3. ASSUME NEW c \in Calls \ C
        PROVE  /\ at'[c] = at[c] /\ answer'[c] = answer[c] /\ answered'[c] = answered[c]
               /\ member'[c] = member[c] /\ version'[c] = version[c]
    BY <1>0 DEF Answer, TypeOK
  <1>4. clock <= clock
    BY <1>0 DEF TypeOK
  <1>5. CallsHold'
    <2> SUFFICES ASSUME NEW c \in Calls
                 PROVE  /\ at'[c] # "idle" => version'[c] <= epoch[OrganisationOf[member'[c]]]
                        /\ at'[c] # "done" => answer'[c] = -1
                        /\ answered'[c] <= clock
      BY <1>1 DEF CallsHold
    <2>1. CASE c \in C
      BY <1>2, <1>4, <2>1
    <2>2. CASE c \notin C
      BY <1>0, <1>3, <2>2 DEF CallsHold
    <2> QED
      BY <2>1, <2>2
  <1>6. EndedAccessStops'
    <2> SUFFICES ASSUME NEW c \in Calls, answer'[c] # -1
                 PROVE  HeldSince(member'[c], answer'[c],
                                  answered'[c] - Lifetime - ReadTime + 1)
      BY <1>1 DEF EndedAccessStops, HeldSince
    <2>1. CASE c \in C
      BY <1>2, <2>1
    <2>2. CASE c \notin C
      BY <1>0, <1>3, <2>2 DEF EndedAccessStops
    <2> QED
      BY <2>1, <2>2
  <1>7. NewVersionReadsAgain'
    <2> SUFFICES ASSUME NEW c \in Calls, answer'[c] # -1
                 PROVE  answer'[c] >= floor[member'[c]][version'[c]]
      BY <1>1 DEF NewVersionReadsAgain
    <2>1. CASE c \in C
      BY <1>2, <2>1
    <2>2. CASE c \notin C
      BY <1>0, <1>3, <2>2 DEF NewVersionReadsAgain
    <2> QED
      BY <2>1, <2>2
  <1> QED
    BY <1>5, <1>6, <1>7

\* Every step keeps the inductive invariant.
LEMMA InvStep == Inv /\ [Next]_vars => Inv'
  <1> SUFFICES ASSUME Inv, [Next]_vars PROVE Inv'
    OBVIOUS
  <1>0. /\ TypeOK /\ TypeOK' /\ FloorsAreReached /\ CacheHolds /\ ReadsHold /\ CallsHold
        /\ EndedAccessStops /\ NewVersionReadsAgain
    BY TypeStep DEF Inv
  <1>1. CASE Tick
    <2>1. UNCHANGED <<idVars, readerVars, callVars>> /\ clock' = clock + 1
      BY <1>1 DEF Tick
    <2>2. \A m \in Members, k \in Nat, t \in Int : HeldSince(m, k, t)' = HeldSince(m, k, t)
      BY <2>1, SameHolds
    <2>3. ASSUME NEW m \in Members, NEW v \in Versions, pending[m][v] # NoRead
          PROVE  clock' <= pending[m][v].began + ReadTime
      <3>1. pending[m][v] \in Read /\ clock < pending[m][v].began + ReadTime
        BY <1>0, <1>1, <2>3 DEF Tick, TypeOK
      <3>2. pending[m][v].began \in Int /\ clock \in Int /\ ReadTime \in Int
        BY <1>0, <3>1, ReaderAssumption DEF Read, TypeOK
      <3> QED
        BY <2>1, <3>1, <3>2
    <2>4. FloorsAreReached'
      BY <1>0, <2>1, SameHolds
    <2>5. /\ clock <= clock'
          /\ \A o \in Organisations : epoch[o] <= epoch'[o]
          /\ UNCHANGED floor
      BY <1>0, <2>1, ReaderAssumption DEF TypeOK, idVars, Versions
    <2> QED
      BY <1>0, <2>1, <2>2, <2>3, <2>4, <2>5, WorldStep
  <1>2. CASE ChangeAccess
    <2>1. PICK S : Move(S)
      BY <1>2 DEF ChangeAccess
    <2>2. UNCHANGED <<clock, epoch, floor, readerVars, callVars>>
      BY <1>2 DEF ChangeAccess
    <2>3. \A m \in Members, k \in Nat, t \in Int :
            t <= clock /\ HeldSince(m, k, t) => HeldSince(m, k, t)'
      BY <1>0, <2>1, MoveHolds
    <2>4. FloorsAreReached'
      BY <1>0, <2>1, <2>2, ReaderAssumption DEF FloorsAreReached, Move, TypeOK
    <2>5. \A m \in Members, v \in Versions :
            pending[m][v] # NoRead => clock <= pending[m][v].began + ReadTime
      BY <1>0 DEF ReadsHold, ReadHolds
    <2>6. clock <= clock /\ \A o \in Organisations : epoch[o] <= epoch[o]
      BY <1>0 DEF TypeOK, Versions
    <2> QED
      BY <1>0, <2>2, <2>3, <2>4, <2>5, <2>6, WorldStep
  <1>3. ASSUME NEW o \in Organisations, AdvanceVersion(o) PROVE Inv'
    <2>1. UNCHANGED <<clock, readerVars, callVars>> /\ Move(OfOrganisation(o))
      BY <1>3 DEF AdvanceVersion
    <2>2. \A m \in Members, k \in Nat, t \in Int :
            t <= clock /\ HeldSince(m, k, t) => HeldSince(m, k, t)'
      BY <1>0, <2>1, MoveHolds
    <2>3. /\ epoch' = [epoch EXCEPT ![o] = epoch[o] + 1]
          /\ epoch[o] \in Int /\ epoch'[o] = epoch[o] + 1
          /\ \A p \in Organisations : epoch[p] \in Int
      BY <1>0, <1>3 DEF AdvanceVersion, TypeOK, Versions
    <2>4. ASSUME NEW m \in Members
          PROVE  access[m] \in Int /\ access'[m] \in Int /\ access[m] <= access'[m]
      <3>1. access[m] \in Int /\ access'[m] \in Int
        BY <1>0 DEF TypeOK
      <3>2. access'[m] = access[m] \/ access'[m] = access[m] + 1
        BY <2>1 DEF Move
      <3> QED
        BY <3>1, <3>2
    <2>5. \A m \in Members, v \in Versions :
            floor'[m][v] = IF OrganisationOf[m] = o /\ v = epoch'[o] THEN access'[m]
                           ELSE floor[m][v]
      BY <1>0, <1>3 DEF AdvanceVersion, TypeOK
    <2>6. FloorsAreReached'
      <3> SUFFICES ASSUME NEW m \in Members, NEW v \in Versions
                   PROVE  floor'[m][v] <= access'[m]
        BY DEF FloorsAreReached
      <3>1. floor[m][v] <= access[m] /\ floor[m][v] \in Int
        BY <1>0, ReaderAssumption DEF FloorsAreReached, TypeOK
      <3> QED
        BY <2>4, <2>5, <3>1
    <2>7. ASSUME NEW m \in Members, NEW v \in Versions, v <= epoch[OrganisationOf[m]]
          PROVE  floor'[m][v] = floor[m][v]
      <3>1. v \in Int
        BY DEF Versions
      <3> QED
        BY <2>3, <2>5, <2>7, <3>1
    <2>8. \A p \in Organisations : epoch[p] <= epoch'[p]
      BY <1>0, <2>3 DEF TypeOK
    <2>9. \A m \in Members, v \in Versions :
            pending[m][v] # NoRead => clock <= pending[m][v].began + ReadTime
      BY <1>0 DEF ReadsHold, ReadHolds
    <2>10. clock <= clock'
      BY <1>0, <2>1 DEF TypeOK
    <2> QED
      BY <1>0, <2>1, <2>2, <2>6, <2>7, <2>8, <2>9, <2>10, WorldStep
  <1>4. ASSUME NEW c \in Calls, NEW m \in Members, NEW v \in Versions,
               AnswerFromCache(c, m, v)
        PROVE  Inv'
    <2>1. /\ UNCHANGED <<clock, idVars, readerVars>>
          /\ Answer({c}, Kept(m, v).value, "cache")
          /\ member'[c] = m /\ version'[c] = v /\ v <= epoch[OrganisationOf[m]]
          /\ \A d \in Calls \ {c} : member'[d] = member[d] /\ version'[d] = version[d]
      BY <1>0, <1>4 DEF AnswerFromCache, Arrive, TypeOK
    <2>2. /\ Kept(m, v) = cache[m] /\ cache[m] \in Entry /\ EntryHolds(m, cache[m])
          /\ cache[m].version = v /\ clock < cache[m].expires
      <3>1. Kept(m, v) # NoEntry /\ clock < Kept(m, v).expires
        BY <1>4 DEF AnswerFromCache, Servable
      <3>2. Kept(m, v) = cache[m] /\ cache[m].version = v
        BY <1>0, <3>1, KeptType
      <3>3. cache[m] \in Entry
        BY <1>0, <3>1, <3>2 DEF TypeOK
      <3> QED
        BY <1>0, <3>1, <3>2, <3>3 DEF CacheHolds
    <2>3. /\ cache[m].value \in Nat /\ cache[m].value \in Said /\ cache[m].expires \in Int
          /\ clock \in Int /\ Lifetime \in Nat /\ ReadTime \in Nat
      BY <1>0, <2>2, ReaderAssumption DEF Entry, Said, TypeOK
    <2>4. HeldSince(m, cache[m].value, clock - Lifetime - ReadTime + 1)
      BY <1>0, <2>2, <2>3, HeldEarlier DEF EntryHolds
    <2>5. cache[m].value >= floor[m][v]
      BY <2>2 DEF EntryHolds
    <2>6. CallsHold' /\ EndedAccessStops' /\ NewVersionReadsAgain'
      BY <1>0, <2>1, <2>2, <2>3, <2>4, <2>5, AnswerStep
    <2>7. FloorsAreReached' /\ CacheHolds' /\ ReadsHold'
      BY <1>0, <2>1, ReaderStep DEF readerVars, CacheHolds, ReadsHold
    <2> QED
      BY <1>0, <2>6, <2>7 DEF Inv
  <1>5. ASSUME NEW c \in Calls, NEW m \in Members, NEW v \in Versions,
               AwaitRead(c, m, v)
        PROVE  Inv'
    <2>1. /\ UNCHANGED <<clock, idVars, cache, answer, answered>>
          /\ at'[c] = "waiting" /\ at[c] = "idle"
          /\ member'[c] = m /\ version'[c] = v /\ v <= epoch[OrganisationOf[m]]
          /\ \A d \in Calls \ {c} :
               member'[d] = member[d] /\ version'[d] = version[d] /\ at'[d] = at[d]
      BY <1>0, <1>5 DEF AwaitRead, Arrive, TypeOK
    <2>2. UNCHANGED <<access, ended, epoch, floor>> /\ answer[c] = -1
      BY <1>0, <2>1 DEF idVars, CallsHold
    <2>3. CallsHold'
      BY <1>0, <2>1, <2>2 DEF CallsHold
    <2>4. EndedAccessStops'
      BY <1>0, <2>1, <2>2 DEF EndedAccessStops, HeldSince
    <2>5. NewVersionReadsAgain'
      BY <1>0, <2>1, <2>2 DEF NewVersionReadsAgain
    <2>6. ReadHolds(m, v, [kept |-> Kept(m, v), began |-> clock, said |-> -1])
      <3>1. Kept(m, v) # NoEntry => EntryHolds(m, Kept(m, v)) /\ Kept(m, v).version = v
        BY <1>0, KeptType DEF CacheHolds
      <3>2. clock <= clock + ReadTime /\ clock <= clock
        BY <1>0, ReaderAssumption DEF TypeOK
      <3> QED
        BY <2>1, <3>1, <3>2 DEF ReadHolds
    <2>7. ASSUME NEW n \in Members, NEW w \in Versions, pending'[n][w] # NoRead
          PROVE  ReadHolds(n, w, pending'[n][w])
      <3>1. \/ pending'[n][w] = pending[n][w]
            \/ /\ n = m /\ w = v
               /\ pending'[n][w] = [kept |-> Kept(m, v), began |-> clock, said |-> -1]
        BY <1>0, <1>5 DEF AwaitRead, TypeOK
      <3> QED
        BY <1>0, <2>6, <2>7, <3>1 DEF ReadsHold
    <2>8. FloorsAreReached' /\ CacheHolds' /\ ReadsHold'
      BY <1>0, <2>1, <2>7, ReaderStep DEF CacheHolds
    <2> QED
      BY <1>0, <2>3, <2>4, <2>5, <2>8 DEF Inv
  <1>6. ASSUME NEW m \in Members, NEW v \in Versions, IdAnswers(m, v) PROVE Inv'
    <2>1. /\ UNCHANGED <<clock, idVars, cache, callVars>>
          /\ pending[m][v] # NoRead /\ ReadHolds(m, v, pending[m][v])
      BY <1>0, <1>6 DEF IdAnswers, ReadsHold
    <2>2. pending[m][v] \in Read
      BY <1>0, <2>1 DEF TypeOK
    <2>3. ReadHolds(m, v, [pending[m][v] EXCEPT !.said = access[m]])
      <3>1. HeldSince(m, access[m], pending[m][v].began) /\ access[m] >= floor[m][v]
        <4>1. access[m] \in Int /\ floor[m][v] \in Int /\ floor[m][v] <= access[m]
          BY <1>0 DEF FloorsAreReached, TypeOK
        <4> QED
          BY <4>1 DEF HeldSince
      <3> QED
        BY <2>1, <2>2, <3>1 DEF ReadHolds, Read
    <2>4. ASSUME NEW n \in Members, NEW w \in Versions, pending'[n][w] # NoRead
          PROVE  ReadHolds(n, w, pending'[n][w])
      <3>1. \/ pending'[n][w] = pending[n][w]
            \/ /\ n = m /\ w = v
               /\ pending'[n][w] = [pending[m][v] EXCEPT !.said = access[m]]
        BY <1>0, <1>6 DEF IdAnswers, TypeOK
      <3> QED
        BY <1>0, <2>3, <2>4, <3>1 DEF ReadsHold
    <2>5. FloorsAreReached' /\ CacheHolds' /\ ReadsHold'
      BY <1>0, <2>1, <2>4, ReaderStep DEF CacheHolds
    <2>6. CallsHold' /\ EndedAccessStops' /\ NewVersionReadsAgain'
      BY <1>0, <2>1 DEF idVars, callVars, CallsHold, EndedAccessStops,
                        NewVersionReadsAgain, HeldSince
    <2> QED
      BY <1>0, <2>5, <2>6 DEF Inv
  <1>7. ASSUME NEW m \in Members, NEW v \in Versions, Remember(m, v) PROVE Inv'
    <2> DEFINE said == pending[m][v].said
    <2>1. /\ UNCHANGED <<clock, idVars, member, version>>
          /\ Answer(Waiting(m, v), said, "read")
          /\ pending[m][v] # NoRead /\ said # -1 /\ ReadHolds(m, v, pending[m][v])
      BY <1>0, <1>7 DEF Remember, ReadsHold
    <2>2. pending[m][v] \in Read
      BY <1>0, <2>1 DEF TypeOK
    <2>3. /\ said \in Nat /\ said \in Said /\ pending[m][v].began \in Int
          /\ clock \in Int /\ Lifetime \in Nat \ {0} /\ ReadTime \in Nat
      BY <1>0, <2>1, <2>2, ReaderAssumption DEF Read, Said, TypeOK
    <2>4. /\ HeldSince(m, said, pending[m][v].began) /\ said >= floor[m][v]
          /\ v <= epoch[OrganisationOf[m]]
          /\ clock <= pending[m][v].began + ReadTime
      BY <2>1 DEF ReadHolds
    <2>5. /\ HeldSince(m, said, clock - Lifetime - ReadTime + 1)
          /\ HeldSince(m, said, clock + Lifetime - Lifetime - ReadTime)
      BY <1>0, <2>3, <2>4, HeldEarlier
    <2>6. EntryHolds(m, Fresh(m, v, said))
      BY <2>3, <2>4, <2>5 DEF EntryHolds, Fresh
    <2>7. \A c \in Waiting(m, v) : member'[c] = m /\ version'[c] = v
      BY <2>1 DEF Waiting
    <2>8. CallsHold' /\ EndedAccessStops' /\ NewVersionReadsAgain'
      <3>1. Waiting(m, v) \in SUBSET Calls
        BY DEF Waiting
      <3> QED
        BY <1>0, <2>1, <2>3, <2>4, <2>5, <2>7, <3>1, AnswerStep
    <2>9. ASSUME NEW n \in Members, cache'[n] # NoEntry
          PROVE  EntryHolds(n, cache'[n])
      <3>1. \/ cache'[n] = cache[n]
            \/ n = m /\ cache'[n] = Fresh(m, v, said)
        BY <1>0, <1>7, <2>9 DEF Remember, TypeOK
      <3> QED
        BY <1>0, <2>6, <2>9, <3>1 DEF CacheHolds
    <2>10. ASSUME NEW n \in Members, NEW w \in Versions, pending'[n][w] # NoRead
           PROVE  ReadHolds(n, w, pending'[n][w])
      <3>1. pending'[n][w] = pending[n][w]
        BY <1>0, <1>7, <2>10 DEF Remember, TypeOK
      <3> QED
        BY <1>0, <2>10, <3>1 DEF ReadsHold
    <2>11. FloorsAreReached' /\ CacheHolds' /\ ReadsHold'
      BY <1>0, <2>1, <2>9, <2>10, ReaderStep
    <2> QED
      BY <1>0, <2>8, <2>11 DEF Inv
  <1>8. ASSUME NEW m \in Members, NEW v \in Versions, ReadFails(m, v) PROVE Inv'
    <2> DEFINE kept == pending[m][v].kept
    <2>1. /\ UNCHANGED <<clock, idVars, cache, member, version>>
          /\ pending[m][v] # NoRead /\ ReadHolds(m, v, pending[m][v])
      BY <1>0, <1>8 DEF ReadFails, ReadsHold
    <2>2. pending[m][v] \in Read /\ kept \in Entry \cup {NoEntry}
      BY <1>0, <2>1 DEF TypeOK, Read
    <2>3. v <= epoch[OrganisationOf[m]] /\ Waiting(m, v) \in SUBSET Calls
      BY <2>1 DEF ReadHolds, Waiting
    <2>4. \A c \in Waiting(m, v) : member'[c] = m /\ version'[c] = v
      BY <2>1 DEF Waiting
    <2>5. CallsHold' /\ EndedAccessStops' /\ NewVersionReadsAgain'
      <3>1. CASE /\ kept # NoEntry /\ clock < kept.expires
                 /\ Answer(Waiting(m, v), kept.value, "kept")
        <4>1. EntryHolds(m, kept) /\ kept.version = v /\ kept \in Entry
          BY <2>1, <2>2, <3>1 DEF ReadHolds
        <4>2. /\ kept.value \in Nat /\ kept.value \in Said /\ kept.expires \in Int
              /\ clock \in Int /\ Lifetime \in Nat /\ ReadTime \in Nat
          <5>1. kept.value \in Nat /\ kept.expires \in Int
            BY <4>1 DEF Entry
          <5>2. clock \in Int /\ Lifetime \in Nat /\ ReadTime \in Nat
            BY <1>0, ReaderAssumption DEF TypeOK
          <5> QED
            BY <5>1, <5>2 DEF Said
        <4>3. HeldSince(m, kept.value, clock - Lifetime - ReadTime + 1)
          BY <1>0, <3>1, <4>1, <4>2, HeldEarlier DEF EntryHolds
        <4>4. kept.value >= floor[m][v]
          BY <4>1 DEF EntryHolds
        <4> QED
          BY <1>0, <2>1, <2>3, <2>4, <3>1, <4>2, <4>3, <4>4, AnswerStep
      <3>2. CASE Answer(Waiting(m, v), -1, "none")
        BY <1>0, <2>1, <2>3, <2>4, <3>2, AnswerStep DEF Said
      <3> QED
        BY <1>8, <3>1, <3>2 DEF ReadFails
    <2>6. ASSUME NEW n \in Members, NEW w \in Versions, pending'[n][w] # NoRead
          PROVE  ReadHolds(n, w, pending'[n][w])
      <3>1. pending'[n][w] = pending[n][w]
        BY <1>0, <1>8, <2>6 DEF ReadFails, TypeOK
      <3> QED
        BY <1>0, <2>6, <3>1 DEF ReadsHold
    <2>7. FloorsAreReached' /\ CacheHolds' /\ ReadsHold'
      BY <1>0, <2>1, <2>6, ReaderStep DEF CacheHolds
    <2> QED
      BY <1>0, <2>5, <2>7 DEF Inv
  <1>9. ASSUME NEW O \in SUBSET Organisations, NEW U \in SUBSET Users, Invalidate(O, U)
        PROVE  Inv'
    <2>1. UNCHANGED <<clock, idVars, pending, callVars>>
      BY <1>9 DEF Invalidate
    <2>2. ASSUME NEW m \in Members, cache'[m] # NoEntry
          PROVE  EntryHolds(m, cache'[m])
      <3>1. \/ cache'[m] = cache[m]
            \/ cache[m] # NoEntry /\ cache'[m] = [cache[m] EXCEPT !.stale = TRUE]
        BY <1>0, <1>9 DEF Invalidate, TypeOK
      <3>2. cache[m] # NoEntry => cache[m] \in Entry /\ EntryHolds(m, cache[m])
        BY <1>0 DEF CacheHolds, TypeOK
      <3> QED
        BY <2>2, <3>1, <3>2 DEF EntryHolds, Entry
    <2>3. FloorsAreReached' /\ CacheHolds' /\ ReadsHold'
      BY <1>0, <2>1, <2>2, ReaderStep DEF ReadsHold
    <2>4. CallsHold' /\ EndedAccessStops' /\ NewVersionReadsAgain'
      BY <1>0, <2>1 DEF idVars, callVars, CallsHold, EndedAccessStops,
                        NewVersionReadsAgain, HeldSince
    <2> QED
      BY <1>0, <2>3, <2>4 DEF Inv
  <1>10. CASE UNCHANGED vars
    BY <1>0, <1>10 DEF vars, idVars, readerVars, callVars, Inv, FloorsAreReached,
         CacheHolds, ReadsHold, ReadHolds, EntryHolds, CallsHold, EndedAccessStops,
         NewVersionReadsAgain, HeldSince
  <1> QED
    BY <1>1, <1>2, <1>3, <1>4, <1>5, <1>6, <1>7, <1>8, <1>9, <1>10 DEF Next

\* The inductive invariant.
THEOREM ReaderInvariance == Spec => []Inv
  <1>1. Init => Inv
    <2> SUFFICES ASSUME Init PROVE Inv
      OBVIOUS
    <2>1. TypeOK
      BY ReaderAssumption DEF Init, TypeOK, Versions, Said, Call
    <2>2. FloorsAreReached /\ CacheHolds /\ ReadsHold
      BY DEF Init, FloorsAreReached, CacheHolds, ReadsHold
    <2>3. CallsHold /\ EndedAccessStops /\ NewVersionReadsAgain
      BY DEF Init, CallsHold, EndedAccessStops, NewVersionReadsAgain
    <2> QED
      BY <2>1, <2>2, <2>3 DEF Inv
  <1>2. QED
    BY <1>1, InvStep, PTL DEF Spec

\* What ID takes away stops being told a lifetime and a read later.
THEOREM AccessThatEndedStops == Spec => []EndedAccessStops
  <1>1. Inv => EndedAccessStops
    BY DEF Inv
  <1>2. QED
    BY <1>1, ReaderInvariance, PTL

\* A token of a new version is never told what was before it.
THEOREM VersionsReadAgain == Spec => []NewVersionReadsAgain
  <1>1. Inv => NewVersionReadsAgain
    BY DEF Inv
  <1>2. QED
    BY <1>1, ReaderInvariance, PTL

-----------------------------------------------------------------------------
(***************************************************************************)
(* An invalidation that meets no read in flight has every later call read  *)
(* again: the invariant Quiet, beside Inv.                                 *)
(***************************************************************************)
\* Steps of the world, which leave the reader and its callers alone.
LEMMA QuietWorldStep ==
  ASSUME Inv, Quiet, UNCHANGED <<readerVars, callVars>>, access' \in [Members -> Nat],
         \A m \in Members : access[m] <= access'[m]
  PROVE  Quiet'
  <1>1. \A m \in Members : quiet[m] \in Nat /\ access[m] \in Nat /\ access'[m] \in Nat
    BY ReaderAssumption DEF Inv, TypeOK
  <1>2. QuietIsReached'
    BY <1>1 DEF Quiet, QuietIsReached, readerVars
  <1>3. CacheIsQuiet' /\ ReadsAreQuiet' /\ CallsAreQuiet' /\ QuietInvalidationReadsAgain'
    BY DEF Quiet, CacheIsQuiet, ReadsAreQuiet, CallsAreQuiet, QuietInvalidationReadsAgain,
       readerVars, callVars
  <1> QED
    BY <1>2, <1>3 DEF Quiet

\* Answers as new as their callers are owed.
LEMMA QuietAnswerStep ==
  ASSUME Inv, Inv', Quiet, UNCHANGED quiet,
         NEW C \in SUBSET Calls, NEW value \in Said, NEW from, Answer(C, value, from),
         \A c \in Calls \ C : owed'[c] = owed[c] /\ member'[c] = member[c],
         from \in {"cache", "read"} => \A c \in C : value >= owed'[c].quiet
  PROVE  CallsAreQuiet' /\ QuietInvalidationReadsAgain'
  BY DEF Answer, Quiet, CallsAreQuiet, QuietInvalidationReadsAgain

\* What invalidations that met no read promise goes on being kept.
LEMMA QuietStep == Inv /\ Inv' /\ Quiet /\ [Next]_vars => Quiet'
  <1> SUFFICES ASSUME Inv, Inv', Quiet, [Next]_vars PROVE Quiet'
    OBVIOUS
  <1>0. /\ TypeOK /\ TypeOK' /\ QuietIsReached /\ CacheIsQuiet /\ ReadsAreQuiet
        /\ CallsAreQuiet /\ QuietInvalidationReadsAgain
    BY DEF Inv, Quiet
  <1>1. CASE Tick
    BY <1>0, <1>1, ReaderAssumption, QuietWorldStep DEF Tick, idVars, TypeOK
  <1>2. CASE ChangeAccess
    <2>1. \A m \in Members : access[m] <= access'[m]
      <3>1. \A S : Move(S) => \A m \in Members : access[m] <= access'[m]
        BY SMTT(30), <1>0, ReaderAssumption DEF Move, TypeOK
      <3> QED
        BY <1>2, <3>1 DEF ChangeAccess
    <2> QED
      BY <1>0, <1>2, <2>1, ReaderAssumption, QuietWorldStep DEF ChangeAccess, TypeOK
  <1>3. ASSUME NEW o \in Organisations, AdvanceVersion(o) PROVE Quiet'
    <2>1. \A m \in Members : access[m] <= access'[m]
      BY <1>0, <1>3, ReaderAssumption DEF AdvanceVersion, Move, TypeOK
    <2> QED
      BY <1>0, <1>3, <2>1, ReaderAssumption, QuietWorldStep DEF AdvanceVersion, TypeOK
  <1>4. ASSUME NEW c \in Calls, NEW m \in Members, NEW v \in Versions, AnswerFromCache(c, m, v)
        PROVE  Quiet'
    <2>1. UNCHANGED <<clock, idVars, readerVars>> /\ Arrive(c, m, v)
          /\ Answer({c}, Kept(m, v).value, "cache")
      BY <1>4 DEF AnswerFromCache
    <2>2. Kept(m, v) = cache[m] /\ cache[m] # NoEntry /\ ~cache[m].stale /\ cache[m] \in Entry
      BY <1>0, <1>4 DEF AnswerFromCache, Servable, Kept, TypeOK
    <2>3. cache[m].value \in Nat /\ cache[m].value >= quiet[m]
      BY <1>0, <2>2 DEF Entry, CacheIsQuiet
    <2>4. /\ owed'[c] = [promised |-> promised[m], quiet |-> quiet[m]]
          /\ \A d \in Calls \ {c} : owed'[d] = owed[d] /\ member'[d] = member[d]
      BY <1>0, <2>1 DEF Arrive, TypeOK
    <2>5. CallsAreQuiet' /\ QuietInvalidationReadsAgain'
      BY <2>1, <2>2, <2>3, <2>4, QuietAnswerStep DEF Said, readerVars
    <2>6. QuietIsReached' /\ CacheIsQuiet' /\ ReadsAreQuiet'
      BY <1>0, <2>1 DEF idVars, readerVars, QuietIsReached, CacheIsQuiet, ReadsAreQuiet
    <2> QED
      BY <2>5, <2>6 DEF Quiet
  <1>5. ASSUME NEW c \in Calls, NEW m \in Members, NEW v \in Versions, AwaitRead(c, m, v)
        PROVE  Quiet'
    <2>1. /\ UNCHANGED <<clock, idVars, cache, promised, quiet, answer, source, answered>>
          /\ Arrive(c, m, v) /\ at' = [at EXCEPT ![c] = "waiting"]
      BY <1>5 DEF AwaitRead
    <2>2. /\ owed'[c] = [promised |-> promised[m], quiet |-> quiet[m]] /\ member'[c] = m
          /\ at[c] = "idle"
          /\ \A d \in Calls \ {c} : owed'[d] = owed[d] /\ member'[d] = member[d]
      BY <1>0, <2>1 DEF Arrive, TypeOK
    <2>3. \A n \in Members : quiet[n] \in Nat
      BY <1>0 DEF TypeOK
    <2>4. CallsAreQuiet'
      <3>1. /\ owed'[c].quiet = quiet'[member'[c]] /\ quiet'[member'[c]] \in Nat
            /\ source'[c] = "none"
        BY <1>0, <2>1, <2>2, <2>3 DEF CallsAreQuiet
      <3>2. at'[c] = "waiting" /\ \A d \in Calls \ {c} : at'[d] = at[d]
        BY <1>0, <2>1 DEF TypeOK
      <3> QED
        BY <1>0, <2>1, <2>2, <3>1, <3>2 DEF CallsAreQuiet
    <2>5. QuietInvalidationReadsAgain'
      BY <1>0, <2>1, <2>2 DEF CallsAreQuiet, QuietInvalidationReadsAgain
    <2>6. \A n \in Members, w \in Versions :
            pending'[n][w] = pending[n][w] \/ pending'[n][w].said = -1
      BY <1>0, <1>5 DEF AwaitRead, TypeOK
    <2>7. QuietIsReached' /\ CacheIsQuiet' /\ ReadsAreQuiet'
      BY <1>0, <2>1, <2>6 DEF idVars, QuietIsReached, CacheIsQuiet, ReadsAreQuiet
    <2> QED
      BY <2>4, <2>5, <2>7 DEF Quiet
  <1>6. ASSUME NEW m \in Members, NEW v \in Versions, IdAnswers(m, v) PROVE Quiet'
    <2>1. UNCHANGED <<idVars, cache, promised, quiet, callVars>>
      BY <1>6 DEF IdAnswers
    <2>2. pending[m][v] \in Read
      BY <1>0, <1>6 DEF IdAnswers, TypeOK
    <2>3. \A n \in Members, w \in Versions :
            \/ pending'[n][w] = pending[n][w]
            \/ n = m /\ pending'[n][w].said = access[m]
      BY <1>0, <1>6, <2>2 DEF IdAnswers, TypeOK, Read
    <2>4. ReadsAreQuiet'
      BY ZenonT(30), <1>0, <2>1, <2>3 DEF ReadsAreQuiet, QuietIsReached, TypeOK
    <2>5. QuietIsReached' /\ CacheIsQuiet' /\ CallsAreQuiet' /\ QuietInvalidationReadsAgain'
      BY <1>0, <2>1 DEF idVars, callVars, QuietIsReached, CacheIsQuiet, CallsAreQuiet,
         QuietInvalidationReadsAgain
    <2> QED
      BY <2>4, <2>5 DEF Quiet
  <1>7. ASSUME NEW m \in Members, NEW v \in Versions, Remember(m, v) PROVE Quiet'
    <2> DEFINE said == pending[m][v].said
    <2>1. /\ UNCHANGED <<clock, idVars, promised, quiet, member, version, owed>>
          /\ Answer(Waiting(m, v), said, "read")
          /\ pending[m][v] # NoRead /\ said # -1
      BY <1>7 DEF Remember
    <2>2. said \in Nat /\ said >= quiet[m]
      BY <1>0, <2>1 DEF ReadsAreQuiet, TypeOK, Read, Said
    <2>3. Waiting(m, v) \in SUBSET Calls
      BY DEF Waiting
    <2>4. \A c \in Waiting(m, v) : said >= owed[c].quiet
      <3>1. quiet[m] \in Nat /\ \A c \in Calls : owed[c].quiet \in Nat
        BY <1>0 DEF TypeOK, Call
      <3>2. \A c \in Waiting(m, v) : c \in Calls /\ owed[c].quiet <= quiet[m]
        BY <1>0 DEF Waiting, CallsAreQuiet
      <3> QED
        BY <2>2, <3>1, <3>2
    <2>5. CallsAreQuiet' /\ QuietInvalidationReadsAgain'
      BY <2>1, <2>2, <2>3, <2>4, QuietAnswerStep DEF Said
    <2>6. CacheIsQuiet'
      <3>1. \A n \in Members : \/ cache'[n] = cache[n] \/ cache'[n] = NoEntry
                               \/ n = m /\ cache'[n] = Fresh(m, v, said)
        BY <1>7 DEF Remember
      <3> QED
        BY <1>0, <2>1, <2>2, <3>1 DEF CacheIsQuiet, Fresh
    <2>7. \A n \in Members, w \in Versions :
            pending'[n][w] = pending[n][w] \/ pending'[n][w] = NoRead
      BY <1>0, <1>7 DEF Remember, TypeOK
    <2>8. QuietIsReached' /\ ReadsAreQuiet'
      BY <1>0, <2>1, <2>7 DEF idVars, QuietIsReached, ReadsAreQuiet
    <2> QED
      BY <2>5, <2>6, <2>8 DEF Quiet
  <1>8. ASSUME NEW m \in Members, NEW v \in Versions, ReadFails(m, v) PROVE Quiet'
    <2>1. UNCHANGED <<clock, idVars, cache, promised, quiet, member, version, owed>>
      BY <1>8 DEF ReadFails
    <2>2. PICK value \in Said, from \in {"kept", "none"} : Answer(Waiting(m, v), value, from)
      <3>1. pending[m][v].kept # NoEntry => pending[m][v].kept.value \in Said
        BY <1>0, <1>8 DEF ReadFails, TypeOK, Read, Entry, Said
      <3> QED
        BY <1>8, <3>1 DEF ReadFails, Said
    <2>3. CallsAreQuiet' /\ QuietInvalidationReadsAgain'
      BY <2>1, <2>2, QuietAnswerStep DEF Waiting
    <2>4. \A n \in Members, w \in Versions :
            pending'[n][w] = pending[n][w] \/ pending'[n][w] = NoRead
      BY <1>0, <1>8 DEF ReadFails, TypeOK
    <2>5. QuietIsReached' /\ CacheIsQuiet' /\ ReadsAreQuiet'
      BY <1>0, <2>1, <2>4 DEF idVars, QuietIsReached, CacheIsQuiet, ReadsAreQuiet
    <2> QED
      BY <2>3, <2>5 DEF Quiet
  <1>9. ASSUME NEW O \in SUBSET Organisations, NEW U \in SUBSET Users, Invalidate(O, U)
        PROVE  Quiet'
    <2>1. UNCHANGED <<clock, idVars, pending, callVars>>
      BY <1>9 DEF Invalidate
    <2>2. \A m \in Members :
            \/ quiet'[m] = quiet[m] /\ (cache'[m] = cache[m] \/ cache'[m].stale)
            \/ /\ quiet'[m] = access[m] /\ ~InFlight(m)
               /\ cache'[m] = NoEntry \/ cache'[m].stale
      BY <1>0, <1>9 DEF Invalidate, Named, TypeOK, Entry
    <2>3. \A m \in Members : quiet[m] \in Nat /\ access[m] \in Nat /\ quiet[m] <= access[m]
      BY <1>0, ReaderAssumption DEF QuietIsReached, TypeOK
    <2>4. QuietIsReached' /\ CacheIsQuiet'
      BY <1>0, <2>1, <2>2, <2>3 DEF idVars, QuietIsReached, CacheIsQuiet
    <2>5. ReadsAreQuiet'
      BY <1>0, <2>1, <2>2 DEF ReadsAreQuiet, InFlight
    <2>6. CallsAreQuiet'
      <3>1. \A m \in Members : quiet[m] <= quiet'[m] /\ quiet'[m] \in Nat
        BY <2>2, <2>3
      <3>2. \A c \in Calls : member[c] \in Members /\ owed[c].quiet \in Nat
        BY <1>0 DEF TypeOK, Call
      <3> QED
        BY <1>0, <2>1, <2>3, <3>1, <3>2 DEF callVars, CallsAreQuiet
    <2>7. QuietInvalidationReadsAgain'
      BY <1>0, <2>1 DEF callVars, QuietInvalidationReadsAgain
    <2> QED
      BY <2>4, <2>5, <2>6, <2>7 DEF Quiet
  <1>10. CASE UNCHANGED vars
    BY <1>0, <1>10 DEF vars, idVars, readerVars, callVars, Quiet, QuietIsReached, CacheIsQuiet,
       ReadsAreQuiet, CallsAreQuiet, QuietInvalidationReadsAgain
  <1> QED
    BY <1>1, <1>2, <1>3, <1>4, <1>5, <1>6, <1>7, <1>8, <1>9, <1>10 DEF Next

\* A call gets access at least as new as what it is owed: as its token's version,
\* and as any invalidation it came after that met no read in flight.
THEOREM CallsReadWhatIsOwed == Spec => []CallsReadWhatTheyAreOwed
  <1>1. Init => Quiet
    BY DEF Init, Quiet, QuietIsReached, CacheIsQuiet, ReadsAreQuiet, CallsAreQuiet,
       QuietInvalidationReadsAgain
  <1>2. Inv /\ Inv' /\ Quiet /\ [Next]_vars => Quiet'
    BY QuietStep
  <1>3. Inv /\ Quiet => CallsReadWhatTheyAreOwed
    BY DEF Inv, Quiet, CallsReadWhatTheyAreOwed
  <1> QED
    BY <1>1, <1>2, <1>3, ReaderInvariance, PTL DEF Spec

(***************************************************************************)
(* The poller.                                                             *)
(***************************************************************************)
USE PollerAssumption DEF Ids, Unread, NeverPolled

-----------------------------------------------------------------------------
\* A page is a part of the log below the cursor, newest first.
LEMMA PageFacts ==
  ASSUME NEW page \in Pages
  PROVE  /\ page \subseteq log
         /\ \A e \in page : e < cursor
         /\ \A e \in page, f \in log : e < f /\ f < cursor => f \in page
  BY DEF Pages, Below

\* The new events of a page, and what they name.
LEMMA NewEventsFacts ==
  ASSUME NEW page
  PROVE  NewEvents(page) \subseteq page
  BY DEF NewEvents

\* What events name is subjects, and every relevant event names one.
LEMMA NamesFacts ==
  ASSUME PollerTypeOK, NEW events \in SUBSET Ids
  PROVE  /\ Names(events) \subseteq Subjects
         /\ \A e \in events : Relevant(e) => names[e] \in Names(events)
  BY DEF Names, Relevant, PollerTypeOK

\* Every step keeps the types.
LEMMA PollerTypeStep == PollerTypeOK /\ [PollerNext]_pollerVars => PollerTypeOK'
  <1> SUFFICES ASSUME PollerTypeOK, [PollerNext]_pollerVars PROVE PollerTypeOK'
    OBVIOUS
  <1> USE DEF PollerTypeOK, logVars, pollVars
  <1>1. CASE Mint
    BY <1>1 DEF Mint
  <1>2. ASSUME NEW e \in Ids, Commit(e) PROVE PollerTypeOK'
    BY <1>2 DEF Commit
  <1>3. ASSUME NEW e \in Ids, Abort(e) PROVE PollerTypeOK'
    BY <1>3 DEF Abort
  <1>4. CASE StartPoll
    BY <1>4 DEF StartPoll
  <1>5. CASE ReadOn
    <2>1. PICK page \in Pages, top \in Ids :
            /\ newest' = top /\ cursor' \in page
            /\ found' = found \cup Names(page)
      BY <1>5 DEF ReadOn
    <2>2. page \subseteq Ids
      BY PageFacts
    <2> QED
      BY <1>5, <2>1, <2>2, NamesFacts DEF ReadOn
  <1>6. CASE FinishPoll
    <2>1. PICK page \in Pages, top \in Ids \cup {0} :
            /\ last' = IF top # 0 THEN top ELSE IF last # NeverPolled THEN last ELSE 0
            /\ first' = IF last = NeverPolled THEN last' ELSE first
      BY <1>6 DEF FinishPoll
    <2>2. told' \subseteq Ids
      BY <1>6 DEF FinishPoll
    <2>3. last' \in 0..NeverPolled /\ first' \in 0..NeverPolled
      BY <2>1
    <2> QED
      BY <1>6, <2>2, <2>3 DEF FinishPoll
  <1>7. CASE FailPoll
    <2>1. late' \subseteq Ids
      BY <1>7 DEF FailPoll
    <2>2. cursor' \in 1..Unread /\ newest' \in 0..MaxEvents
      BY <1>7, PollerAssumption DEF FailPoll, Unread
    <2> QED
      BY <1>7, <2>1, <2>2 DEF FailPoll
  <1>8. CASE Restart
    BY <1>8 DEF Restart
  <1>9. CASE UNCHANGED pollerVars
    BY <1>9 DEF pollerVars
  <1> QED
    BY <1>1, <1>2, <1>3, <1>4, <1>5, <1>6, <1>7, <1>8, <1>9 DEF PollerNext

\* Every variable of the log and its poller keeps to its type.
THEOREM PollerTypeCorrect == PollerSpec => []PollerTypeOK
  <1>1. PollerInit => PollerTypeOK
    BY DEF PollerInit, PollerTypeOK
  <1>2. QED
    BY <1>1, PollerTypeStep, PTL DEF PollerSpec

-----------------------------------------------------------------------------
(***************************************************************************)
(* Nothing is skipped.                                                     *)
(***************************************************************************)
LEMMA PollerInvStep == PollerInv /\ [PollerNext]_pollerVars => PollerInv'
  <1> SUFFICES ASSUME PollerInv, [PollerNext]_pollerVars PROVE PollerInv'
    OBVIOUS
  <1>0. PollerTypeOK /\ PollerTypeOK'
    BY PollerTypeStep DEF PollerInv
  <1> USE DEF logVars, pollVars, Relevant
  <1> USE DEF PollerInv, PollerTypeOK, PollHoldsWhatItPassed, LateIsPassed,
              LastIsCommitted, NothingIsSkipped, Skipped
  <1>1. CASE Mint
    BY <1>0, <1>1 DEF Mint
  <1>2. ASSUME NEW e \in Ids, Commit(e) PROVE PollerInv'
    <2>1. /\ e \in writing
          /\ log' = log \cup {e} /\ writing' = writing \ {e}
          /\ late' = IF Passed(e) THEN late \cup {e} ELSE late
          /\ UNCHANGED <<names, minted, last, pollVars, first, told>>
      BY <1>0, <1>2 DEF Commit
    <2>2. LateIsPassed'
      BY <1>0, <2>1 DEF Passed
    <2>3. PollHoldsWhatItPassed'
      BY <1>0, <2>1 DEF Passed
    <2>4. LastIsCommitted'
      BY <1>0, <2>1
    <2>5. NothingIsSkipped'
      BY <1>0, <2>1 DEF Passed
    <2> QED
      BY <1>0, <2>2, <2>3, <2>4, <2>5
  <1>3. ASSUME NEW e \in Ids, Abort(e) PROVE PollerInv'
    BY <1>0, <1>3 DEF Abort
  <1>4. CASE StartPoll
    BY <1>0, <1>4 DEF StartPoll
  <1>5. CASE ReadOn
    <2>1. PICK page \in Pages, top \in Ids :
            /\ NewEvents(page) = page /\ Newest(page, top)
            /\ newest' = top
            /\ found' = found \cup Names(page)
            /\ \E oldest \in page : (\A e \in page : oldest <= e) /\ cursor' = oldest
      BY <1>5 DEF ReadOn
    <2> PICK oldest \in page : (\A e \in page : oldest <= e) /\ cursor' = oldest
      BY <2>1
    <2>2. /\ page \subseteq log /\ page \subseteq Ids
          /\ \A e \in page : e < cursor
          /\ \A e \in page, f \in log : e < f /\ f < cursor => f \in page
      BY <1>0, PageFacts
    <2>3. \A e \in page : Relevant(e) => names[e] \in Names(page)
      BY <1>0, <2>2, NamesFacts
    <2>4. last # NeverPolled /\ last < oldest
      BY <1>0, <2>1, <2>2 DEF NewEvents
    <2>5. top \in log /\ oldest <= top
      BY <1>0, <2>1, <2>2 DEF Newest
    <2>6. \A e \in log : oldest <= e /\ e <= top =>
            e \in page \/ (newest # 0 /\ cursor <= e /\ e <= newest)
      BY <1>0, <2>1, <2>2 DEF Newest
    <2>7. PollHoldsWhatItPassed'
      BY <1>0, <1>5, <2>1, <2>2, <2>3, <2>4, <2>5, <2>6 DEF ReadOn
    <2>8. LateIsPassed'
      <3> SUFFICES ASSUME NEW e \in late
                   PROVE  last # NeverPolled /\ (e <= last \/ (oldest <= e /\ e <= top))
        BY <1>5, <2>1, <2>5 DEF ReadOn
      <3>1. /\ last # NeverPolled /\ oldest < cursor
            /\ e <= last \/ (newest # 0 /\ cursor <= e /\ e <= newest)
        BY <1>0, <2>2
      <3>2. newest # 0 => top = newest
        BY <2>1 DEF Newest
      <3> QED
        BY <1>0, <2>2, <3>1, <3>2
    <2> QED
      BY <1>0, <1>5, <2>7, <2>8 DEF ReadOn
  <1>6. CASE FinishPoll
    <2>1. PICK page \in Pages, top \in Ids \cup {0} :
            /\ NewEvents(page) # page \/ page = Below
            /\ Newest(page, top)
            /\ last' = IF top # 0 THEN top ELSE IF last # NeverPolled THEN last ELSE 0
            /\ first' = IF last = NeverPolled THEN last' ELSE first
            /\ told' = told \cup
                 {e \in log : names[e] \in found \cup Names(NewEvents(page))}
      BY <1>6 DEF FinishPoll
    <2>2. /\ page \subseteq log /\ page \subseteq Ids
          /\ \A e \in page : e < cursor
          /\ \A e \in page, f \in log : e < f /\ f < cursor => f \in page
      BY <1>0, PageFacts
    <2>3. \A e \in NewEvents(page) : Relevant(e) => names[e] \in Names(NewEvents(page))
      BY <1>0, <2>2, NamesFacts, NewEventsFacts
    <2>4. /\ top # 0 => top \in log
          /\ UNCHANGED logVars
      BY <1>0, <1>6, <2>1, <2>2 DEF Newest, FinishPoll
    <2>5. ASSUME last # NeverPolled,
                 NEW e \in log \ late, Relevant(e), last < e, top # 0, e <= top
          PROVE  e \in told'
      <3>1. CASE newest # 0 /\ cursor <= e
        BY <1>0, <2>1, <2>5, <3>1 DEF Newest
      <3>2. CASE e \in page
        BY <1>0, <2>1, <2>2, <2>3, <2>5, <3>2 DEF NewEvents
      <3>3. CASE e \notin page /\ (newest = 0 \/ e < cursor)
        <4>1. e < cursor /\ e \in Below
          BY <1>0, <2>5, <3>3 DEF Below
        <4>2. PICK f \in page : ~(f > last)
          BY <2>1, <2>5, <3>3, <4>1 DEF NewEvents
        <4>3. f < e
          BY <1>0, <2>2, <2>5, <4>2
        <4> QED
          BY <2>2, <3>3, <4>1, <4>3
      <3> QED
        BY <1>0, <2>2, <2>5, <3>1, <3>2, <3>3
    <2>6. last # NeverPolled /\ last' # 0 => last <= last'
      <3>1. CASE last # NeverPolled /\ top # 0 /\ top < last
        <4>1. newest = 0 /\ last \in log /\ last < cursor /\ page # {}
          BY <1>0, <2>1, <2>2, <3>1 DEF Newest
        <4>2. \A e \in page : e <= top /\ e < last
          BY <1>0, <2>1, <2>2, <3>1, <4>1 DEF Newest
        <4> QED
          BY <2>1, <2>2, <3>1, <4>1, <4>2 DEF Newest
      <3> QED
        BY <1>0, <2>1, <3>1
    <2>7. NothingIsSkipped'
      <3> SUFFICES ASSUME last' # NeverPolled,
                          NEW e \in log \ late, Relevant(e), first' < e, e <= last'
                   PROVE  e \in told'
        BY <1>6, <2>4 DEF FinishPoll
      <3>1. last # NeverPolled /\ first' = first
        BY <1>0, <2>1
      <3> QED
        BY <1>0, <2>1, <2>5, <3>1
    <2>8. LastIsCommitted'
      BY <1>0, <2>1, <2>4, <2>6
    <2>9. PollHoldsWhatItPassed'
      BY <1>0, <1>6 DEF FinishPoll
    <2>10. LateIsPassed'
      <3> SUFFICES ASSUME NEW e \in late
                   PROVE  last' # NeverPolled /\ e <= last'
        BY <1>6 DEF FinishPoll
      <3>1. /\ last # NeverPolled
            /\ e <= last \/ (newest # 0 /\ e <= newest)
        BY <1>0
      <3>2. newest # 0 => top = newest
        BY <2>1 DEF Newest
      <3>3. last' # NeverPolled /\ (last' # 0 => last <= last') /\ (top # 0 => last' = top)
        BY <1>0, <2>1, <2>6, <3>1
      <3>4. e # 0 /\ (last' = 0 => top = 0 /\ last = 0)
        BY <1>0, <2>1, <3>1
      <3> QED
        BY <1>0, <3>1, <3>2, <3>3, <3>4
    <2> QED
      BY <1>0, <2>7, <2>8, <2>9, <2>10
  <1>7. CASE FailPoll
    BY <1>0, <1>7 DEF FailPoll
  <1>8. CASE Restart
    BY <1>0, <1>8 DEF Restart
  <1>9. CASE UNCHANGED pollerVars
    BY <1>0, <1>9 DEF pollerVars
  <1> QED
    BY <1>1, <1>2, <1>3, <1>4, <1>5, <1>6, <1>7, <1>8, <1>9 DEF PollerNext

\* A poller (startAuditPoller) passes by no event that committed ahead of it.
THEOREM PollerSkipsNothing == PollerSpec => []NothingIsSkipped
  <1>1. PollerInit => PollerInv
    BY DEF PollerInit, PollerInv, PollerTypeOK, PollHoldsWhatItPassed, LateIsPassed,
           LastIsCommitted, NothingIsSkipped, Skipped
  <1>2. PollerInv => NothingIsSkipped
    BY DEF PollerInv
  <1>3. QED
    BY <1>1, <1>2, PollerInvStep, PTL DEF PollerSpec
==============================================================================
