---------------------------- MODULE AuditPoller ----------------------------
(***************************************************************************)
(* ID's audit log and the poller with which each server that caches what   *)
(* ID says learns that it changed (packages/mcp-platform/src/poller.ts).   *)
(*                                                                         *)
(* An administrative transaction mints its event's id before it commits,   *)
(* and transactions commit in any order; ids order the log.  A poll reads successful events newest first, a page *)
(* an await, back to the last one it has seen, and then invalidates what   *)
(* they name in every cache.  Other writers commit between its pages, any  *)
(* page may fail, and the process may restart.                             *)
(*                                                                         *)
(* Abstracted: an event is its id; what it names is one subject, an        *)
(* organisation or a user, or nothing that a cache keeps.                  *)
(***************************************************************************)
EXTENDS Naturals, FiniteSets

CONSTANTS
  MaxEvents,      \* bound: how many ids are minted
  Subjects,       \* the organisations and users events name
  Nothing,        \* what an event of another action prefix names
  PageSize        \* events a page holds (200 in the code)

Ids == 1..MaxEvents
Unread == MaxEvents + 1   \* the cursor of a poll's first page
NeverPolled == MaxEvents + 1   \* `last` before a poll has succeeded

ASSUME PollerAssumption ==
  /\ MaxEvents \in Nat /\ PageSize \in Nat \ {0}
  /\ Nothing \notin Subjects

VARIABLES
  names,     \* what each event names
  minted,    \* the newest id minted
  writing,   \* the ids of transactions that have not committed
  log,       \* the committed events
  last,      \* the newest event the poller has seen; 0 for an empty log
  poll,      \* "reading" while one is under way (`busy`)
  cursor,    \* its next page is below this id
  newest,    \* the newest event it has read, or 0
  found,     \* the subjects its pages named
  first,     \* what this process's first poll recorded without announcing
  told,      \* the events whose subject was invalidated once they could be read
  late       \* those that committed when the poller was already past their id

logVars == <<names, minted, writing, log>>
pollVars == <<poll, cursor, newest, found>>
pollerVars == <<logVars, last, pollVars, first, told, late>>

Relevant(e) == names[e] # Nothing

PollerInit ==
  /\ names \in [Ids -> Subjects \cup {Nothing}]
  /\ minted = 0 /\ writing = {} /\ log = {}
  /\ last = NeverPolled /\ first = NeverPolled
  /\ poll = "idle" /\ cursor = Unread /\ newest = 0 /\ found = {}
  /\ told = {} /\ late = {}

-----------------------------------------------------------------------------
(***************************************************************************)
(* ID's writers.                                                           *)
(***************************************************************************)
Mint ==
  /\ minted < MaxEvents
  /\ minted' = minted + 1
  /\ writing' = writing \cup {minted + 1}
  /\ UNCHANGED <<names, log, last, pollVars, first, told, late>>

\* Whether the poller has gone past an id, with its last poll or with the pages
\* of this one.
Passed(e) ==
  \/ last # NeverPolled /\ e <= last
  \/ newest # 0 /\ cursor <= e /\ e <= newest

Commit(e) ==
  /\ e \in writing
  /\ writing' = writing \ {e}
  /\ log' = log \cup {e}
  /\ late' = IF Passed(e) THEN late \cup {e} ELSE late
  /\ UNCHANGED <<names, minted, last, pollVars, first, told>>

Abort(e) ==
  /\ e \in writing
  /\ writing' = writing \ {e}
  /\ UNCHANGED <<names, minted, log, last, pollVars, first, told, late>>

-----------------------------------------------------------------------------
(***************************************************************************)
(* The poller.                                                             *)
(***************************************************************************)
\* A tick of the interval while no poll runs.
StartPoll ==
  /\ poll = "idle"
  /\ poll' = "reading" /\ cursor' = Unread /\ newest' = 0 /\ found' = {}
  /\ UNCHANGED <<logVars, last, first, told, late>>

Below == {e \in log : e < cursor}

\* The pages ID may answer with: the newest events below the cursor, as many
\* as a page holds.
Pages ==
  {page \in SUBSET Below :
     /\ \A e \in page, f \in Below : e < f => f \in page
     /\ \/ page = Below /\ Cardinality(page) <= PageSize
        \/ Cardinality(page) = PageSize}

\* Those of a page's events that the poller has not seen.  A first poll has
\* no last event, and stops at the newest.
NewEvents(page) == IF last = NeverPolled THEN {} ELSE {e \in page : e > last}

\* What a cache must forget for them.
Names(events) == {names[e] : e \in events} \ {Nothing}

\* The newest event of the poll, once it has read this page.
Newest(page, top) ==
  IF newest # 0 THEN top = newest
  ELSE IF page = {} THEN top = 0
  ELSE top \in page /\ \A e \in page : e <= top

\* Mutant: the newest event is remembered before every page is read.
ReadOnRemembering ==
  /\ poll = "reading"
  /\ \E page \in Pages, top \in Ids :
       /\ NewEvents(page) = page /\ page # Below
       /\ Newest(page, top)
       /\ newest' = top /\ last' = top
       /\ found' = found \cup Names(page)
       /\ \E oldest \in page : (\A e \in page : oldest <= e) /\ cursor' = oldest
  /\ UNCHANGED <<logVars, poll, first, told, late>>

\* Every event of the page is new, and ID has more.
ReadOn ==
  /\ poll = "reading"
  /\ \E page \in Pages, top \in Ids :
       /\ NewEvents(page) = page /\ page # Below
       /\ Newest(page, top)
       /\ newest' = top
       /\ found' = found \cup Names(page)
       /\ \E oldest \in page : (\A e \in page : oldest <= e) /\ cursor' = oldest
  /\ UNCHANGED <<logVars, last, poll, first, told, late>>

\* Mutant: a poll that finds the log empty still has no last event.
FinishForgettingEmpty ==
  /\ poll = "reading"
  /\ \E page \in Pages, top \in Ids \cup {0} :
       /\ NewEvents(page) # page \/ page = Below
       /\ Newest(page, top)
       /\ last' = IF top # 0 THEN top ELSE last
       /\ first' = IF first = NeverPolled THEN top ELSE first
       /\ told' = told \cup
            {e \in log : names[e] \in found \cup Names(NewEvents(page))}
  /\ poll' = "idle" /\ cursor' = Unread /\ newest' = 0 /\ found' = {}
  /\ UNCHANGED <<logVars, late>>

\* The page that meets the last event seen, or is ID's last: remember the
\* newest event and invalidate what the new ones name.
FinishPoll ==
  /\ poll = "reading"
  /\ \E page \in Pages, top \in Ids \cup {0} :
       /\ NewEvents(page) # page \/ page = Below
       /\ Newest(page, top)
       /\ last' = IF top # 0 THEN top ELSE IF last # NeverPolled THEN last ELSE 0
       /\ first' = IF last = NeverPolled THEN last' ELSE first
       /\ told' = told \cup
            {e \in log : names[e] \in found \cup Names(NewEvents(page))}
  /\ poll' = "idle" /\ cursor' = Unread /\ newest' = 0 /\ found' = {}
  /\ UNCHANGED <<logVars, late>>

\* ID does not answer a page: what the poll found is dropped, and `last` stays.
FailPoll ==
  /\ poll = "reading"
  /\ poll' = "idle" /\ cursor' = Unread /\ newest' = 0 /\ found' = {}
  /\ late' = {e \in late : e <= last}
  /\ UNCHANGED <<logVars, last, first, told>>

\* A new process has empty caches, which no earlier event can make stale.
Restart ==
  /\ last' = NeverPolled /\ first' = NeverPolled
  /\ poll' = "idle" /\ cursor' = Unread /\ newest' = 0 /\ found' = {}
  /\ told' = log /\ late' = {}
  /\ UNCHANGED logVars

PollerNext ==
  \/ Mint \/ \E e \in Ids : Commit(e) \/ Abort(e)
  \/ StartPoll \/ ReadOn \/ FinishPoll \/ FailPoll \/ Restart

PollerSpec == PollerInit /\ [][PollerNext]_pollerVars

\* The interval ticks, and ID, however often it fails to answer, answers the
\* page below each cursor that is asked for again and again.
FairSpec ==
  /\ PollerSpec /\ WF_pollerVars(StartPoll) /\ SF_pollerVars(FinishPoll)
  /\ \A e \in Ids \cup {Unread} : SF_pollerVars(cursor = e /\ ReadOn)

-----------------------------------------------------------------------------
(***************************************************************************)
(* Properties.                                                             *)
(***************************************************************************)
\* Every variable keeps to its type.
PollerTypeOK ==
  /\ names \in [Ids -> Subjects \cup {Nothing}]
  /\ minted \in 0..MaxEvents
  /\ writing \subseteq Ids /\ log \subseteq Ids /\ told \subseteq Ids /\ late \subseteq Ids
  /\ last \in 0..NeverPolled /\ first \in 0..NeverPolled
  /\ poll \in {"idle", "reading"} /\ cursor \in 1..Unread /\ newest \in 0..MaxEvents
  /\ found \subseteq Subjects

\* Whether an event that a cache must hear of has been passed without telling it:
\* the poller's last event is no older, and it was not this process's first poll,
\* which only records the newest event, that went past it.
Skipped(e) ==
  /\ last # NeverPolled /\ Relevant(e)
  /\ first < e /\ e <= last /\ e \notin told

\* No event that committed ahead of the poller is passed by: failed polls, events
\* that arrive between pages, pages that shift and restarts leave no gap
\* (startAuditPoller: "back to the last event seen").
NothingIsSkipped == \A e \in log \ late : ~Skipped(e)

\* Nothing at all is passed by, as the order of ids is taken to be that of time
\* (read: "UUIDv7, so they sort by time").  Violated: an event that commits after
\* a newer one was read has an id the poller never goes back to.
NothingIsPassedBy == \A e \in log : ~Skipped(e)

\* What a server's caches keep is announced stale in the end, however often
\* polls fail (startAuditPoller: "a failed poll is logged and the next one
\* catches up"), unless it committed behind the poller.
EveryChangeIsTold ==
  \A e \in Ids :
    (e \in log \ late /\ Relevant(e) /\ first < e /\ first # NeverPolled)
      ~> (e \in told \/ first = NeverPolled)

(***************************************************************************)
(* Why nothing is skipped: a poll has announced, or holds in `found`, all   *)
(* that was new between its cursor and its newest event; what commits while *)
(* it pages is older, newer, or late.                                      *)
(***************************************************************************)
PollHoldsWhatItPassed ==
  /\ (newest = 0) = (cursor = Unread)
  /\ newest # 0 =>
       /\ poll = "reading" /\ newest \in log /\ cursor <= newest
       /\ last # NeverPolled /\ last < cursor
       /\ \A e \in log \ late : Relevant(e) /\ cursor <= e /\ e <= newest =>
            names[e] \in found

\* Only what this process has passed, or has read past in this poll, is late.
LateIsPassed ==
  \A e \in late :
    /\ last # NeverPolled
    /\ e <= last \/ (newest # 0 /\ cursor <= e /\ e <= newest)

LastIsCommitted ==
  /\ \A e \in log \cup writing : e <= minted
  /\ last # NeverPolled => first <= last /\ last <= minted
  /\ (last = NeverPolled) = (first = NeverPolled)
  /\ last \in Ids => last \in log
  /\ told \subseteq log

PollerInv == /\ PollerTypeOK /\ PollHoldsWhatItPassed /\ LateIsPassed
       /\ LastIsCommitted /\ NothingIsSkipped
=============================================================================
