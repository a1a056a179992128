----------------------------- MODULE Enablement -----------------------------
(***************************************************************************)
(* Enabling an organisation takes several writes, and none is rolled back. *)
(* The Toolbox's enable operation (mcps/toolbox/src/admin-enable.ts) reads *)
(* what Answerable ID and its own catalogue hold, then runs what is        *)
(* missing, the catalogue last. The admin server's standalone.enable       *)
(* (mcps/admin/src/standalone.ts) plans when it prepares and runs its      *)
(* steps when it commits, each under a key of its own.                     *)
(*                                                                         *)
(* Calls of both overlap each other, administrators who change the same    *)
(* rows, and replicas that boot and ingest a new manifest. A request to ID *)
(* may get no answer and be applied later.                                 *)
(*                                                                         *)
(* One organisation and one resource, the Toolbox's or a standalone MCP's, *)
(* so that all calls are of one of the two. A call names one host client   *)
(* and one provider; the capabilities of a client, of either target and    *)
(* either grant kind, are one row here, and so are its entitlements. A row *)
(* is `unfit` when it is disabled or lacks scopes. Of a provider's         *)
(* overrides only the capabilities turned off are kept: policy classes go  *)
(* with them.                                                              *)
(***************************************************************************)
EXTENDS Naturals

CONSTANTS
  Calls,         \* enable operations, each repeated by its caller when it fails
  Hosts,         \* host clients
  Providers,     \* providers mounted in the Toolbox
  Scopes,        \* what the resource may allow: each provider's scopes, and others
  Capabilities,  \* the capabilities a provider may have
  NoCall,        \* no call waits for this request
  MaxMoves,      \* bound: changes by administrators
  MaxFailures    \* bound: requests that are not answered

ASSUME EnablementAssumption ==
  /\ NoCall \notin Calls
  /\ Providers \subseteq Scopes
  /\ MaxMoves \in Nat /\ MaxFailures \in Nat

Rows == {"link", "capability", "entitlement"}

\* The steps of an enable operation, in their order.
CatalogueFirst == <<"catalogue", "scopes", "link", "capability", "entitlement">>
Order == <<"scopes", "link", "capability", "entitlement", "catalogue">>

StepsOf(tool) == IF tool = "toolbox" THEN Rows \cup {"scopes", "catalogue"} ELSE Rows

VARIABLES
  rows,       \* what ID holds of each host client
  allowed,    \* the scopes that the resource allows
  etag,       \* the resource's revision, and the organisation's, which an intent names too
  catalogue,  \* the organisation's entry for each provider
  known,      \* the capabilities stored of each provider
  calls,      \* the enable operations
  late,       \* requests to ID that nobody waits for, or that were sent again
  moves, failures

enablementVars == <<rows, allowed, etag, catalogue, known, calls, late, moves, failures>>

\* A call that has read nothing yet.
Asked(tool, h, p) ==
  [place |-> "reading", tool |-> tool, host |-> h, provider |-> p,
   etag |-> 0, seen |-> {}, off |-> {},
   todo |-> {}, created |-> {}, mine |-> {}, resent |-> FALSE, undone |-> {}]

EnablementInit ==
  /\ rows = [h \in Hosts |-> [r \in Rows |-> "absent"]]
  /\ allowed = {}
  /\ etag = 0
  /\ catalogue = [p \in Providers |-> [enabled |-> FALSE, disabled |-> {}]]
  /\ known = [p \in Providers |-> {}]
  /\ \E tool \in {"toolbox", "standalone"} :
       calls \in [Calls -> {Asked(tool, h, p) : h \in Hosts, p \in Providers}]
  /\ late = {}
  /\ moves = 0
  /\ failures = 0

Goes(c, call) == calls' = [calls EXCEPT ![c] = call]

\* Calls about to write an entry remember that somebody wrote it meanwhile.
Told(cs, p) ==
  [c \in Calls |-> IF cs[c].provider = p /\ "catalogue" \in cs[c].todo
                   THEN [cs[c] EXCEPT !.undone = @ \cup {"overrides"}] ELSE cs[c]]

-----------------------------------------------------------------------------
(* A call: what it is asked, and what it reads before it writes. *)

\* A call that failed is repeated, as its answer says ("repeat the call, which
\* skips what already exists"): a new operation, or a new intent, with new keys.
Again(c) == Asked(calls[c].tool, calls[c].host, calls[c].provider)

Fails(c) == Goes(c, Again(c))

\* One that met a row that does not fit is repeated when somebody sees to it.
Repeat(c) ==
  /\ calls[c].place = "unfit"
  /\ Goes(c, Again(c))
  /\ UNCHANGED <<rows, allowed, etag, catalogue, known, late, moves, failures>>

\* Which of the steps that a read informs are missing.
MissingAlways(c, step) ==
  IF step = "scopes" THEN calls[c].tool = "toolbox" /\ calls[c].provider \notin allowed
  ELSE TRUE
Missing(c, step) ==
  IF step = "scopes" THEN calls[c].tool = "toolbox" /\ calls[c].provider \notin allowed
  ELSE rows[calls[c].host][step] = "absent"

Lacking(c, steps) == calls[c].todo \cup {s \in steps : Missing(c, s)}

Reads(c) == UNCHANGED <<rows, allowed, etag, catalogue, known, late, moves, failures>>

\* GET the resource: its allowed scopes, its clients and its ETag, kept by a
\* call that will name them (a standalone.enable names the ETag when it commits).
ReadResource(c) ==
  LET adds == Missing(c, "scopes")
      standalone == calls[c].tool = "standalone"
  IN /\ calls[c].place = "reading"
     /\ Goes(c, [calls[c] EXCEPT !.place = "capability", !.todo = Lacking(c, {"scopes", "link"}),
                 !.etag = IF adds \/ standalone THEN etag ELSE 0,
                 !.seen = IF adds THEN allowed ELSE {}])
     /\ Reads(c)

\* A list of capabilities or entitlements: a row that does not fit stops the
\* call before it has written anything. A standalone.enable that misses nothing
\* is told so ("nothing to enable") and has no intent to commit.
ReadRows(c) ==
  LET row == calls[c].place
      next == IF row = "capability" THEN "entitlement"
              ELSE IF calls[c].tool = "toolbox" THEN "catalogue"
              ELSE IF Lacking(c, {row}) = {} THEN "running" ELSE "checking"
  IN /\ row \in {"capability", "entitlement"}
     /\ IF rows[calls[c].host][row] = "unfit" THEN Goes(c, [Again(c) EXCEPT !.place = "unfit"])
        ELSE Goes(c, [calls[c] EXCEPT !.place = next, !.todo = Lacking(c, {row})])
     /\ Reads(c)

\* The catalogue's entry, with the overrides that enabling it writes back.
ReadEntry(c) ==
  LET entry == catalogue[calls[c].provider]
  IN /\ calls[c].place = "catalogue"
     /\ IF entry.enabled THEN Goes(c, [calls[c] EXCEPT !.place = "running"])
        ELSE Goes(c, [calls[c] EXCEPT !.place = "running", !.off = entry.disabled,
                      !.todo = @ \cup {"catalogue"}])
     /\ Reads(c)

\* A commit of standalone.enable prepares once more, in one step here. A row that
\* no longer fits, nothing left to make, or a revision that moved since the
\* preparation ends it; otherwise the plan of the preparation is run, not this one.
Recheck(c) ==
  LET unfit == \E row \in Rows : rows[calls[c].host][row] = "unfit"
      stands == etag = calls[c].etag /\ \E row \in Rows : Missing(c, row)
  IN /\ calls[c].place = "checking"
     /\ IF unfit THEN Goes(c, [Again(c) EXCEPT !.place = "unfit"])
        ELSE IF ~stands THEN Fails(c)
        ELSE Goes(c, [calls[c] EXCEPT !.place = "running", !.etag = 0, !.seen = {}])
     /\ Reads(c)

-----------------------------------------------------------------------------
(* What a write does, whoever waits for its answer. *)

\* A request for a step, and the call that waits for its answer, if one does.
Request(c, step, of) ==
  [step |-> step, host |-> calls[c].host, provider |-> calls[c].provider, of |-> of,
   etag |-> IF step = "scopes" THEN calls[c].etag ELSE 0,
   seen |-> IF step = "scopes" THEN calls[c].seen ELSE {}]

\* ID takes a write: a PATCH under the revision it names, a row that is not
\* there. A link that is there already is answered as if it had been made.
MatchesAny(q) == TRUE
Matches(q) == etag = q.etag

Taken(q) ==
  \/ q.step = "scopes" /\ Matches(q)
  \/ q.step = "link"
  \/ q.step \in {"capability", "entitlement"} /\ rows[q.host][q.step] = "absent"

\* Linking touches the resource's revision (touch_client_resource_revision).
AppliedToId(q) ==
  LET links == q.step = "link" /\ rows[q.host].link = "absent"
  IN /\ allowed' = IF q.step = "scopes" THEN q.seen \cup {q.provider} ELSE allowed
     /\ rows' = IF q.step = "scopes" THEN rows ELSE [rows EXCEPT ![q.host][q.step] = "fits"]
     /\ etag' = IF links \/ q.step = "scopes" THEN etag + 1 ELSE etag

\* The catalogue's row is written over, whatever it holds by now.
TurnsOn(c) ==
  catalogue' = [catalogue EXCEPT ![calls[c].provider] = [enabled |-> TRUE, disabled |-> calls[c].off]]

\* The first step that is left.
Current(c) ==
  LET left == {i \in 1..5 : Order[i] \in calls[c].todo} IN
  IF calls[c].place # "running" \/ left = {} THEN "none"
  ELSE Order[CHOOSE i \in left : \A j \in left : i <= j]

Past(c, step, made) ==
  [calls[c] EXCEPT !.todo = @ \ {step}, !.resent = FALSE,
                   !.created = IF made THEN @ \cup {step} ELSE @]

\* Keys are of the intent and its step, so that what is sent again is replayed.
Replays(c, step) == calls[c].tool = "standalone" /\ step \in calls[c].mine

-----------------------------------------------------------------------------
(* A call's writes, one after the other. *)

Write(c) ==
  LET step == Current(c) IN
  /\ step \in Rows \cup {"scopes"}
  /\ ~Replays(c, step)
  /\ Taken(Request(c, step, c))
  /\ AppliedToId(Request(c, step, c))
  /\ Goes(c, [Past(c, step, TRUE) EXCEPT !.etag = 0, !.seen = {}, !.mine = @ \cup {step}])
  /\ UNCHANGED <<catalogue, known, late, moves, failures>>

\* Sent again after no answer: ID answers the receipt of the first.
Replay(c) ==
  LET step == Current(c) IN
  /\ step \in Rows
  /\ Replays(c, step)
  /\ Goes(c, Past(c, step, TRUE))
  /\ UNCHANGED <<rows, allowed, etag, catalogue, known, late, moves, failures>>

\* A conflict on a row: standalone.enable counts it as found.
FindsConflict(c) == calls[c].tool = "standalone" /\ Current(c) # "scopes"

\* A refusal: the revision moved, or the row is there by now.
Refused(c) ==
  LET step == Current(c) IN
  /\ step \in Rows \cup {"scopes"}
  /\ ~Replays(c, step)
  /\ ~Taken(Request(c, step, c))
  /\ IF FindsConflict(c) THEN Goes(c, Past(c, step, FALSE)) ELSE Fails(c)
  /\ UNCHANGED <<rows, allowed, etag, catalogue, known, late, moves, failures>>

\* A call that stops waits for no request any more.
Left(c) ==
  LET owned == {q \in late : q.of = c}
  IN (late \ owned) \cup {[q EXCEPT !.of = NoCall] : q \in owned}

\* No answer: the request may be applied later. The admin server sends it once
\* more under its key; the Toolbox stops, and so does a second time.
Unanswered(c) ==
  LET step == Current(c)
      again == calls[c].tool = "standalone" /\ ~calls[c].resent
      sent == Request(c, step, IF again THEN c ELSE NoCall)
  IN /\ step \in Rows \cup {"scopes"}
     /\ failures < MaxFailures
     /\ failures' = failures + 1
     /\ late' = IF again THEN late \cup {sent} ELSE Left(c) \cup {sent}
     /\ IF again THEN Goes(c, [calls[c] EXCEPT !.resent = TRUE]) ELSE Fails(c)
     /\ UNCHANGED <<rows, allowed, etag, catalogue, known, moves>>

\* Sent again while ID still works on the first ("operation_in_progress"): the
\* call stops, told nothing of the write, and the first may be applied later.
StillRunning(c) ==
  /\ \E q \in late : q.of = c /\ q.step = Current(c)
  /\ late' = Left(c)
  /\ Fails(c)
  /\ UNCHANGED <<rows, allowed, etag, catalogue, known, moves, failures>>

\* A request nobody heard of may be applied later; one that never is stays here.
\* One whose key was answered meanwhile is replayed to nobody.
Arrive(q) ==
  /\ Taken(q)
  /\ q.of # NoCall => q.step \notin calls[q.of].mine
  /\ AppliedToId(q)
  /\ late' = late \ {q}
  /\ calls' = IF q.of = NoCall THEN calls
              ELSE [calls EXCEPT ![q.of].mine = @ \cup {q.step}]
  /\ UNCHANGED <<catalogue, known, moves, failures>>

\* The Toolbox's own statement, which may fail, applied or not.
WriteEntry(c) ==
  /\ Current(c) = "catalogue"
  /\ TurnsOn(c)
  /\ \/ /\ calls' = Told([calls EXCEPT ![c] = Past(c, "catalogue", TRUE)], calls[c].provider)
        /\ UNCHANGED failures
     \/ /\ failures < MaxFailures /\ failures' = failures + 1
        /\ calls' = Told([calls EXCEPT ![c] = Again(c)], calls[c].provider)
  /\ UNCHANGED <<rows, allowed, etag, known, late, moves>>

EntryFails(c) ==
  /\ Current(c) = "catalogue"
  /\ failures < MaxFailures
  /\ failures' = failures + 1
  /\ Fails(c)
  /\ UNCHANGED <<rows, allowed, etag, catalogue, known, late, moves>>

\* With nothing left to do, the call is answered.
Done(c) == calls[c].place = "running" /\ calls[c].todo = {}

-----------------------------------------------------------------------------
(* What others do meanwhile. *)

Moves == moves < MaxMoves /\ moves' = moves + 1

\* A call remembers which of its steps somebody undid since it began. A row
\* that somebody else makes unfit is none of these to the Toolbox, which stops.
Undone(step, theirs) ==
  [c \in Calls |-> IF c \in theirs THEN [calls[c] EXCEPT !.undone = @ \cup {step}] ELSE calls[c]]

\* An administrator of ID makes, disables, narrows or removes a row.
ChangeRow(h, row, to) ==
  LET from == rows[h][row] IN
  /\ Moves
  /\ to # from
  /\ row = "link" => to # "unfit"
  /\ rows' = [rows EXCEPT ![h][row] = to]
  /\ etag' = IF row = "link" THEN etag + 1 ELSE etag
  /\ calls' = Undone(row, {c \in Calls :
       calls[c].host = h /\ to # "fits" /\ (from = "fits" \/ calls[c].tool = "standalone")})
  /\ UNCHANGED <<allowed, catalogue, known, late, failures>>

\* An administrator takes a scope from those the resource allows, or adds one.
ChangeScopes(scope) ==
  /\ Moves
  /\ allowed' = (allowed \ {scope}) \cup ({scope} \ allowed)
  /\ etag' = etag + 1
  /\ calls' = Undone("scopes", {c \in Calls : calls[c].provider = scope /\ scope \in allowed})
  /\ UNCHANGED <<rows, catalogue, known, late, failures>>

\* Only calls of the Toolbox meet its catalogue and its boots, which are still
\* where the resource is a standalone MCP's.
OfToolbox == \A c \in Calls : calls[c].tool = "toolbox"

\* PUT of a catalogue entry: it names capabilities that the provider has.
PutEntry(p, enabled, disabled) ==
  /\ OfToolbox
  /\ Moves
  /\ disabled \subseteq known[p]
  /\ catalogue' = [catalogue EXCEPT ![p] = [enabled |-> enabled, disabled |-> disabled]]
  /\ calls' = Told(Undone("catalogue", {c \in Calls : calls[c].provider = p /\ ~enabled}), p)
  /\ UNCHANGED <<rows, allowed, etag, known, late, failures>>

\* A replica boots with a manifest: what the provider never had is stored, and
\* stays off where the provider is enabled, in one transaction.
WithOff(entry, added) == [entry EXCEPT !.disabled = @ \cup added]

Ingest(p, tools) ==
  LET added == tools \ known[p]
      tells == catalogue[p].enabled
  IN /\ OfToolbox
     /\ added # {}
     /\ known' = [known EXCEPT ![p] = @ \cup added]
     /\ catalogue' = IF tells THEN [catalogue EXCEPT ![p] = WithOff(@, added)] ELSE catalogue
     /\ calls' = IF tells THEN Told(calls, p) ELSE calls
     /\ UNCHANGED <<rows, allowed, etag, late, moves, failures>>

-----------------------------------------------------------------------------
Step(c) ==
  \/ ReadResource(c) \/ ReadRows(c) \/ ReadEntry(c) \/ Recheck(c)
  \/ Write(c) \/ Replay(c) \/ Refused(c) \/ WriteEntry(c)

EnablementNext ==
  \/ \E c \in Calls :
       \/ Repeat(c)
       \/ Step(c)
       \/ Unanswered(c)
       \/ StillRunning(c)
       \/ EntryFails(c)
  \/ \E q \in late : Arrive(q)
  \/ \E h \in Hosts, row \in Rows, to \in {"absent", "fits", "unfit"} : ChangeRow(h, row, to)
  \/ \E scope \in Scopes : ChangeScopes(scope)
  \/ \E p \in Providers, enabled \in BOOLEAN, disabled \in SUBSET Capabilities :
       PutEntry(p, enabled, disabled)
  \/ \E p \in Providers, tools \in SUBSET Capabilities : Ingest(p, tools)

EnablementSpec == EnablementInit /\ [][EnablementNext]_enablementVars

\* A process runs what is ready, and a caller repeats what failed.
FairSpec == EnablementSpec /\ \A c \in Calls : WF_enablementVars(Step(c))

-----------------------------------------------------------------------------
(* What enabling promises. *)

InPlace(c, step) ==
  IF step = "scopes" THEN calls[c].provider \in allowed
  ELSE IF step = "catalogue" THEN catalogue[calls[c].provider].enabled
  ELSE rows[calls[c].host][step] = "fits"

Holds(c, steps) == \A s \in steps : InPlace(c, s) \/ s \in calls[c].undone

Enabling == Rows \cup {"scopes"}

\* A provider is turned on only where its people can sign in: when a call turns
\* it on, everything else it needs is in place, found or made, unless someone
\* undid it meanwhile; so a call that fails half way leaves the provider off. A
\* call that is done left nothing out, though rows were made under it. And what
\* it says it created are exactly the rows it made itself, though a request was
\* sent twice or applied late (admin-enable.ts, standalone.ts).
EnablesInFull ==
  \A c \in Calls :
    /\ "catalogue" \in calls[c].created => Holds(c, Enabling)
    /\ Done(c) =>
         /\ Holds(c, StepsOf(calls[c].tool))
         /\ \A row \in {"capability", "entitlement"} \ calls[c].undone :
              row \in calls[c].created <=> row \in calls[c].mine

\* What someone else chose outlasts an enable operation and an ingest: a scope
\* that the resource allows stays allowed, and a capability that is off stays
\* off, until an administrator says otherwise, though calls planned on what was
\* there before. The exception is what the code does not guard: a call that
\* read the entry off, and writes it after another has written it, puts back
\* the overrides it read (admin-enable.ts, catalogue.ts).
Overtaken(p) ==
  \E c \in Calls :
    /\ Current(c) = "catalogue" /\ calls[c].provider = p
    /\ "overrides" \in calls[c].undone

OthersChoicesStay ==
  [][moves' = moves =>
       /\ allowed \subseteq allowed'
       /\ \A p \in Providers :
            ~(catalogue[p].disabled \subseteq catalogue'[p].disabled) => Overtaken(p)]_enablementVars

\* Without that exception, as the ingest is described: "A capability the provider
\* never had before stays off for every organisation that has the provider
\* enabled" (catalogue.ts), until an administrator says otherwise. An enable that
\* was overtaken turns it on.
NewStaysOff ==
  [][moves' = moves =>
       \A p \in Providers :
         catalogue[p].enabled => catalogue[p].disabled \subseteq catalogue'[p].disabled]_enablementVars

\* Whoever repeats an enable operation that failed is done in the end, or told
\* which row does not fit, whatever was applied before, arrives late or is made
\* by another ("repeat the call, which skips what already exists").
RepeatsFinish ==
  \A c \in Calls : calls[c].place = "reading" ~> (Done(c) \/ calls[c].place = "unfit")

-----------------------------------------------------------------------------
(* Why these hold: what a call has read and need not do, and what it did, is in *)
(* place or was undone, and what it plans to write names what it read.         *)

Steps == Enabling \cup {"catalogue"}
Asking == [place : {"reading", "capability", "entitlement", "catalogue", "checking", "running", "unfit"},
           tool : {"toolbox", "standalone"}, host : Hosts, provider : Providers,
           etag : Nat, seen : SUBSET Scopes, off : SUBSET Capabilities,
           todo : SUBSET Steps, created : SUBSET Steps, mine : SUBSET Enabling,
           resent : BOOLEAN, undone : SUBSET (Steps \cup {"overrides"})]
IdRequests == [step : Enabling, host : Hosts, provider : Providers, of : Calls \cup {NoCall},
               etag : Nat, seen : SUBSET Scopes]

EnablementTypeOK ==
  /\ rows \in [Hosts -> [Rows -> {"absent", "fits", "unfit"}]]
  /\ \A h \in Hosts : rows[h]["link"] # "unfit"
  /\ allowed \subseteq Scopes /\ etag \in Nat
  /\ catalogue \in [Providers -> [enabled : BOOLEAN, disabled : SUBSET Capabilities]]
  /\ known \in [Providers -> SUBSET Capabilities]
  /\ calls \in [Calls -> Asking] /\ late \subseteq IdRequests
  /\ moves \in Nat /\ failures \in Nat

\* The steps a call has read.
ReadAt(place) ==
  IF place \in {"reading", "unfit"} THEN {}
  ELSE {"scopes", "link"}
       \cup (IF place = "capability" THEN {} ELSE {"capability"})
       \cup (IF place \in {"capability", "entitlement"} THEN {} ELSE {"entitlement"})
       \cup (IF place = "running" THEN {"catalogue"} ELSE {})
StepsRead(c) == ReadAt(calls[c].place) \cap StepsOf(calls[c].tool)

\* A call plans what it has read, writes when it runs, and writes the catalogue last.
PlansAreRead(c) ==
  /\ calls[c].todo \subseteq StepsRead(c)
  /\ calls[c].place = "catalogue" => calls[c].tool = "toolbox"
  /\ calls[c].place = "checking" => calls[c].tool = "standalone"
  /\ calls[c].place # "running" => calls[c].created = {} /\ calls[c].mine = {}
  /\ "catalogue" \in calls[c].created => calls[c].tool = "toolbox" /\ calls[c].todo = {}

\* What it read and does not plan is in place, and so is what it made; a row that does not fit was
\* changed under a standalone.enable, which looks at rows when it prepares and as its commit begins.
WhatIsReadHolds(c) ==
  /\ Holds(c, (StepsRead(c) \ calls[c].todo) \cup calls[c].mine)
  /\ calls[c].tool = "standalone" =>
       \A row \in Rows \cap StepsRead(c) :
         rows[calls[c].host][row] = "unfit" => row \in calls[c].undone

\* What it counts as created it made, and what it made it counts or will.
CountsItsOwn(c) ==
  \A row \in {"capability", "entitlement"} :
    /\ row \in calls[c].created => row \in calls[c].mine
    /\ row \in calls[c].mine => row \in calls[c].created \cup calls[c].todo \cup calls[c].undone

\* A PATCH of the scopes that still matches adds to what is allowed.
Adds(seen, tag) == tag <= etag /\ (tag = etag => seen = allowed)
ScopesAreAdded(c) == "scopes" \in calls[c].todo => Adds(calls[c].seen, calls[c].etag)

\* The overrides a call will write are the entry's, unless someone wrote it meanwhile.
OverridesAreRead(c) ==
  "catalogue" \in calls[c].todo =>
    \/ "overrides" \in calls[c].undone
    \/ calls[c].off = catalogue[calls[c].provider].disabled

CallInv(c) ==
  /\ PlansAreRead(c) /\ WhatIsReadHolds(c) /\ CountsItsOwn(c) /\ ScopesAreAdded(c)
  /\ OverridesAreRead(c)

\* So does one that is late; and a call waits for a request of its own host, while it runs.
LateInv(q) ==
  /\ q.step = "scopes" => Adds(q.seen, q.etag)
  /\ q.of # NoCall =>
       /\ calls[q.of].tool = "standalone" /\ calls[q.of].place = "running"
       /\ calls[q.of].host = q.host /\ q.step \in Rows

EnablementInv ==
  /\ EnablementTypeOK
  /\ \A c \in Calls : CallInv(c)
  /\ \A q \in late : LateInv(q)
=============================================================================
