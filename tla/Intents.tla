------------------------------ MODULE Intents ------------------------------
(***************************************************************************)
(* The prepare / commit protocol of the MCP SDK (packages/mcp) on its      *)
(* Postgres intent store (packages/mcp-postgres).                          *)
(*                                                                         *)
(* A prepare call reads the versions of a mutation's targets and records   *)
(* an intent; a commit call claims the intent with a compare-and-set on    *)
(* its status, reads the targets again and then runs the mutation's own    *)
(* `commit`.  Every await of the code is a step of its own: each database  *)
(* statement, each evidence record (a transaction of its own) and each     *)
(* call of the mutation's author's code.  Two commit calls therefore       *)
(* interleave anywhere, a call's process may die anywhere, and a statement *)
(* may fail anywhere.                                                      *)
(*                                                                         *)
(* Abstracted: payloads.  An intent keeps the class, the capability        *)
(* version and the version of its targets; a receipt is the commit call    *)
(* that issued it; the targets of an intent are one resource of the        *)
(* source, whose version is a counter.                                     *)
(***************************************************************************)
EXTENDS Naturals, Sequences, FiniteSets

CONSTANTS
  Intents,      \* the intents that prepare calls may record, one per call
  Calls,        \* the calls of a commit tool
  Resources,    \* what mutations target in the source
  TargetOf,     \* the resource each intent's prepare resolves
  Classes,      \* the policy classes in use
  Capabilities, \* the versions of the capability that releases serve
  Arguments,    \* what a commit tool may be called with
  Unreliable,   \* the calls whose process may die or whose statements may fail
  MaxMoves,     \* bound: how far others move a resource's version
  NoCall        \* the receipt of an intent that has none

PolicyClass == {"agent", "controlled", "human"}
CommitTools == {"commit", "commit_confirmed"}

\* The arguments of a commit call, reduced to what commitIntent tells apart:
\* whether caller, commit token and summary are those of the intent.
CommitInput == [intent : Intents, own : BOOLEAN, token : BOOLEAN,
                tool : CommitTools, summary : BOOLEAN]

ASSUME IntentsAssumption ==
  /\ Intents # {} /\ TargetOf \in [Intents -> Resources]
  /\ Classes \subseteq PolicyClass /\ Classes # {}
  /\ Capabilities # {}
  /\ Arguments \subseteq CommitInput
  /\ Unreliable \subseteq Calls
  /\ MaxMoves \in Nat
  /\ NoCall \notin Calls

VARIABLES
  \* the intents table and the evidence of the MCP's database
  status,       \* of each intent; "absent" before its insert, "deleted" after a sweep
  intent,       \* what prepare recorded: class, capability and base version
  receipt,      \* the commit call whose receipt the row holds
  age,          \* how the database's clock stands to expires_at and the replay day
  evidence,     \* the evidence kinds recorded of each intent, in order
  \* the source, and what the organisation and the release decide
  version,      \* the current version of each resource
  applied,      \* the commit calls whose mutation.commit took effect, per intent
  granted,      \* whether the caller may use the mutation
  policy,       \* the class a fresh prepare would give it
  serving,      \* the capability version new requests meet
  \* the calls
  prep,         \* where the prepare call of each intent is
  pc,           \* where each commit call is
  request,      \* its arguments, and what its request read of grants and release
  seen,         \* the status and receipt its last read of the intent returned
  next,         \* where it goes after expiring the intent
  raised,       \* the error its body throws
  answer        \* what its caller was told

rowVars == <<status, intent, receipt, age>>
worldVars == <<granted, policy, serving>>
sourceVars == <<version, applied>>
callVars == <<pc, request, seen, next, raised, answer>>
vars == <<rowVars, evidence, sourceVars, worldVars, prep, callVars>>

Status == {"absent", "prepared", "awaiting_approval", "committing",
           "committed", "failed", "expired", "stale", "deleted"}
Open == {"prepared", "awaiting_approval"}
Age == {"fresh", "expired", "replayed"}
EvidenceKind == {"intent.prepared", "intent.approval_requested",
                 "intent.expired", "intent.stale", "intent.committed",
                 "receipt.issued"}

\* The steps of a commit call up to its claim, and those of the body that
\* `bounded` runs once it has claimed the intent.
ClaimSteps == {"expire", "recordExpired", "select", "decide", "claim"}
BodySteps == {"reprepare", "effect", "settle", "recordCommitted",
              "recordIssued", "stale", "recordStale", "catch"}
Running == ClaimSteps \cup BodySteps
PC == {"idle", "done", "dead"} \cup Running

\* The answers of a commit call.  Those in Refusals say that this call
\* applied nothing.
Refusals == {"INTENT_NOT_FOUND", "PRINCIPAL_MISMATCH", "COMMIT_TOKEN_INVALID",
             "PERMISSION_DENIED", "APPROVAL_REQUIRED", "COMMIT_IN_PROGRESS",
             "INTENT_EXPIRED", "INTENT_STALE", "INTENT_CONSUMED"}
Answer == {"none", "receipt", "replay", "TIMEOUT", "ERROR"} \cup Refusals

Strictness == [agent |-> 0, controlled |-> 1, human |-> 2]
CommitToolName(class) == IF class = "agent" THEN "commit" ELSE "commit_confirmed"

\* What an intent answers that is stored, but is not "prepared".
Settled(was) ==
  CASE was = "committed" -> "replay"
    [] was = "committing" -> "COMMIT_IN_PROGRESS"
    [] was = "awaiting_approval" -> "APPROVAL_REQUIRED"
    [] was = "expired" -> "INTENT_EXPIRED"
    [] was = "stale" -> "INTENT_STALE"
    [] was = "failed" -> "INTENT_CONSUMED"

\* What an intent keeps of its prepare, what a commit call keeps of its
\* request, and what a read of the intent returns.
Plan == [class : Classes, capability : Capabilities, base : Nat]
Request == [intent : Intents, own : BOOLEAN, token : BOOLEAN,
            tool : CommitTools, summary : BOOLEAN,
            capability : Capabilities, permitted : BOOLEAN]
Read == [status : Status, receipt : Calls \cup {NoCall}]

\* Stand-ins for what is not there yet.
NoPlan == [class |-> CHOOSE k \in Classes : TRUE,
           capability |-> CHOOSE v \in Capabilities : TRUE, base |-> 0]
NoRequest == [intent |-> CHOOSE i \in Intents : TRUE, own |-> FALSE,
              token |-> FALSE, tool |-> "commit", summary |-> FALSE,
              capability |-> CHOOSE v \in Capabilities : TRUE, permitted |-> FALSE]

-----------------------------------------------------------------------------
Init ==
  /\ status = [i \in Intents |-> "absent"]
  /\ intent = [i \in Intents |-> NoPlan]
  /\ receipt = [i \in Intents |-> NoCall]
  /\ age = [i \in Intents |-> "fresh"]
  /\ evidence = [i \in Intents |-> <<>>]
  /\ version = [r \in Resources |-> 0]
  /\ applied = [i \in Intents |-> {}]
  /\ granted = TRUE
  /\ policy \in Classes
  /\ serving \in Capabilities
  /\ prep = [i \in Intents |-> "idle"]
  /\ pc = [c \in Calls |-> "idle"]
  /\ request = [c \in Calls |-> NoRequest]
  /\ seen = [c \in Calls |-> [status |-> "absent", receipt |-> NoCall]]
  /\ next = [c \in Calls |-> "select"]
  /\ raised = [c \in Calls |-> "ERROR"]
  /\ answer = [c \in Calls |-> "none"]

-----------------------------------------------------------------------------
(***************************************************************************)
(* Prepare: run the mutation's prepare, decide the class, and record the   *)
(* intent (perform, recordIntent and the store's insert).                  *)
(***************************************************************************)
Record(i, kind) == evidence' = [evidence EXCEPT ![i] = Append(@, kind)]

PrepareTargets(i) ==
  /\ prep[i] = "idle" /\ granted
  /\ prep' = [prep EXCEPT ![i] = "planned"]
  /\ intent' = [intent EXCEPT ![i] = [class |-> policy, capability |-> serving,
                                      base |-> version[TargetOf[i]]]]
  /\ UNCHANGED <<status, receipt, age, evidence, sourceVars, worldVars, callVars>>

\* What an insert's sweep deletes; never an intent that is being committed.
Removable(i) ==
  \/ status[i] \in {"expired", "failed", "stale"}
  \/ status[i] \in Open /\ age[i] # "fresh"
  \/ status[i] = "committed" /\ age[i] = "replayed"

\* At most once a minute of each process: here any insert may sweep, or not.
Sweep(i) ==
  /\ prep[i] = "planned"
  /\ prep' = [prep EXCEPT ![i] = "swept"]
  /\ status' = [j \in Intents |-> IF Removable(j) THEN "deleted" ELSE status[j]]
  /\ UNCHANGED <<intent, receipt, age, evidence, sourceVars, worldVars, callVars>>

Insert(i) ==
  /\ prep[i] \in {"planned", "swept"}
  /\ prep' = [prep EXCEPT ![i] = "inserted"]
  /\ status' = [status EXCEPT ![i] =
       IF intent[i].class = "human" THEN "awaiting_approval" ELSE "prepared"]
  /\ UNCHANGED <<intent, receipt, age, evidence, sourceVars, worldVars, callVars>>

RecordPrepared(i) ==
  /\ prep[i] = "inserted"
  /\ prep' = [prep EXCEPT ![i] =
       IF intent[i].class = "human" THEN "approval" ELSE "told"]
  /\ Record(i, "intent.prepared")
  /\ UNCHANGED <<rowVars, sourceVars, worldVars, callVars>>

RecordApprovalRequested(i) ==
  /\ prep[i] = "approval"
  /\ prep' = [prep EXCEPT ![i] = "told"]
  /\ Record(i, "intent.approval_requested")
  /\ UNCHANGED <<rowVars, sourceVars, worldVars, callVars>>

\* The author's prepare throws or times out, a statement fails, or the
\* process dies: nobody ever learns the intent's id and commit token.
PrepareFails(i) ==
  /\ prep[i] \notin {"idle", "told", "failed"}
  /\ prep' = [prep EXCEPT ![i] = "failed"]
  /\ UNCHANGED <<rowVars, evidence, sourceVars, worldVars, callVars>>

-----------------------------------------------------------------------------
(***************************************************************************)
(* Commit, up to the claim (the server's handler and commitIntent).        *)
(***************************************************************************)
Goto(c, step) == pc' = [pc EXCEPT ![c] = step]

\* A call that has already answered TIMEOUT keeps that answer.
Finish(c, told) ==
  /\ Goto(c, "done")
  /\ answer' = [answer EXCEPT ![c] = IF @ = "none" THEN told ELSE @]

\* The request reads the caller's grants and the release it met before it
\* reads the intent.
Start(c, input) ==
  /\ pc[c] = "idle" /\ prep[input.intent] = "told"
  /\ request' = [request EXCEPT ![c] =
       [intent |-> input.intent, own |-> input.own, token |-> input.token,
        tool |-> input.tool, summary |-> input.summary,
        capability |-> serving, permitted |-> granted]]
  /\ Goto(c, "expire")
  /\ next' = [next EXCEPT ![c] = "select"]
  /\ UNCHANGED <<rowVars, evidence, sourceVars, worldVars, prep, seen, raised, answer>>

\* Mutant: expiry reaches an intent that is being committed.
ExpireCommitting(c) ==
  LET i == request[c].intent IN
  /\ pc[c] = "expire"
  /\ \/ /\ status[i] \in Open \cup {"committing"} /\ age[i] # "fresh"
        /\ status' = [status EXCEPT ![i] = "expired"]
        /\ Goto(c, "recordExpired")
     \/ /\ ~(status[i] \in Open \cup {"committing"} /\ age[i] # "fresh")
        /\ Goto(c, next[c]) /\ UNCHANGED status
  /\ UNCHANGED <<intent, receipt, age, evidence, sourceVars, worldVars, prep,
                 request, seen, next, raised, answer>>

\* Mutant: a call that finds an intent expired records the expiry again.
ExpireAgain(c) ==
  LET i == request[c].intent IN
  /\ pc[c] = "expire"
  /\ \/ /\ status[i] \in Open \cup {"expired"} /\ age[i] # "fresh"
        /\ status' = [status EXCEPT ![i] = "expired"]
        /\ Goto(c, "recordExpired")
     \/ /\ ~(status[i] \in Open \cup {"expired"} /\ age[i] # "fresh")
        /\ Goto(c, next[c]) /\ UNCHANGED status
  /\ UNCHANGED <<intent, receipt, age, evidence, sourceVars, worldVars, prep,
                 request, seen, next, raised, answer>>

\* The first statement of get and of a transition from an open status.
Expire(c) ==
  LET i == request[c].intent IN
  /\ pc[c] = "expire"
  /\ \/ /\ status[i] \in Open /\ age[i] # "fresh"
        /\ status' = [status EXCEPT ![i] = "expired"]
        /\ Goto(c, "recordExpired")
     \/ /\ ~(status[i] \in Open /\ age[i] # "fresh")
        /\ Goto(c, next[c]) /\ UNCHANGED status
  /\ UNCHANGED <<intent, receipt, age, evidence, sourceVars, worldVars, prep,
                 request, seen, next, raised, answer>>

\* get answers the row it expired; transition goes on to its update.
RecordExpired(c) ==
  LET i == request[c].intent IN
  /\ pc[c] = "recordExpired"
  /\ Record(i, "intent.expired")
  /\ \/ /\ next[c] = "select" /\ Goto(c, "decide")
        /\ seen' = [seen EXCEPT ![c] = [status |-> "expired", receipt |-> NoCall]]
     \/ next[c] = "claim" /\ Goto(c, "claim") /\ UNCHANGED seen
  /\ UNCHANGED <<rowVars, sourceVars, worldVars, prep, request, next, raised, answer>>

Select(c) ==
  LET i == request[c].intent IN
  /\ pc[c] = "select"
  /\ seen' = [seen EXCEPT ![c] = [status |-> status[i], receipt |-> receipt[i]]]
  /\ Goto(c, "decide")
  /\ UNCHANGED <<rowVars, evidence, sourceVars, worldVars, prep, request, next,
                 raised, answer>>

\* Mutant: the class is compared with a fresh prepare's, the tool is not.
RefusalAnyTool(c) ==
  LET r == request[c]
      row == intent[r.intent] IN
  IF seen[c].status \in {"absent", "deleted"} THEN "INTENT_NOT_FOUND"
  ELSE IF ~r.own THEN "PRINCIPAL_MISMATCH"
  ELSE IF ~r.token THEN "COMMIT_TOKEN_INVALID"
  ELSE IF seen[c].status # "prepared" THEN Settled(seen[c].status)
  ELSE IF row.capability # r.capability THEN "INTENT_NOT_FOUND"
  ELSE IF ~r.permitted THEN "PERMISSION_DENIED"
  ELSE IF Strictness[policy] > Strictness[row.class] THEN "APPROVAL_REQUIRED"
  ELSE "none"

\* The checks of commitIntent in their order, on the intent as it was read.
Refusal(c) ==
  LET r == request[c]
      row == intent[r.intent] IN
  IF seen[c].status \in {"absent", "deleted"} THEN "INTENT_NOT_FOUND"
  ELSE IF ~r.own THEN "PRINCIPAL_MISMATCH"
  ELSE IF ~r.token THEN "COMMIT_TOKEN_INVALID"
  ELSE IF seen[c].status # "prepared" THEN Settled(seen[c].status)
  ELSE IF row.capability # r.capability THEN "INTENT_NOT_FOUND"
  ELSE IF ~r.permitted THEN "PERMISSION_DENIED"
  ELSE IF \/ Strictness[policy] > Strictness[row.class]
          \/ r.tool # CommitToolName(row.class)
          \/ row.class = "controlled" /\ ~r.summary THEN "APPROVAL_REQUIRED"
  ELSE "none"

Refuse(c) ==
  /\ pc[c] = "decide" /\ Refusal(c) # "none"
  /\ Finish(c, Refusal(c))
  /\ UNCHANGED <<rowVars, evidence, sourceVars, worldVars, prep, request, seen,
                 next, raised>>

Accept(c) ==
  /\ pc[c] = "decide" /\ Refusal(c) = "none"
  /\ Goto(c, "expire")
  /\ next' = [next EXCEPT ![c] = "claim"]
  /\ UNCHANGED <<rowVars, evidence, sourceVars, worldVars, prep, request, seen,
                 raised, answer>>

\* Move the row from one status to another if it is still there.
CanMove(c, from) == status[request[c].intent] = from
Move(c, to) == status' = [status EXCEPT ![request[c].intent] = to]

\* Losing the claim means the status moved on: read the intent again.
Claim(c) ==
  /\ pc[c] = "claim"
  /\ \/ /\ CanMove(c, "prepared") /\ Move(c, "committing")
        /\ Goto(c, "reprepare") /\ UNCHANGED next
     \/ /\ ~CanMove(c, "prepared") /\ UNCHANGED status
        /\ Goto(c, "expire") /\ next' = [next EXCEPT ![c] = "select"]
  /\ UNCHANGED <<intent, receipt, age, evidence, sourceVars, worldVars, prep,
                 request, seen, raised, answer>>

-----------------------------------------------------------------------------
(***************************************************************************)
(* Commit, the body of `apply`: it goes on after the call answered         *)
(* TIMEOUT.                                                                *)
(***************************************************************************)
Throw(c, error) ==
  /\ Goto(c, "catch")
  /\ raised' = [raised EXCEPT ![c] = error]

\* Mutant: prepare runs again for its checks, and its targets are not compared.
ReprepareUncompared(c) ==
  /\ pc[c] = "reprepare"
  /\ \/ Goto(c, "effect") /\ UNCHANGED raised
     \/ Throw(c, "ERROR")
  /\ UNCHANGED <<rowVars, evidence, sourceVars, worldVars, prep, request, seen,
                 next, answer>>

\* Run prepare again and compare the targets; the author's code may throw.
Reprepare(c) ==
  LET i == request[c].intent IN
  /\ pc[c] = "reprepare"
  /\ \/ /\ version[TargetOf[i]] = intent[i].base
        /\ Goto(c, "effect") /\ UNCHANGED raised
     \/ /\ version[TargetOf[i]] # intent[i].base
        /\ Goto(c, "stale") /\ UNCHANGED raised
     \/ Throw(c, "ERROR")
  /\ UNCHANGED <<rowVars, evidence, sourceVars, worldVars, prep, request, seen,
                 next, answer>>

MarkStale(c) ==
  /\ pc[c] = "stale"
  /\ \/ /\ CanMove(c, "committing") /\ Move(c, "stale")
        /\ Goto(c, "recordStale") /\ UNCHANGED raised
     \/ /\ ~CanMove(c, "committing") /\ UNCHANGED status
        /\ Throw(c, "INTENT_STALE")
  /\ UNCHANGED <<intent, receipt, age, evidence, sourceVars, worldVars, prep,
                 request, seen, next, answer>>

RecordStale(c) ==
  /\ pc[c] = "recordStale"
  /\ Record(request[c].intent, "intent.stale")
  /\ Throw(c, "INTENT_STALE")
  /\ UNCHANGED <<rowVars, sourceVars, worldVars, prep, request, seen, next, answer>>

\* The mutation's own commit takes effect in the source and answers, or its
\* answer is lost or refused by the output schema.
Apply(c) ==
  LET i == request[c].intent
      r == TargetOf[i] IN
  /\ pc[c] = "effect"
  /\ applied' = [applied EXCEPT ![i] = @ \cup {c}]
  /\ version' = [version EXCEPT ![r] = @ + 1]
  /\ \/ Goto(c, "settle") /\ UNCHANGED raised
     \/ Throw(c, "ERROR")
  /\ UNCHANGED <<rowVars, evidence, worldVars, prep, request, seen, next, answer>>

\* The mutation's own commit throws before it changes anything.
ApplyFails(c) ==
  /\ pc[c] = "effect"
  /\ Throw(c, "ERROR")
  /\ UNCHANGED <<rowVars, evidence, sourceVars, worldVars, prep, request, seen,
                 next, answer>>

\* The transition's result is not read: the receipt is returned either way.
Settle(c) ==
  /\ pc[c] = "settle"
  /\ \/ /\ CanMove(c, "committing") /\ Move(c, "committed")
        /\ receipt' = [receipt EXCEPT ![request[c].intent] = c]
        /\ Goto(c, "recordCommitted") /\ UNCHANGED answer
     \/ /\ ~CanMove(c, "committing") /\ UNCHANGED <<status, receipt>>
        /\ Finish(c, "receipt")
  /\ UNCHANGED <<intent, age, evidence, sourceVars, worldVars, prep, request,
                 seen, next, raised>>

RecordCommitted(c) ==
  /\ pc[c] = "recordCommitted"
  /\ Record(request[c].intent, "intent.committed")
  /\ Goto(c, "recordIssued")
  /\ UNCHANGED <<rowVars, sourceVars, worldVars, prep, request, seen, next,
                 raised, answer>>

RecordIssued(c) ==
  /\ pc[c] = "recordIssued"
  /\ Record(request[c].intent, "receipt.issued")
  /\ Finish(c, "receipt")
  /\ UNCHANGED <<rowVars, sourceVars, worldVars, prep, request, seen, next, raised>>

\* Mutant: a failed intent may be tried again.
CatchReopens(c) ==
  /\ pc[c] = "catch"
  /\ \/ CanMove(c, "committing") /\ Move(c, "prepared")
     \/ ~CanMove(c, "committing") /\ UNCHANGED status
  /\ Finish(c, raised[c])
  /\ UNCHANGED <<intent, receipt, age, evidence, sourceVars, worldVars, prep,
                 request, seen, next, raised>>

\* Mutant: a failure leaves the intent as it is.
CatchForgets(c) ==
  /\ pc[c] = "catch"
  /\ Finish(c, raised[c])
  /\ UNCHANGED <<rowVars, evidence, sourceVars, worldVars, prep, request, seen,
                 next, raised>>

\* A stale or committed intent has already left committing.
Catch(c) ==
  /\ pc[c] = "catch"
  /\ \/ CanMove(c, "committing") /\ Move(c, "failed")
     \/ ~CanMove(c, "committing") /\ UNCHANGED status
  /\ Finish(c, raised[c])
  /\ UNCHANGED <<intent, receipt, age, evidence, sourceVars, worldVars, prep,
                 request, seen, next, raised>>

\* The deadline of `bounded`: answer without waiting for the body.
Timeout(c) ==
  /\ pc[c] \in BodySteps /\ answer[c] = "none"
  /\ answer' = [answer EXCEPT ![c] = "TIMEOUT"]
  /\ UNCHANGED <<rowVars, evidence, sourceVars, worldVars, prep, pc, request,
                 seen, next, raised>>

\* A statement fails: before the claim and in the handler of an error the
\* call fails; elsewhere in the body the handler runs.
StatementFails(c) ==
  /\ c \in Unreliable
  /\ \/ /\ pc[c] \in ClaimSteps \cup {"catch"}
        /\ Finish(c, "ERROR") /\ UNCHANGED raised
     \/ /\ pc[c] \in BodySteps \ {"reprepare", "effect", "catch"}
        /\ Throw(c, "ERROR") /\ UNCHANGED answer
  /\ UNCHANGED <<rowVars, evidence, sourceVars, worldVars, prep, request, seen, next>>

\* The process of the call dies; its client gets no answer.
Die(c) ==
  /\ c \in Unreliable /\ pc[c] \in Running
  /\ Goto(c, "dead")
  /\ UNCHANGED <<rowVars, evidence, sourceVars, worldVars, prep, request, seen,
                 next, raised, answer>>

-----------------------------------------------------------------------------
(***************************************************************************)
(* The environment: the clock, other writers of the source, administrators *)
(* and releases.                                                           *)
(***************************************************************************)
PassExpiry(i) ==
  /\ status[i] # "absent" /\ age[i] = "fresh"
  /\ age' = [age EXCEPT ![i] = "expired"]
  /\ UNCHANGED <<status, intent, receipt, evidence, sourceVars, worldVars, prep, callVars>>

\* expires_at is at most a day after prepare, so it passes first.
PassReplayDay(i) ==
  /\ status[i] = "committed" /\ age[i] = "expired"
  /\ age' = [age EXCEPT ![i] = "replayed"]
  /\ UNCHANGED <<status, intent, receipt, evidence, sourceVars, worldVars, prep, callVars>>

MoveVersion(r) ==
  /\ version[r] < MaxMoves
  /\ version' = [version EXCEPT ![r] = @ + 1]
  /\ UNCHANGED <<rowVars, evidence, applied, worldVars, prep, callVars>>

ChangeWorld ==
  /\ granted' \in BOOLEAN /\ policy' \in Classes /\ serving' \in Capabilities
  /\ UNCHANGED <<rowVars, evidence, sourceVars, prep, callVars>>

-----------------------------------------------------------------------------
PrepareStep(i) ==
  \/ PrepareTargets(i) \/ Sweep(i) \/ Insert(i)
  \/ RecordPrepared(i) \/ RecordApprovalRequested(i) \/ PrepareFails(i)

\* The steps the SDK and its store take for a call, and those that wait for
\* the mutation's author.
SdkStep(c) ==
  \/ Expire(c) \/ RecordExpired(c) \/ Select(c) \/ Refuse(c) \/ Accept(c)
  \/ Claim(c) \/ MarkStale(c) \/ RecordStale(c) \/ Settle(c)
  \/ RecordCommitted(c) \/ RecordIssued(c) \/ Catch(c)
AuthorStep(c) == Reprepare(c) \/ Apply(c) \/ ApplyFails(c)

CallStep(c) ==
  \/ \E input \in Arguments : Start(c, input)
  \/ SdkStep(c) \/ AuthorStep(c)
  \/ Timeout(c) \/ StatementFails(c) \/ Die(c)

EnvironmentStep ==
  \/ \E i \in Intents : PassExpiry(i) \/ PassReplayDay(i)
  \/ \E r \in Resources : MoveVersion(r)
  \/ ChangeWorld

Next ==
  \/ \E i \in Intents : PrepareStep(i)
  \/ \E c \in Calls : CallStep(c)
  \/ EnvironmentStep

Spec == Init /\ [][Next]_vars

\* The event loop runs what is ready and a deadline's timer fires; only what
\* a reliable call asks of its mutation's author returns or throws in the end.
FairSpec ==
  /\ Spec
  /\ \A c \in Calls : WF_vars(SdkStep(c)) /\ WF_vars(Timeout(c))
  /\ \A c \in Calls \ Unreliable : WF_vars(AuthorStep(c))

\* As FairSpec, where all authors' code returns or throws.
AuthorsReturn == FairSpec /\ \A c \in Calls : WF_vars(AuthorStep(c))

-----------------------------------------------------------------------------
(***************************************************************************)
(* Properties.                                                             *)
(***************************************************************************)
Recorded(i) == {evidence[i][k] : k \in DOMAIN evidence[i]}

\* Every variable keeps to its type.
TypeOK ==
  /\ status \in [Intents -> Status]
  /\ intent \in [Intents -> Plan]
  /\ receipt \in [Intents -> Calls \cup {NoCall}]
  /\ age \in [Intents -> Age]
  /\ evidence \in [Intents -> Seq(EvidenceKind)]
  /\ version \in [Resources -> Nat]
  /\ applied \in [Intents -> SUBSET Calls]
  /\ granted \in BOOLEAN /\ policy \in Classes /\ serving \in Capabilities
  /\ prep \in [Intents -> {"idle", "planned", "swept", "inserted", "approval",
                           "told", "failed"}]
  /\ pc \in [Calls -> PC]
  /\ request \in [Calls -> Request]
  /\ seen \in [Calls -> Read]
  /\ next \in [Calls -> {"select", "claim"}]
  /\ raised \in [Calls -> {"ERROR", "INTENT_STALE"}]
  /\ answer \in [Calls -> Answer]

\* A commit applies one intent once: however many calls race for it, time
\* out, die and are repeated, at most one call's mutation.commit takes effect
\* (the claim in commitIntent, docs/08 security invariant 4).
AppliedOnce == \A i \in Intents : \A c, d \in applied[i] : c = d

\* The receipt a caller holds, new or replayed, is of the one commit that took
\* effect, even when the row has been swept since.
ReceiptsAreTrue ==
  \A c \in Calls :
    /\ answer[c] = "receipt" => applied[request[c].intent] = {c}
    /\ answer[c] = "replay" => applied[request[c].intent] = {seen[c].receipt}

\* No call can apply the intent any more, whatever has been applied of it.
Spent(i) ==
  /\ status[i] \notin Open \cup {"absent"}
  /\ \A c \in Calls : pc[c] \in {"reprepare", "effect"} => request[c].intent # i

\* A caller sent to prepare again, because its intent is over, will not find
\* the old one applied beside the new: no call can apply it any more.  Told
\* that it expired or went stale, the caller also knows that nothing of it was
\* applied; told that it was consumed or is gone, it does not (settled).
PrepareAgainIsSafe ==
  \A c \in Calls :
    LET i == request[c].intent IN
    /\ answer[c] \in {"INTENT_EXPIRED", "INTENT_STALE"} => applied[i] = {}
    /\ \/ answer[c] \in {"INTENT_EXPIRED", "INTENT_STALE", "INTENT_CONSUMED"}
       \/ answer[c] = "INTENT_NOT_FOUND" /\ seen[c].status = "deleted"
       => Spent(i)

\* An intent that is answered as used, its commit failed, was not applied, so
\* that its caller can do as told and prepare it again (settled: "was used and
\* its commit failed; prepare it again").  Violated: a mutation whose effect
\* took place and whose answer, receipt or transition failed is marked failed.
ConsumedIsUnapplied ==
  \A c \in Calls : answer[c] = "INTENT_CONSUMED" => applied[request[c].intent] = {}

\* A refusal, or an error before the claim, means this call applied nothing.
RefusalAppliesNothing ==
  \A c \in Calls : answer[c] \in Refusals => c \notin applied[request[c].intent]

\* What callers are told is true of the effects, whoever told them and when: a
\* receipt is of the one commit that took effect, a refused call has itself applied
\* nothing, and an intent that is answered as over is not applied later, nor was it
\* before if it expired or went stale.  One that is consumed may have been.
CallersHearTheTruth == ReceiptsAreTrue /\ PrepareAgainIsSafe /\ RefusalAppliesNothing

\* What is applied was asked for by its owner with its token through the tool
\* of its class, and never an intent that waits for a person's approval, for
\* all that the class a fresh prepare would get moves meanwhile.
AppliedAsConfirmed ==
  \A i \in Intents : \A c \in applied[i] :
    /\ request[c].intent = i
    /\ request[c].own /\ request[c].token /\ request[c].permitted
    /\ intent[i].class # "human"
    /\ request[c].tool = CommitToolName(intent[i].class)
    /\ intent[i].class = "controlled" => request[c].summary

\* Evidence never says what did not happen: an intent it calls committed was
\* applied by the call whose receipt the row holds, and one it calls stale or
\* expired was not applied and never is.
EvidenceIsTrue ==
  \A i \in Intents :
    /\ "intent.committed" \in Recorded(i) =>
         status[i] \in {"committed", "deleted"} /\ applied[i] = {receipt[i]}
    /\ Recorded(i) \cap {"intent.expired", "intent.stale"} # {} => applied[i] = {}

\* An intent's evidence is a prefix of one of the stories its life can have:
\* no kind twice and none out of order, whichever calls record it and however
\* many of them expire the intent at the same time.
Stories == {<<"intent.prepared", "intent.expired">>,
            <<"intent.prepared", "intent.stale">>,
            <<"intent.prepared", "intent.committed", "receipt.issued">>,
            <<"intent.prepared", "intent.approval_requested", "intent.expired">>}
EvidenceTellsOneStory ==
  \A i \in Intents : \E story \in Stories :
    Len(evidence[i]) <= Len(story) /\ evidence[i] = SubSeq(story, 1, Len(evidence[i]))

\* What mcp-postgres keeps of an intent is both true of its effect and in the
\* order of one of the stories an intent can have.
EvidenceIsFaithful == EvidenceIsTrue /\ EvidenceTellsOneStory

(***************************************************************************)
(* Why these hold: the claim gives an intent to one call, whose body alone *)
(* may apply it or settle its row, and what a call has read or answered of *)
(* an intent that is over stays true.                                      *)
(***************************************************************************)
Over == {"expired", "stale", "deleted"}

\* Until its claim an intent is nobody's.
UnclaimedIsUntouched ==
  \A i \in Intents :
    /\ prep[i] \in {"idle", "planned", "swept"} => status[i] = "absent"
    /\ status[i] \in Open \cup {"absent"} =>
         /\ applied[i] = {} /\ receipt[i] = NoCall
         /\ \A c \in Calls : pc[c] \in BodySteps => request[c].intent # i

\* A body has its intent to itself, and the row says so until it settles.
BodyOwnsItsIntent ==
  \A c \in Calls :
    LET i == request[c].intent IN
    /\ pc[c] \in BodySteps => \A d \in Calls \ {c} :
         pc[d] \in BodySteps => request[d].intent # i
    /\ pc[c] \in {"reprepare", "effect", "settle", "stale"} => status[i] = "committing"
    /\ pc[c] \in {"reprepare", "effect", "stale", "recordStale"} => applied[i] = {}
    /\ pc[c] \in {"settle", "recordCommitted", "recordIssued"} => applied[i] = {c}
    /\ pc[c] = "recordStale" => status[i] \in {"stale", "deleted"}
    /\ pc[c] \in {"recordCommitted", "recordIssued"} =>
         receipt[i] = c /\ status[i] \in {"committed", "deleted"}

\* What a row's status says of its effect.
StatusIsTrue ==
  \A i \in Intents :
    /\ status[i] = "committed" => receipt[i] \in Calls /\ applied[i] = {receipt[i]}
    /\ status[i] \in {"expired", "stale"} => applied[i] = {}
    /\ receipt[i] # NoCall => status[i] \in {"committed", "deleted"}

\* What a call knows of its intent.
KnowledgeIsTrue ==
  \A c \in Calls :
    LET i == request[c].intent IN
    /\ pc[c] = "idle" => seen[c].status = "absent"
    /\ seen[c].status = "committed" =>
         status[i] \in {"committed", "deleted"} /\ applied[i] = {seen[c].receipt}
    /\ seen[c].status \in {"expired", "stale"} => status[i] \in Over /\ applied[i] = {}
    /\ seen[c].status = "failed" => status[i] \in {"failed", "deleted"}
    /\ seen[c].status = "deleted" => status[i] = "deleted"
    /\ \/ pc[c] = "recordExpired"
       \/ pc[c] = "catch" /\ raised[c] = "INTENT_STALE"
       => status[i] \in Over /\ applied[i] = {}

\* What a call has answered.
AnswersAreTrue ==
  \A c \in Calls :
    LET i == request[c].intent IN
    /\ pc[c] \in ClaimSteps \cup {"idle"} =>
         answer[c] = "none" /\ \A j \in Intents : c \notin applied[j]
    /\ answer[c] = "receipt" =>
         status[i] \in {"committed", "deleted"} /\ applied[i] = {c}
    /\ answer[c] = "replay" => seen[c].status = "committed"
    /\ answer[c] \in {"INTENT_EXPIRED", "INTENT_STALE"} =>
         status[i] \in Over /\ applied[i] = {}
    /\ answer[c] = "INTENT_CONSUMED" => seen[c].status = "failed"
    /\ answer[c] \in Refusals => pc[c] = "done" /\ c \notin applied[i]

\* The inductive invariant.
Inv == /\ TypeOK /\ AppliedOnce /\ UnclaimedIsUntouched /\ BodyOwnsItsIntent
       /\ StatusIsTrue /\ KnowledgeIsTrue /\ AnswersAreTrue

(***************************************************************************)
(* Why evidence is faithful, and what is applied was confirmed: a row is   *)
(* told of once its prepare is done, a call that goes on to claim it has   *)
(* passed every check, and one call at a time is about to record its end.  *)
(***************************************************************************)
Human(i) == intent[i].class = "human"

\* Nobody names an intent before its prepare told of it, and one that waits for a person's
\* approval only ever expires.
CallsNameToldIntents ==
  /\ \A c \in Calls : pc[c] # "idle" => prep[request[c].intent] = "told"
  /\ \A i \in Intents : prep[i] # "idle" /\ Human(i) =>
       status[i] \in {"absent", "awaiting_approval", "expired", "deleted"}
  /\ \A c \in Calls : seen[c].status = "prepared" => ~Human(request[c].intent)

\* The checks a call has passed, of its arguments and of what its request read.
Confirmed(c) ==
  LET r == request[c]  class == intent[r.intent].class IN
  /\ r.own /\ r.token /\ r.permitted /\ class # "human"
  /\ r.tool = CommitToolName(class) /\ (class = "controlled" => r.summary)
Claiming(c) == \/ pc[c] \in BodySteps \cup {"claim"}
               \/ pc[c] \in {"expire", "recordExpired"} /\ next[c] = "claim"
ClaimsAreConfirmed ==
  /\ \A c \in Calls : Claiming(c) => Confirmed(c)
  /\ \A i \in Intents : \A c \in applied[i] : request[c].intent = i /\ Confirmed(c)

\* What an intent's evidence says once it is told of, and after one more record.
Told(i) == IF Human(i) THEN <<"intent.prepared", "intent.approval_requested">>
           ELSE <<"intent.prepared">>
ToldAnd(i, kind) == Append(Told(i), kind)
Ends(i) == \/ evidence[i] = ToldAnd(i, "intent.expired")
           \/ evidence[i] = ToldAnd(i, "intent.stale") /\ ~Human(i)
Commits(i) == \/ evidence[i] = ToldAnd(i, "intent.committed")
              \/ evidence[i] = Append(ToldAnd(i, "intent.committed"), "receipt.issued")

\* The records follow the row, and never lead it.
EvidenceFollowsTheRow ==
  \A i \in Intents :
    /\ prep[i] \in {"idle", "planned", "swept", "inserted"} => evidence[i] = <<>>
    /\ prep[i] = "approval" => Human(i) /\ evidence[i] = <<"intent.prepared">>
    /\ prep[i] = "failed" => evidence[i] \in {<<>>, <<"intent.prepared">>}
    /\ prep[i] = "told" =>
         \/ evidence[i] = Told(i)
         \/ Ends(i) /\ status[i] \in Over /\ applied[i] = {}
         \/ Commits(i) /\ ~Human(i) /\ receipt[i] # NoCall
    /\ receipt[i] # NoCall => applied[i] = {receipt[i]}

\* Who is about to record an end or a commit is alone to do so, and finds it unrecorded.
RecordersAreAlone ==
  \A c \in Calls :
    LET i == request[c].intent IN
    /\ pc[c] \in {"reprepare", "effect", "settle", "recordCommitted", "stale", "recordStale",
                  "recordExpired"} => evidence[i] = Told(i)
    /\ pc[c] = "recordIssued" => evidence[i] = ToldAnd(i, "intent.committed")
    /\ pc[c] = "recordExpired" => \A d \in Calls \ {c} :
         pc[d] \in BodySteps \cup {"recordExpired"} => request[d].intent # i

\* What the evidence and the confirmation of what is applied rest on, beside Inv.
Faithful == /\ CallsNameToldIntents /\ ClaimsAreConfirmed
            /\ EvidenceFollowsTheRow /\ RecordersAreAlone

\* A row's status only moves forward, a claim is the only way to committing,
\* a row being committed is never swept, and a stored receipt never changes.
Forward(from) ==
  CASE from = "absent" -> Open
    [] from = "prepared" -> {"committing", "expired", "deleted"}
    [] from = "awaiting_approval" -> {"expired", "deleted"}
    [] from = "committing" -> {"committed", "stale", "failed"}
    [] from \in {"committed", "failed", "stale", "expired"} -> {"deleted"}
    [] from = "deleted" -> {}
RowsMoveForward ==
  [][\A i \in Intents :
       /\ status'[i] # status[i] => status'[i] \in Forward(status[i])
       /\ receipt[i] # NoCall => receipt'[i] = receipt[i]]_vars

\* An intent whose target moves before any call claims it is never applied, by
\* whichever calls claim, race, time out or die later (docs/08 security invariant
\* 4: "while its targets are unchanged").  A target that moves after the claimed
\* call compared it is left to the mutation, which is handed its versions.
Moved(i) == version[TargetOf[i]] # intent[i].base
MovedIsNeverApplied ==
  \A i \in Intents : [](status[i] \in Open /\ Moved(i) => [](applied[i] = {}))

\* Why: once moved, a target stays so, and no call passes the comparison.
VersionsGrow == \A i \in Intents : intent[i].base <= version[TargetOf[i]]
Refusable(i) ==
  /\ prep[i] # "idle" /\ Moved(i) /\ applied[i] = {}
  /\ \A c \in Calls : pc[c] = "effect" => request[c].intent # i

\* Once an intent has been committed, its evidence says so, unless a call is
\* still about to record it (docs/08 security invariant 8: "Every use, refusal
\* and mutation transition is evidence").
CommittedIsEvidence ==
  \A i \in Intents :
    status[i] = "committed" =>
      \/ "intent.committed" \in Recorded(i)
      \/ \E c \in Calls : request[c].intent = i /\ pc[c] = "recordCommitted"

\* Each call that starts is answered unless its process dies, whatever the mutation's author's code
\* does and however often the call loses its claim and reads again.
EveryCallIsAnswered ==
  \A c \in Calls : pc[c] # "idle" ~> answer[c] # "none" \/ pc[c] = "dead"

\* A call whose process lives, whose statements succeed and whose mutation's
\* author answers settles the intent it has claimed, also after its deadline,
\* and however an earlier call on the same intent ended (apply's try and catch).
ReliableCommitsSettle ==
  \A c \in Calls \ Unreliable :
    pc[c] \in BodySteps ~> pc[c] = "done" /\ status[request[c].intent] # "committing"

\* Every call comes to an end, its caller's and, where nothing of it fails, its intent's.
CallsEnd == EveryCallIsAnswered /\ ReliableCommitsSettle

\* An intent being committed settles, so that a caller told COMMIT_IN_PROGRESS
\* to "call again shortly for its receipt" gets one or learns why not.  Violated:
\* nothing releases the intent of a process that died, or whose last statement failed.
CommittingSettles ==
  \A i \in Intents : status[i] = "committing" ~> status[i] # "committing"

\* The abstract one-shot mutation this protocol implements.
Life(i) ==
  IF status[i] = "absent" THEN "none"
  ELSE IF status[i] \in Open THEN "open"
  ELSE IF status[i] = "committing" THEN "taken" ELSE "closed"
Once == INSTANCE OneShot WITH
  life <- [i \in Intents |-> Life(i)], effects <- applied, issued <- receipt
IsOneShot == Once!Spec
=============================================================================
