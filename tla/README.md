# A TLA+ verification of Answerable

Answerable is an identity service (`apps/id`) and a set of MCP servers (`mcps/*`, built with
`packages/mcp*`) that let a person's agent read and change an organisation's data. This directory holds
TLA+ models of the parts whose correctness depends on the order of concurrent steps, crashes and
retries, the TLC configurations that check them, and the theorems TLAPS proves about them.

## The system

### Parts, state and operations

| Part | Source | State it keeps | Operations | Hard behaviour |
| --- | --- | --- | --- | --- |
| Prepare and commit of mutations | `packages/mcp/src/{commit,intents,prepare,mutation,call}.ts`, `packages/mcp-postgres/src/intents.ts` | `intents` rows (status, class, targets, receipt), `evidence_events` | prepare (insert and sweep), read with expiry, claim, settle as committed, stale or failed | concurrent commits of one intent, `TIMEOUT` answered while the body goes on, two replicas, a process that dies mid-commit, evidence in transactions of its own |
| Evidence chain | `packages/mcp-postgres/src/evidence.ts`, `sql/evidence-chain.sql` | one hash chain per organisation, erasable payloads | record, verify, erase | concurrent appends |
| Authority cache of the hub | `mcps/toolbox/src/grants.ts`, `packages/mcp-platform/src/{poller,profiles}.ts` | targets per (organisation, member) with expiry and a stale mark; the last audit event seen | read, invalidate, poll | a read under way when an invalidation arrives, an unreachable ID, events paged newest first |
| Admin API commands | `apps/id/src/services/{operations,command-authority}.ts`, `apps/id/src/http/admin/{command,revision}.ts` | `operations` rows (key digest, fingerprint, receipt) | execute or replay a command under its key | a repeated command under way, a reused key, authority lost before the replay |
| Magic-link sign-in | `apps/id/src/services/magic-link-*.ts`, `apps/id/src/auth/magic-link*.ts`, `apps/id/src/http/pages/routes/magic-link.ts`, `apps/id/src/lib/bounded-queue.ts` | requests, verifications (tokens), codes and their attempts, send state, the queue | request, deliver, attempt a code, confirm, refuse, disable, remove, prove or lose a domain | limits under concurrent requests, either proof ending both, a provider or person changed between request and confirm, refusals recorded after a rollback |
| Directory sign-in and connection | `apps/id/src/auth/{verified-sso,sso-origin,directory-connection,tenant-authentication,session-refresh,database-adapter}.ts`, `apps/id/src/services/federation.ts`, `apps/id/src/http/pages/routes/connect-directory.ts` | flows of sessions, accounts, pending connections, sessions | sign in, link, prove again, ask to connect, prove the mailbox | a directory, firm, domain or person replaced while a callback is away at its directory |
| User OAuth | `apps/id/src/auth/{user-oauth-flow,user-token-boundary,native-code-replay,native-refresh-family,user-token-revocation,create-resource-grant,lock-resource-grant-policy}.ts`, `apps/id/src/db/queries/{grant-contexts,oauth-tokens}.ts` | grant contexts, codes, access and refresh tokens | authorise, exchange, refresh, revoke | a replayed code or refresh token racing its first use, revocation of what a grant rests on |
| Permission of members | `apps/id/src/auth/{member-permission,grant-scopes,user-resource-policy}.ts`, `apps/id/src/db/queries/{access,effective}.ts` | none of its own | decide scopes for a browser, a code, a renewal, an explanation | four decisions from different lists of ceilings that must agree |
| Command authority | `apps/id/src/services/{command-authority,platform-context,tenant-context}.ts`, `apps/id/src/db/queries/grants.ts`, `apps/id/src/http/principal.ts` | users, memberships, roles, sessions, the machine client | authorise staff, root or a machine; protect the last platform writer | authority that ends while its command waits, commands that change each other's authority, deadlock |
| A tenant's policy | `apps/id/src/services/{members,groups,entitlements,capabilities,clients,resources,organizations,users}.ts`, `apps/id/src/db/queries/*.ts` | organisations, members, groups, assignments, entitlements, capabilities, clients, resources, links | create, change, disable, remove, erase | READ COMMITTED statements under row locks, erasures that cascade, conditional changes, deadlock |
| Machine OAuth | `apps/id/src/auth/machine-*.ts`, `apps/id/src/lib/client-budget.ts` | clients, capabilities, budgets | client credentials, audit | budgets under concurrency |
| Audit log and protocol sweep | `apps/id/src/services/audit*.ts`, `apps/id/src/operations/protocol-sweep.ts` | audit events, expired protocol rows | append, list, sweep | deletion racing use |
| Toolbox and enablement | `mcps/toolbox/src/{toolbox,catalogue,projection,admin-enable,meta}.ts`, `mcps/admin/src/standalone.ts` | the catalogue and its overrides | serve, ingest, enable for an organisation in several writes | an enable that stops half way, is repeated, or overlaps another's choice |
| MCP servers on the SDK | `mcps/admin`, `mcps/example`, `mcps/e2e` | none beyond their intents | tools over ID's admin API | those of the SDK |
| MCP platform | `packages/mcp-platform/src/{calls,spans,per-request,health}.ts` | spans, per-request caches | wrap a call, record its evidence | failure of the record itself |
| Libraries | `packages/{auth,id-admin,emails,config,countries,design,ui,acceptance}` | caches of keys; otherwise none | verify tokens, call ID, send mail with a retry | a mail sent twice |
| Web and parked apps | `apps/web`, `apps/community-mcp` | none | pages and documentation | none |
| Infrastructure | `infra`, `charts`, `scripts` | clusters, secrets, releases | build, deploy, bootstrap | partial deployment |

### How the parts interact

A host's agent calls an MCP server with a person's token. The server verifies the token
(`packages/auth`), reads the person's grants from ID through the authority cache, serves the tools they
cover and records evidence. A mutation's tool only prepares; a commit tool applies the prepared intent.
Administrative tools call ID's admin API, whose commands run once per idempotency key in one
transaction. ID's audit log is how servers learn of changes: a poller reads new events and marks what
they cache as stale. People sign in to ID with a magic link, a code or their organisation's directory; a
browser then allows an application what the policy of its organisation permits, and the application's
grant lasts while everything it rests on stands. Enabling a server for an organisation is several such
commands in a row, with no transaction around them.

### What makes each part correct

- Prepare and commit: one prepared intent has at most one effect, whatever races, dies or is retried; a
  receipt is only ever of that effect; an intent that is expired or stale was not applied and never will
  be, and one that is consumed will not be again; one whose target moved before the claim is never applied;
  evidence says what happened and in order; a commit settles and a caller is answered.
- Authority cache: an answer is never older than the lifetime the code gives it; an invalidation is seen
  by the next call; an outage never extends authority.
- Admin commands: a key's command takes effect once, a repeat answers its receipt, nothing is answered
  to a caller whose authority ended.
- Magic links: a session follows only from a live request in the browser that made it, for a person who
  may sign in at that moment; one session per request; a code is compared three times at most; limits
  hold under concurrent requests.
- Directory sign-in: an identity is bound once, to the person who proved it by a session or a mailbox at
  the moment of binding; what a sign-in read before it was away still stands when its session is made.
- User OAuth: a grant ends with the user, member, organisation, client, resource or directory it rests on (not
  with the link of client and resource, which is looked up at each step instead); a flow leaves one line of
  credentials, and none after a replay; what is issued is permitted at the step that issues it.
- Permission: each decision gives the member's scopes, scope by scope, and no more; what is shown of
  access is what can be had.
- Authority: what a command's authority rests on stands until it commits; the platform keeps a writer.
- Policy: nothing live rests on something erased; an audited audience is the one reached; no conditional
  change is lost.
- Enablement: a provider is turned on last, others' choices stay, and repeating finishes.

## The modules

Each module models the statements of one component, one action per statement or await, so that what
interleaves in the code interleaves in the model. Data is reduced to what the properties tell apart, and
the head of each module says how. Definitions keep the code's names where they can; `PROJECT.json` maps
each to its lines.

| Module | Models | State | Actions |
| --- | --- | --- | --- |
| `OneShot` | what a prepared mutation promises: applied once or never, then settled | `state`, `effects` | the abstract steps |
| `Intents` | `commitIntent`, `executePrepare`, the PostgreSQL intent store, `call`'s deadline | the rows (`status`, `intent`, `receipt`, `age`), the evidence in its order, the source (`version`, `applied`), and of each call its place, request, what it read and its answer | a prepare's `PrepareTargets`, `Sweep`, `Insert`, `RecordPrepared`, `RecordApprovalRequested`; a commit's `Start`, `Select`, `Expire`, `RecordExpired`, `Refuse`/`Accept`, `Claim`, `Reprepare`, `MarkStale`, `RecordStale`, `Apply`, `Settle`, `RecordCommitted`, `RecordIssued`, `Catch`; `Timeout`, `StatementFails`, `Die`; releases, grants and versions that move |
| `AuditPoller` | `startAuditPoller` over ID's log | minted, uncommitted and committed events, `last`, the poll under way | `Mint`, `Commit`, `Abort`; `StartPoll`, `ReadOn`, `FinishPoll`, `FailPoll`, `Restart` |
| `GrantsReader` | `createGrantsReader` | ID's access and version of each member, `cache`, `pending`, the clock, and of each call what it is answered and owed | access changes, announcements, a read's question, answer and arrival, its failure, calls that start, join and end |
| `AdminCommands` | `executeOperation` and what surrounds it, and `write` of the admin server | the journal, the locks of keys, authority and target, each request's place and reply, each write's outcome | `TryKeyLock`, `Authorise`, `LookUp`, `LockTarget`, `Commit`, `RefuseCommand`, `Fail`; `Revoke`, `Restore`; `Send`, `Hear`, `SendAgain`, `GiveUp` |
| `MagicLink` | requests by mail, their codes, their confirmation, and the commands that meet them | the firm (`links`, `revision`, `domain`, `admits`), the address's holder, each user's account and membership, each request's row and job, each post's place, the sessions | `Admit`, `Count`, `Reserve`, `SendFails`, `Stop`; `PostLink`, `TryCode`, `LockAddress`, `ShareFirm`, `Check`, `SignIn`, `FindConsumed`, `RecordRefusal`, `FailPost`; time; ten commands |
| `DirectorySignIn` | callbacks of directories, flows that link or prove again, connections by mailbox, and the commands that meet them | firms, domains, directories, users, holders of addresses, accounts, memberships; each session, flow, callback and request to connect | `Start`, `Return`, `observe`, `beforeTransaction`, `resolve`, `Commit`, `GiveUp`; `reserveConnection`, `InsertRequest`, `HoldAddress`, `LockConnection`, `CheckConnection`, `connectDirectoryAccount`; twelve commands |
| `Delegation` | what a grant promises: made once, exchanged once, over for good | `stage` | `Make`, `Use`, `End` |
| `OAuthGrants` | a browser's flow, its grant and code, refresh tokens, replays, revocation, and the commands that end or narrow what a grant rests on | the policy's parties and ceilings, sessions, flows, grants, codes, tokens, each request's place | `start`, `Resume`, `TokenRequest`, `Refuse`, user, firm and target commands, sign-ins and sign-outs, `Expire` |
| `MemberPermission` | the decisions on scopes | the policy and what was last issued | `createResourceGrant`, `narrowAuthorizationCode`, `Exchange`, `Renew`, `EndGrant`, changes of the policy |
| `AdminAuthority` | staff, root and a machine commanding each other's authority | users, memberships, roles, sign-ins, the machine; each command's held and wanted locks | `Begin`, `Unsigned`, `Acquire`, `authorizeCommand`, `Refuse`, the bodies, `Fail`, `DetectDeadlock`; `SignIn`, `SignOut`, `provisionMembership` |
| `TenantPolicy` | the commands on members, groups, entitlements, capabilities, applications, resources, users and organisations | the live rows, who is revoked, each row's revision; each command's statement and locks | `Begin`, then per statement `Start`, `Acquire`, `Finish`, `Refuse`; `Commit` |
| `Enablement` | the Toolbox's enable operation and the admin server's standalone one | ID's rows and scopes, the catalogue, the calls, requests still to be applied | `Repeat`, `Step`, `Unanswered`, `StillRunning`, `EntryFails`, `Arrive`, `ChangeRow`, `ChangeScopes`, `PutEntry`, `Ingest` |

`MCIntents`, `MCGrantsReader`, `MCMagicLink`, `MCOAuthGrants`, `MCAdminAuthority` and `MCDirectorySignIn`
instantiate them for TLC; `AuditPoller` and `Enablement` need no definitions of their own for that. Two MC
modules hold two components side by side, which share no state and have no liveness to ask: `MCCommits` has
`Intents` and `AdminCommands`, `MCPolicy` has `TenantPolicy` and `MemberPermission`. In each, either component
moves only while the other is where it began, so that it reaches every state that it reaches alone and the
run's states are the sum of the two. A module's theorems and their proofs are in
the module of its name that ends in `Proofs`; two modules hold those of a pair: `FreshnessProofs` of
`AuditPoller` and `GrantsReader`, which together keep a server's cached grants fresh, and
`AdministrationProofs` of `AdminCommands` and `Enablement`, whose operations make several such commands.
So that one module can extend both of a pair, `AuditPoller`, `AdminCommands`, `MemberPermission` and `Enablement`
have their own names in those of their initial states, next-state relation, specification and type invariant
(`PollerInit`, `CommandInit`, `PermissionInit`, `EnablementInit`, ...).

### Intents

A row's statuses are those of the code, with `absent` before its insert and `deleted` after the sweep. The
claim (`commit.ts`) is a compare-and-set, so it is one step; everything a call read before it may have
changed when it runs, and a call that loses the race reads the row again. What follows the claim is the
mutation's body: it reads the versions again (`Reprepare`), runs the author's code (`Apply`) and settles
the row. `TIMEOUT` answers the caller and leaves the body running, since the code cannot stop it; `Die`
ends a call anywhere and leaves its row as it is. Evidence is recorded in transactions of its own, so each
record is a step that may fail alone.

An intent that is over is answered `INTENT_EXPIRED`, `INTENT_STALE`, `INTENT_CONSUMED` or `INTENT_NOT_FOUND`.
`PrepareAgainIsSafe` says of all of them that nobody applies the intent any more, and of the first two that
nobody has. Of the third nobody can say that: the code marks an intent failed whatever its body threw, also
after the mutation took effect, which `intents_consumed` shows (finding 11).

The body reads the versions of its targets again after the claim (`Reprepare`), and `MovedIsNeverApplied`
says that an intent whose target moved before that, at any time since its prepare, is never applied. What
moves between this comparison and the mutation's own write is for the mutation to refuse; the SDK hands it
the versions, and the admin server's mutations send them as `If-Match`, which is `EffectsAreDue` of
`AdminCommands`.

### AuditPoller

ID mints an event's id (a UUIDv7) inside the transaction that inserts it, so ids are ordered by minting
and events appear in the order of commits, which may be another. `late` holds the events that committed when
the poller had already gone past their ids, with its last poll or with the pages of the one under way.
`NothingIsSkipped` and `EveryChangeIsTold` speak of the others; `NothingIsPassedBy` speaks of them all and is
false (finding 4). A poll reads pages newest first, back to the last event seen, over a log that grows under
it; its first page fixes the newest event, which becomes `last` only when the poll has met the previous
`last`. A page's failure drops what the poll found.

### GrantsReader

A member's access is the number of changes ID has made to it, and `HeldSince` asks whether that access
was in force at a time. A read has three steps, its question, ID's answer and its arrival, since what makes
it hard is a change, and the invalidation that announces it, between the last two. Calls that come
meanwhile for the same member and version share it. `owed` records what each call was promised when it
began: by any invalidation before it (`promised`), and by one that found no read in flight (`quiet`). An
invalidation that finds one in flight is undone by it: `InvalidationReadsAgain` asks a new read of that one
too and is false (finding 3).

### AdminCommands

A request is one transaction, step by step with its locks; `RefuseCommand` and `Fail` end it with nothing done,
`Commit` writes its effect and its receipt at once. A write's client sends it again once, with its key,
when the answer was lost or was a server's error: the first request may still run then, or begin later.

### MagicLink

A transaction's locks follow from where it is: `AddressFree`, `FirmFree`, `UserFree` and `RowFree` say
that nobody holds a lock that a step needs, and a command is one step that waits for them. What a
confirmation read before it held the locks (the holder of the address) is remembered in `seen` and
compared under them, as in the code.

### DirectorySignIn

A callback reads its directory's configuration and is then away at the directory with no lock; everything
may change meanwhile. Its transaction locks the flow's firms, providers and user, then the provider, in one
step that waits for all of them, since each is taken in one order and nothing is decided in between. What
a refusal leaves is only what the browser may do next: an identity whose address is somebody's may ask to
connect, which takes the address's advisory lock, a code in the mailbox, and a second transaction that
reads everything again. Checks whose data is left out (times of a flow or a proof, claims, the directory's
answer) may each fail at any moment, which is `GiveUp`. A plain sign-in does not lock its user: an
administrator who disables the user between the sign-in's read and the insert of its session leaves a
session, which `tenantAuthentication` then refuses at every use; `SessionsStandWhenMade` therefore asks
only that the user was not erased. An identity has one `Home`, so an issuer that two firms share is
left out; so are accounts by magic link, of which another firm's would keep a holder from connecting: the
model lets more holders connect than the code.

### OAuthGrants and Delegation

A request is one transaction over one organisation, client and resource. `policyVars` is what a decision
reads; a request shares the rows of it and a command that changes one waits. `presented` counts the
successful answers of better-auth for each code and token, so that a replay is a second answer, with the
clean-up of the family failing where the code lets it fail. `Delegation` is what a user who allows an
application may expect of the grant. The clock may pass a grant's own end between the decision and the
issue; windows of membership change only by commands.

### MemberPermission

The decisions of `member-permission.ts` as functions of one policy. Scopes of identity and of the resource
are told apart, and every row may be disabled or out of its window (`off`). `settled` says that nothing
changed since the last issue, so that a property can compare what was issued with the policy. The
properties restate the policy scope by scope, which is not how the code computes it.

### AdminAuthority

A command takes its authority's locks one at a time in the code's order (`AuthorityLocks`, `FirstLocks`),
decides under them, then takes those of its body. Only the last writer's protection takes the platform's
row alone. `Deadlocked` is a minimal circle of waits; `DetectDeadlock` is PostgreSQL ending one command.
`AuthorityDoesNotDeadlock` states which circles there can be: commands that are all past their authority,
because a body takes alone what another shares, or circles that root is in.

### TenantPolicy

Commands are lists of statements at READ COMMITTED. A statement finds rows, locks them one by one, and acts on
those still live; row locks have PostgreSQL's four modes, since foreign keys take the weakest (`key`). A key is
unique among the rows that are not erased: an insert waits for another insert of its key (`insert`) and not for
who has erased a row of it, whose locks are on that row and not on the new one. Two users, two applications and
one of everything else are the least on which every command has something to do. What the code reads without a
lock is read at the statement and kept in `seen` or `expected`. Not offered are creations of applications,
resources, organisations and users, the rotation of a secret, and a group's `setStatus`, which between the
group's lock and its change shares the group's assignments and entitlements (`readGroupPolicyForCommand`); the
run holds with it too (469 385 states), but the proofs are without it.

### Enablement

Each call runs its steps in the code's order; a step to ID may be answered, refused, or get no answer and be
applied later (`late`), also after it was sent again. The rows of one client that the same step writes are one
row. A write that ID still runs is answered 409 when it is sent again (`operation_in_progress`) and ends without
an answer too: `StillRunning`. A commit of `standalone.enable` prepares again before it writes, in one step
(`Recheck`): a row that no longer fits, a plan with nothing left to do and a revision that moved each end the
call. The organisation's revision, which is compared with the resource's, moves as it does, so `etag` stands for
both. `undone` records what someone else changed after the call found or made it, which is what the properties
excuse.

## What the runs check

| Run | Question | Instance |
| --- | --- | --- |
| `commits` | two intents of one record, the second's insert sweeping rows under calls, refinement of `OneShot`; and writes overlapping, sent again, reusing a key, losing their authority | 2 intents, 2 calls that may fail, time out or die; 2 writes, 2 keys, 2 inputs; 603 256 and 1 034 474 states |
| `intents_ends` | what applies was confirmed as its class asks, and its target had not moved before the claim; liveness: calls are answered, the loop after a lost claim ends, reliable commits settle | 1 intent of 3 classes, 2 calls, one of them unreliable, 1 move of class, grant or target; 408 198 states |
| `intents_consumed` (violation) | does a consumed intent, whose caller is told to prepare again, have no effect | 1 intent, 2 calls that do not die |
| `poller` | nothing is skipped, and everything but what commits late is announced in the end | 4 events, pages of 2; 50 166 states |
| `grants` | how old an answer can be, and what an invalidation or a new version forces | 2 members of one person, 2 calls, 2 versions, 3 ticks |
| `magic_link` | a link and a code, two jobs, two posts, two commands | 2 requests, 2 posts, 2 users, limit 1, 2 tries; 4.3 million states |
| `directory` | whose an identity is, and what a session rests on when it is made | 3 callbacks, 3 identities of 2 firms, 2 users, 2 commands; 937 911 states |
| `oauth_grants` | one line of credentials per flow, ended with what it rests on; refinement of `Delegation` | 1 flow, 2 grants, 2 codes, 3 tokens, 5 requests, 2 at a time, 2 commands; 848 677 states |
| `authority` | authority until the commit, the last writer, deadlocks | 2 staff, root, a machine, 3 commands, 2 at a time, 1 other move; 2.1 million states |
| `policy` | rows that outlive what they rest on, lost changes, audiences, deadlocks; and whether the four decisions agree with the policy | any 2 commands, 2 users, 2 applications; 3 scopes, 2 of identity, 2 changes; 452 041 and 439 644 states |
| `enablement` | all that is needed is in place, others' choices stay, repeats finish | 2 calls of one tool, 1 change, 1 unanswered request; 462 467 states |
| `enablement_stale` (violation) | does a capability that an ingest adds stay off | 2 calls, 1 ingest |

Several properties are conjunctions of named parts that ask one question of one hazard, so that each can
be read, and proved, on its own: `CallersHearTheTruth` (receipts, refusals and TIMEOUTs of `Intents`),
`EvidenceIsFaithful`, `CallsEnd`, `CallsReadWhatTheyAreOwed`, `RepliesAreTrue`, `EffectsAreDue`,
`SessionsRestOnTheLiving`, `DeadLinksStayDead`, `OneLineOfTokens`, `NothingOutlives`, `BindingsAreProved`,
`SessionsAreTheirs`.
The type invariant of a module with a proof module is a theorem and is in no run.

Why the bounds are enough to be interesting. Two calls are the least that race, and every invariant of
`Intents` speaks of one intent and at most two calls; a third call adds no new pair. Two intents are the
least whose insert can sweep the other. A moved capability version, a wrong token and another's intent are
in no instance any more; `IntentsProofs` covers them for every value. Four events fill two pages of two and
let one arrive while a poll pages. Three ticks with a lifetime and a read time of one reach an entry that
expired while a read was in flight. Two writes with two requests each overlap in every order. Two commands
are the least that end something and bring it back (links off and on, a user listed and disabled, released
and listed again). Two tries stand for three: a first wrong code, and a last. Three callbacks are a
session, a flow's callback and one that races it, or connects. Five OAuth requests are a flow's start and
consent, an exchange, a renewal and a replay; three tokens are a first, its successor and one that must
not exist. Three commands, two at a time, are a pair that removes each other's authority and one
that follows. Any two of a tenant's commands include every pair whose locks can meet; a third command adds
longer circles only, which `OnlyErasuresMeet` is about; three begun, two at a time, were checked too, with one
user (3.6 million states).

The bounds are `MaxMoves`, `MaxEvents`, `MaxClock`, `MaxChanges`, `MaxVersion`, `MaxCommands`,
`MaxRequests` and `MaxFailures`; the theorems hold for all values of them.

Deadlock is checked in `Intents` (by `intents_ends`), `AuditPoller` and `GrantsReader`. It is not in the modules
whose bounded clients may all be done, so that nothing is left to do: `AdminCommands`, `MagicLink`,
`DirectorySignIn`, `OAuthGrants`, `MemberPermission`, `AdminAuthority`, `TenantPolicy` and `Enablement`. Waiting
in a circle is a property of its own in `AdminAuthority` and `TenantPolicy`.

Each property of a passing run is shown to depend on the code by a mutant, an operator next to the
definition it replaces, that makes a plausible mistake: a claim without its comparison, a count before its
lock, a journal written before its effect, a confirmation without a share of the firm, a removal that does
not lock the member.

### Fairness

`Intents!FairSpec` assumes that a process that lives runs what is ready (weak fairness of every step of the SDK)
and that deadlines fire; a mutation's own code is fair only in reliable calls, since the SDK cannot make an
author's promise settle. `AuthorsReturn` adds that for all calls: `CommittingSettles` is false under it too, so
that a stuck intent is not an author's doing (finding 1). `AuditPoller!FairSpec` assumes that the interval ticks
and that a page asked for again and again is answered in the end (strong fairness, since a poll may fail and
start again any number of times). `Enablement!FairSpec` assumes that a call's process runs its next step, and
that a caller whose operation failed repeats it (`Repeat` is what `reading` means); requests that got no answer
are under no fairness, since ID may never apply them. Nothing else assumes fairness.

## What is proved

TLAPS checks every theorem for all values of the constants, under the named assumptions beside them, which
say only that stand-ins (`NoCall`, `NoRow`, ...) are not members of the sets they stand beside, that sets
of keys are not empty, and that bounds are numbers. None bounds a number of calls, intents or events.

Each component's safety follows from one inductive invariant `Inv`, defined in its module or beside its proofs
with a comment on why it is needed; the step lemma has a case for each action, and each property follows
from `Inv` or, for the action properties, from a step under it.

- `IntentsProofs`: `Inv` says that an unclaimed intent is untouched, that a body owns its intent from the
  claim to the settlement and the row says so, that a row's status is true of its effect, and that what a
  call has read or answered of an intent that is over stays true. `AppliedOnce` alone is not inductive: two
  bodies of one intent would break it, and only the row's `committing` excludes them. From it: `TypeCorrect`,
  `OneEffect`, `TrueReceipts`, `SafeToPrepareAgain` (of every intent that is over, the consumed ones included:
  no call goes on to apply it), `RefusedIsUnapplied`, `RowsForward`, `MovedNeverApplied` (with `TargetsGrow`,
  that a target that moved stays moved), and `ImplementsOneShot`: every step is a step of `OneShot` or a
  stutter. `FaithfulEvidence` and `AppliesTheConfirmed` need a second invariant, `Faithful`:
  nobody names an intent before its prepare told of it, a call that goes on to claim has passed every
  check, records follow the row and never lead it, and who is about to record an end or a commit is alone
  to do so and finds it unrecorded, since the evidence is a sequence in which an order is promised.
- `FreshnessProofs`, of the poller: `PollerInv` says that a poll has found all that lies between its cursor and
  its newest event but what committed late, and that what its last poll went past it has told of, but for the
  same. From it: `PollerTypeCorrect`, and `PollerSkipsNothing`, in whatever order ID's transactions commit.
- `FreshnessProofs`, of the reader: `Inv` bounds the age of an entry by when it expires and of a read by when
  it began. From it: `ReaderTypeCorrect`, `AccessThatEndedStops`, `VersionsReadAgain`. A second invariant,
  `Quiet`, says that what an invalidation that met no read left, and what was read since, is at least as new
  as the access it promised. From both: `CallsReadWhatIsOwed`.
- `AdministrationProofs`, of `AdminCommands`: `Inv` says who is past the journal holds its key and its
  authority, that what the journal holds was applied, and that a write told it is late stays late, because
  revisions only advance. From it: `CommandTypeCorrect`, `OneEffectPerKey`, `ReceiptsAreOwn`, `StaleStaysUnapplied`,
  `FirstRefusalsAreFinal`, `EffectsStayAuthorised`, `EffectsFollowRevisions`.
- `AdministrationProofs`, of `Enablement`: `EnablesInFull` speaks of a call that is done, so `EnablementInv`
  says it of every step on the way. What a call has read and does not plan, and what it made, is in place or was
  undone; what it counts as created it made, and what it made it counts, plans or lost; a PATCH of the scopes,
  planned or late, that still matches was planned on the scopes as they are; the overrides it will write are the
  entry's, unless the entry was written meanwhile; and a late request that a call waits for is of a call that
  runs. `Shared` says what a step leaves in place for each call and `Unmoved` what it leaves of its record, so
  that a step is shown once for its own call and once for the others; a call that leaves (`Left`) keeps what the
  others rely on (`LeavingKeeps`). From it: `EnablementTypeCorrect`, `EnablingIsInFull`, `ChoicesOfOthersStay`.
- `MemberProofs`, of `MagicLink`: `Inv` says that one transaction at a time holds the address, that a row is
  made once and its token serves one session, and that what a confirmation has checked (the firm's setting and
  revision, the domain, its holder's account and membership) stays as it was until it ends, since whoever
  would change it waits for a lock. A holder listed meanwhile holds no lock the code takes; then the new
  user's insert fails, which is the guard of `SignIn`. From it: `MagicLinkTypeCorrect`, `LimitsHold`,
  `OneSessionEach`, `LostDomainsEndSessions`, `EndedUsersHaveNoSession`, `SignsInAdmittedPeople`,
  `LinksOfEarlierRevisionsAreDead`, `WrongCodesEndLinks`: all that the run checks.

- `DirectorySignInProofs`: `Inv` says that a flow is consumed by one callback, that an address has one holder
  and one request under way, that who is not born has nothing, and that what a transaction checked when it
  took its locks, and then resolved, stands until it ends. A transaction shares its firms, and under a flow
  its session's person, so no step touches what it checked (`FirmsStand`, `FlowsStand`); a connection
  shares its person too (`ChecksStand`). A plain sign-in does not lock its person: of them only the
  account's end matters, and `Commit` checks that again. From it: `SignInTypeCorrect`,
  `SessionsServeTheirOwn`, `EveryBindingIsProved`, `SessionsStand`: all that the run checks. The proof found
  one mistake of the model: the branches of `resolveFederatedUser`, which the code tries in order, were a CASE
  whose guards overlap.
- `MemberProofs`, of `MemberPermission`: `PermissionInv` says that what was issued last, while the policy stays,
  is what the decision gives; the lemmas say of each ceiling which scopes pass. From it:
  `PermissionTypeCorrect`, `Entitlement`, `Exchangeable`, `Explained`, `Narrowing` (renewals only narrow) and
  `Monotone` (giving more takes nothing away), for any scopes.
- `AdminAuthorityProofs`: `Inv` says that a command past its authority holds shares of the rows that
  authority rests on, and at least a share of the platform's, that locks exclude, and that what it was
  authorised by still stands. So whoever holds the platform's row alone is the only command past its
  authority, and the writers it counts stay until it commits; and a command that still waits for its
  authority holds nothing alone, from which it follows what a circle can be. From it:
  `AuthorityTypeCorrect`, `AuthorityLasts`, `WritersRemain`, `CirclesAreInBodies`, for any number of staff
  and commands.
- `OAuthGrantsProofs`: `Inv` says of each request that what it has decided stands until it ends, of each flow
  that one request at a time has it open and that it names the grant it made, of each code and token whose it
  is, and that a grant that is not revoked rests on the living: an active user, member, organisation, client and
  resource and, for a sign-in by directory, its live provider at the grant's revision. A request that has
  decided shares the parties of its grant, so no command that would end one can run; a flow that is open is
  nobody else's, and a grant that is held is decided about by one request. A step changes the rows of its own
  request or of one command: `Frame` says what the other requests need of it, `Grows` what everybody does, and
  `Ending` what a revocation and its cleanup do, so that each action is shown once for itself and once for the
  others. From it: `TypeCorrect`, `LivingFoundations`, `OneLine`, `Permitting`, and `Delegating`: every step is
  one of `Delegation` for each grant, or a stutter. The assumption is that `None` is no member of the sets it
  stands beside, and that codes are not tokens.
- `TenantPolicyProofs`: the locks of two commands exclude each other, and `Fine` says what a command, at any
  of its statements, relies on. What it has added rests on rows it sees and locks by key (`Rests`). What it
  has erased it holds alone and nothing is left on it; and for each statement that will erase something,
  every row on it is `Promised` to be gone by then: it is not there, and a row it would rest on is held
  alone or is itself not there and cannot come, or an earlier statement erases it or is refused unless it
  is gone, after one that takes such a row (`Erases`). Who is assigned something is not revoked while the
  organisation is held, or will be asked for (`Assigns`), and a removal promises that what its member holds
  is gone (`Revokes`). The audience read is what the command sees, and shared (`Hears`); what it writes it
  holds (`Writes`); and a row whose revision it checked is one nobody else can write (`Matches`). A row that is
  inserted where one was erased is another row; an early form of the model had the two share a lock, which the
  proof for more than two commands refuted. The
  proof has three parts: a commit leaves the others what they rely on (`CommitOfAnother`), a statement that
  starts, waits or finishes keeps it for its own command, and each of the statement lists in `Offers`
  has it from the start (`OffersArePlanned`, one lemma for each list). From it: `TypeCorrect`,
  `NothingIsLeftBehind`, `AudiencesAreExact`, `ConditionalChangesAreSafe`, for any number of people and
  commands.

  Who can wait in a circle needs a second invariant, since it depends on which locks each command has at each
  statement. `InPlace` says of each command how far it has come in its list (`At`), that it waits for what its
  statement locks and holds only what that and earlier ones lock (`Locked`), that it has what it took
  (`Took`), and three things about the pairs that come close: an erasure of a user does not wait for a
  membership it comes to erase (`Erasing`), an assignment that `putMember` has locked is there or its user is
  erased (`Putting`), and an audience's assignment is not locked before its member (`Turns`). `PlansLocks`
  says of each list what its statements lock and in which order. Then a smallest circle (`CircleForms`) has
  no sign-in and no command of the resource alone, and at most one command of the tenant, which has
  the organisation to itself; an erasure in it waits only for that command and is waited for only by it, so
  that the circle is the two, and the command is one that locks a member's entitlement out of turn
  (`CrossesErasure`); a command of the tenant and one of an application do not wait for each other
  (`NoPolicy`); and what is left are unlinkings (`OnlyUnlinkings`). From it: `OnlyErasuresMeet`, for circles
  of any length.

  The assumption is that no person's name is one of the marks `Principals` adds. Both invariants
  were checked by TLC on the run's instance before they were proved.

The merged properties have theorems of their own (`TrueAnswers`, `TrueReplies`, `DueEffects`, `SessionsRest`,
`DeadLinks`) that join those of their parts.

Only model-checked: the liveness properties (`CallsEnd`, `EveryChangeIsTold`, `RepeatsFinish`), which are
out of the proof system's reach. Every invariant and every action property that a passing run checks is stated
by a theorem.

## What the models found

Where the code does not keep what a comment or a document of the repository says, or where its guarantee
is narrower than it reads. Each is visible in a model as the exception a property names, as a property that is
stated in a module and that TLC refutes on the instance named here (1 to 4), or as one that a run keeps
refuting (8 and 11, with the run's name).

1. An intent whose process dies after its claim, or whose last transition fails, stays `committing`, and
   every later call is told to call again shortly: `CommittingSettles`, on the instance of `intents_ends`
   under `AuthorsReturn`. `CallsEnd` asks only reliable calls to settle.
2. A commit can be applied, and its receipt answered later, with no evidence of it: `CommittedIsEvidence`,
   on an instance of one intent and one unreliable call. `EvidenceIsFaithful` says what evidence there is, not
   that there is some.
3. An invalidation that meets a read in flight is undone when the read arrives: `InvalidationReadsAgain`,
   on the instance of `grants`. Of `CallsReadWhatTheyAreOwed`, only a `quiet` invalidation is owed a new read.
4. An event that commits after a newer one was polled is never announced: `NothingIsPassedBy`, on the
   instance of `poller`. The repository tracks it as Q-TOOLBOX-POLLER-SKIP.
5. An applied write can be answered UPSTREAM_REJECTED, which says it was not: the resend of a write whose
   first request was applied may be refused (`RepliesAreTrue` speaks of the first refusal).
6. Two posts of a request that is refused together each leave an audit row, where
   `magic-link-confirm.ts:86-88` has one however often it is posted.
7. A job that was admitted before its address's holder was erased may insert its row after the erasure,
   which deletes the requests it finds so that no address stays "in a row for seven days"
   (`db/queries/magic-link-requests.ts:171-176`). A request to connect a directory has the same gap between
   `reserveConnection`'s read and its insert.
8. `enable` writes the catalogue's entry with the overrides it read when it planned. A capability that is turned
   off meanwhile, by an administrator or by an ingest between two enables, is on again, where `catalogue.ts` has
   it stay off for every organisation that has the provider enabled (`enablement_stale`). `OthersChoicesStay`
   names this as `Overtaken`. Two replicas that ingest at once may likewise turn off again what an administrator
   turned on in between, which the model's `Ingest`, one step, leaves out.
9. `standalone.enable` counts a conflicting row as existing though it may be disabled or lack scopes, and a
   link that another made meanwhile is reported as `created`, since the link is upserted; hence
   `EnablesInFull` compares what was created for capabilities and entitlements only.
10. PostgreSQL may have to end one of: the erasure of a user and a change or removal of an entitlement of
   one of its memberships; the erasures of a user and of its organisation; two unlinkings of one resource;
   two commands past their authority whose bodies take alone what the other shares. They are retried by
   their callers (`isRetryableDatabaseError`), and the properties on deadlock, which are proved for any number of
   commands (`OnlyErasuresMeet`, `CirclesAreInBodies`), say that there are no others.
11. A call that finds an intent consumed is told that its commit failed and to prepare it again
   (`commit.ts:23`), though the mutation may have taken effect: its answer was lost, did not fit the output
   schema, or the row could not be settled (`intents_consumed`). Who does as told does it twice, unless the
   new prepare's targets show the effect.

## Plan

1. Done: `Intents` with `OneShot`, `AuditPoller`, `GrantsReader`, `AdminCommands`, `MagicLink`,
   `DirectorySignIn`, `OAuthGrants` with `Delegation`, `MemberPermission`, `AdminAuthority`, `TenantPolicy`,
   `Enablement`.
2. Done: proofs about each of these modules.
3. A composition: commands commit audit events, the poller announces them, the grants reader and the
   profile cache forget. Property: access that a command ended stops within the bound the parts give.
4. `BoundedQueue` with its drain; the evidence chain with its verification and erasure; the several writes
   of a staff member's removal (`mcps/admin/src/staff.ts:124`), which is `Enablement`'s shape; proofs of
   domains and the import's batches; the protocol sweep; machine OAuth's budgets.

## What is not modelled, and why

The components that `PROJECT.json` lists as not modelled, with their reasons. Of the repository's lines
about one in six is mapped. Most of the rest has no behaviour in time that a model could get wrong or right:
the web application, the design system and its packages, pages and mail templates (React); the schemas,
OpenAPI descriptions and request validation around the admin API's commands, whose bodies are modelled;
lists, pages and searches that only read; configuration, start-up, telemetry, migrations and the
declarations of tables; infrastructure, charts and deployment scripts, which are configured in other
languages or run once; generators, benchmarks and acceptance tests. Mapping those lines would widen
definitions past what they translate.

Pure functions of one input (projection, search, manifests, rendering, parsing) and the libraries the code
calls are left out: better-auth's protocol with directories and clients, the mail provider, and PostgreSQL,
whose locks, unique keys and compare-and-set updates are modelled by how the code uses them. Hash
functions and tokens are identities: that they cannot be guessed is assumed. Per module, what is left out is
said at its head: access and ID tokens, resource-less logins and the expiry of flows and codes
(`OAuthGrants`); windows of membership and changes of an issuer (`DirectorySignIn`); windows, domains and
providers (`TenantPolicy`); break-glass access (`AdminAuthority`).
