------------------------------ MODULE MagicLink ------------------------------
(***************************************************************************)
(* Sign-in by mail (apps/id/src/services/magic-link-*.ts and               *)
(* auth/magic-link-confirm.ts): the requests for one address at one firm,  *)
(* and what a browser posts of their links and codes.                      *)
(*                                                                         *)
(* A job makes a request's row in a transaction and then sends its mail.   *)
(* A post of a link, or of a code that a transaction of its own has        *)
(* counted, confirms the request in a transaction that locks the address,  *)
(* shares its holder and the firm, locks the row, reads admission again,   *)
(* and makes the session.  Meanwhile operators switch links, admission and *)
(* the domain, and list, remove, disable and release the address's holder. *)
(*                                                                         *)
(* A transaction's locks follow from where it is; a command that needs one *)
(* waits for it and is one step.  Abstracted: one browser, which made every *)
(* request; one limit and its window.  Left out: accounts of other firms,  *)
(* windows of membership, and the grants that end with a session.          *)
(***************************************************************************)
EXTENDS Naturals, FiniteSets

CONSTANTS
  Requests,    \* requests for the address, each with its link and its code
  Posts,       \* posts of a link or a code under way
  Users,       \* users the address may come to belong to, one after another
  Nobody,      \* the address has no user
  NoRequest,   \* a code of no request; a post that has found none
  Limit,       \* requests an address may make in a window
  Tries,       \* comparisons a request's code gets (3 in the code)
  MaxCommands  \* bound: how many commands operators run

ASSUME MagicLinkAssumption ==
  /\ Nobody \notin Users /\ NoRequest \notin Requests
  /\ Limit \in Nat /\ Tries \in Nat \ {0} /\ MaxCommands \in Nat
  /\ IsFiniteSet(Requests)

VARIABLES
  links,     \* whether the firm's sign-in by link is "on" or "off"
  revision,  \* of the row that says so
  domain,    \* whether the address's domain is "active" or "disabled"
  admits,    \* whom the firm admits: "listed" people or "anyone" at the domain
  holder,    \* the address's user
  account,   \* each user: "unborn", "active", "disabled" or "gone"
  member,    \* its membership of the firm: "none", "active" or "revoked"
  job,       \* where the job of each request is
  sent,      \* its row: "none", "sent", "failed" or "deleted"
  issued,    \* the revision it was issued under
  live,      \* the requests that have not ended
  token,     \* those whose link's token is kept
  recent,    \* those made in the current window
  attempts,  \* comparisons with its code
  at,        \* where each post is
  about,     \* the request it confirms
  seen,      \* the holder it has read and locked
  signedIn,  \* the users with a session that a request made
  uses,      \* how many sessions each request has ever made
  guessed,   \* the requests whose last comparison was with a wrong code
  commands   \* how many commands operators have run

firmVars == <<links, revision, domain, admits>>
userVars == <<holder, account, member>>
rowVars == <<sent, issued, live, token, recent, attempts>>
postVars == <<at, about, seen>>
vars == <<firmVars, userVars, job, rowVars, postVars, signedIn, uses, guessed, commands>>

Init ==
  /\ links = "on" /\ revision = 1 /\ domain = "active" /\ admits \in {"listed", "anyone"}
  /\ holder \in Users \cup {Nobody}
  /\ account = [u \in Users |-> IF u = holder THEN "active" ELSE "unborn"]
  /\ member = [u \in Users |-> IF u = holder THEN "active" ELSE "none"]
  /\ job = [r \in Requests |-> "idle"] /\ sent = [r \in Requests |-> "none"]
  /\ issued = [r \in Requests |-> 0] /\ live = {} /\ token = {} /\ recent = {}
  /\ attempts = [r \in Requests |-> 0]
  /\ at = [p \in Posts |-> "idle"] /\ about = [p \in Posts |-> NoRequest]
  /\ seen = [p \in Posts |-> Nobody]
  /\ signedIn = {} /\ uses = [r \in Requests |-> 0] /\ guessed = {}
  /\ commands = 0

\* admitMagicLink, read from current state.
Admitted ==
  /\ links = "on" /\ domain = "active"
  /\ IF holder = Nobody THEN admits = "anyone"
     ELSE /\ account[holder] = "active"
          /\ \/ member[holder] = "active"
             \/ member[holder] = "none" /\ admits = "anyone"

\* liveLink.
Live(r) == sent[r] = "sent" /\ r \in live

-----------------------------------------------------------------------------
(***************************************************************************)
(* Locks.                                                                  *)
(***************************************************************************)
AddressFree ==
  /\ \A r \in Requests : job[r] # "counted"
  /\ \A p \in Posts : at[p] \notin {"addressed", "locked", "checked"}

\* Mutant: a confirmation does not share its holder's rows.
SharesNobody(p, u) == FALSE

SharesFirm(p) == at[p] \in {"locked", "checked"}
SharesHolder(p, u) == at[p] \in {"locked", "checked"} /\ seen[p] = u
LocksRow(p, r) == at[p] = "checked" /\ about[p] = r

FirmFree == \A p \in Posts : ~ SharesFirm(p)
UserFree(u) == \A p \in Posts : ~ SharesHolder(p, u)
RowFree(r) == \A p \in Posts : ~ LocksRow(p, r)

-----------------------------------------------------------------------------
(***************************************************************************)
(* The job of a request.                                                   *)
(***************************************************************************)
\* Only an address that is admitted costs anything; admission holds no locks.
Admit(r) ==
  /\ job[r] = "idle" /\ Admitted
  /\ job' = [job EXCEPT ![r] = "admitted"]
  /\ issued' = [issued EXCEPT ![r] = revision]
  /\ UNCHANGED <<firmVars, userVars, sent, live, token, recent, attempts, postVars,
                 signedIn, uses, guessed, commands>>

\* What the limits count: what did not fail.
Counted == {r \in recent : sent[r] = "sent"}

\* Mutant: requests are counted before the address is locked.
CountUnlocked(r) ==
  /\ job[r] = "admitted"
  /\ job' = [job EXCEPT ![r] = IF Cardinality(Counted) < Limit THEN "counted" ELSE "done"]
  /\ UNCHANGED <<firmVars, userVars, rowVars, postVars, signedIn, uses, guessed, commands>>

\* Lock the address, which serialises the count and the insert across replicas.
Count(r) ==
  /\ job[r] = "admitted" /\ AddressFree
  /\ job' = [job EXCEPT ![r] = IF Cardinality(Counted) < Limit THEN "counted" ELSE "done"]
  /\ UNCHANGED <<firmVars, userVars, rowVars, postVars, signedIn, uses, guessed, commands>>

\* The token and the row commit together, before the mail is sent.
Reserve(r) ==
  /\ job[r] = "counted"
  /\ job' = [job EXCEPT ![r] = "sending"]
  /\ sent' = [sent EXCEPT ![r] = "sent"]
  /\ live' = live \cup {r} /\ token' = token \cup {r} /\ recent' = recent \cup {r}
  /\ UNCHANGED <<firmVars, userVars, issued, attempts, postVars, signedIn, uses, guessed, commands>>

\* The send fails, though its mail may have arrived: the row is marked and its
\* token deleted.
SendFails(r) ==
  /\ job[r] = "sending" /\ RowFree(r)
  /\ job' = [job EXCEPT ![r] = "done"]
  /\ sent' = [sent EXCEPT ![r] = IF @ = "deleted" THEN @ ELSE "failed"]
  /\ token' = token \ {r}
  /\ UNCHANGED <<firmVars, userVars, issued, live, recent, attempts, postVars,
                 signedIn, uses, guessed, commands>>

\* The mail is sent; or a statement fails or the process dies, at any point.
Stop(r) ==
  /\ job[r] \in {"admitted", "counted", "sending"}
  /\ job' = [job EXCEPT ![r] = "done"]
  /\ UNCHANGED <<firmVars, userVars, rowVars, postVars, signedIn, uses, guessed, commands>>

-----------------------------------------------------------------------------
(***************************************************************************)
(* Time: half an hour ends a request and its token, a window its count.    *)
(***************************************************************************)
Expire(r) ==
  /\ r \in live
  /\ live' = live \ {r} /\ token' = token \ {r}
  /\ UNCHANGED <<firmVars, userVars, job, sent, issued, recent, attempts, postVars,
                 signedIn, uses, guessed, commands>>

LeaveWindow(r) ==
  /\ r \in recent
  /\ recent' = recent \ {r}
  /\ UNCHANGED <<firmVars, userVars, job, sent, issued, live, token, attempts, postVars,
                 signedIn, uses, guessed, commands>>

-----------------------------------------------------------------------------
(***************************************************************************)
(* Posts.                                                                  *)
(***************************************************************************)
Move(p, place) == at' = [at EXCEPT ![p] = place] /\ UNCHANGED about

\* The post is answered.
Answer(p) ==
  /\ at' = [at EXCEPT ![p] = "idle"]
  /\ about' = [about EXCEPT ![p] = NoRequest] /\ seen' = [seen EXCEPT ![p] = Nobody]

Find(p, r) ==
  /\ at' = [at EXCEPT ![p] = "found"] /\ about' = [about EXCEPT ![p] = r] /\ UNCHANGED seen

\* POST /magic-link: the live request of this token and this browser.
PostLink(p, r) ==
  /\ at[p] = "idle" /\ Live(r)
  /\ Find(p, r)
  /\ UNCHANGED <<firmVars, userVars, job, rowVars, signedIn, uses, guessed, commands>>

\* The requests whose codes a post is compared with.
Held == {r \in Requests : Live(r) /\ attempts[r] < Tries}

\* Those a post of `guess` ends.
Exhausted(guess) == {r \in Held \ {guess} : attempts[r] + 1 >= Tries}

\* POST /magic-link/code: compare one code with every request the browser holds,
\* and count each comparison before anything else.  What it matches, it confirms.
TryCode(p, guess) ==
  /\ at[p] = "idle" /\ Held # {} /\ \A r \in Held : RowFree(r)
  /\ attempts' = [r \in Requests |-> IF r \in Held THEN attempts[r] + 1 ELSE attempts[r]]
  /\ guessed' = guessed \cup Exhausted(guess)
  /\ live' = live \ Exhausted(guess)
  /\ IF guess \in Held THEN Find(p, guess) ELSE UNCHANGED postVars
  /\ UNCHANGED <<firmVars, userVars, job, sent, issued, token, recent, signedIn, uses, commands>>

\* confirmMagicLink: lock the address and read its holder.
LockAddress(p) ==
  /\ at[p] = "found" /\ AddressFree
  /\ Move(p, "addressed") /\ seen' = [seen EXCEPT ![p] = holder]
  /\ UNCHANGED <<firmVars, userVars, job, rowVars, signedIn, uses, guessed, commands>>

\* Share the holder that was read, the firm and its provider.
ShareFirm(p) ==
  /\ at[p] = "addressed"
  /\ Move(p, "locked") /\ UNCHANGED seen
  /\ UNCHANGED <<firmVars, userVars, job, rowVars, signedIn, uses, guessed, commands>>

\* Mutants: what was admitted at issue is admitted; a link of any revision.
GoodAsIssued(p) == Live(about[p]) /\ issued[about[p]] = revision /\ holder = seen[p]
GoodOfAnyRevision(p) == Live(about[p]) /\ Admitted /\ holder = seen[p]

\* What a confirmation needs of the row, the firm and the holder.
Good(p) == Live(about[p]) /\ Admitted /\ issued[about[p]] = revision /\ holder = seen[p]

\* Lock the row and check; a row that is gone answers nothing, any other
\* refusal rolls back.
Check(p) ==
  /\ at[p] = "locked" /\ RowFree(about[p])
  /\ IF sent[about[p]] = "deleted" THEN Answer(p)
     ELSE Move(p, IF Good(p) THEN "checked" ELSE "refused") /\ UNCHANGED seen
  /\ UNCHANGED <<firmVars, userVars, job, rowVars, signedIn, uses, guessed, commands>>

\* Mutant: the request stays as it was.
SignInAgain(p) ==
  LET r == about[p] IN
  /\ at[p] = "checked" /\ r \in token
  /\ Answer(p)
  /\ \E u \in Users :
       /\ IF seen[p] = Nobody THEN holder = Nobody /\ account[u] = "unborn" ELSE u = seen[p]
       /\ holder' = u
       /\ account' = [account EXCEPT ![u] = IF seen[p] = Nobody THEN "active" ELSE @]
       /\ member' = [member EXCEPT ![u] = IF @ = "none" THEN "active" ELSE @]
       /\ signedIn' = signedIn \cup {u}
  /\ uses' = [uses EXCEPT ![r] = @ + 1]
  /\ UNCHANGED <<firmVars, job, rowVars, guessed, commands>>

\* Ensure the person and the membership, consume the token, make the session and
\* end the request.  A new user's address must still be nobody's.
SignIn(p) ==
  LET r == about[p] IN
  /\ at[p] = "checked" /\ r \in token
  /\ Answer(p)
  /\ \E u \in Users :
       /\ IF seen[p] = Nobody THEN holder = Nobody /\ account[u] = "unborn" ELSE u = seen[p]
       /\ holder' = u
       /\ account' = [account EXCEPT ![u] = IF seen[p] = Nobody THEN "active" ELSE @]
       /\ member' = [member EXCEPT ![u] = IF @ = "none" THEN "active" ELSE @]
       /\ signedIn' = signedIn \cup {u}
  /\ uses' = [uses EXCEPT ![r] = @ + 1]
  /\ token' = token \ {r} /\ live' = live \ {r}
  /\ UNCHANGED <<firmVars, job, sent, issued, recent, attempts, guessed, commands>>

\* The token is not there any more.
FindConsumed(p) ==
  /\ at[p] = "checked" /\ about[p] \notin token
  /\ Move(p, "refused") /\ UNCHANGED seen
  /\ UNCHANGED <<firmVars, userVars, job, rowVars, signedIn, uses, guessed, commands>>

\* After the rollback, end the request in a transaction of its own; a failure of
\* it is only logged.
RecordRefusal(p) ==
  /\ at[p] = "refused" /\ RowFree(about[p])
  /\ Answer(p)
  /\ live' \in {live, live \ {about[p]}}
  /\ UNCHANGED <<firmVars, userVars, job, sent, issued, token, recent, attempts,
                 signedIn, uses, guessed, commands>>

\* A statement fails or a lock is not got in time, and all rolls back.
FailPost(p) ==
  /\ at[p] \in {"found", "addressed", "locked", "checked"}
  /\ Answer(p)
  /\ UNCHANGED <<firmVars, userVars, job, rowVars, signedIn, uses, guessed, commands>>

-----------------------------------------------------------------------------
(***************************************************************************)
(* Commands.                                                               *)
(***************************************************************************)
Command ==
  /\ commands < MaxCommands /\ commands' = commands + 1
  /\ UNCHANGED <<job, issued, recent, attempts, postVars, uses, guessed>>

\* enableMagicLink and disableMagicLink: the setting moves the revision.
SwitchLinks ==
  /\ Command /\ FirmFree
  /\ links' = IF links = "on" THEN "off" ELSE "on"
  /\ revision' = revision + 1
  /\ UNCHANGED <<domain, admits, userVars, sent, live, token, signedIn>>

\* Opening a firm to anyone needs its domain active (and proved).
SetAdmission ==
  /\ Command /\ FirmFree
  /\ admits' = IF admits = "listed" THEN "anyone" ELSE "listed"
  /\ admits' = "anyone" => domain = "active"
  /\ UNCHANGED <<links, revision, domain, userVars, sent, live, token, signedIn>>

\* endMagicLinkUseOfDomain: the sessions of its addresses end.
DisableDomain ==
  /\ Command /\ FirmFree /\ domain = "active"
  /\ domain' = "disabled" /\ signedIn' = {}
  /\ UNCHANGED <<links, revision, admits, userVars, sent, live, token>>

EnableDomain ==
  /\ Command /\ FirmFree /\ domain = "disabled"
  /\ domain' = "active"
  /\ UNCHANGED <<links, revision, admits, userVars, sent, live, token, signedIn>>

\* An import or a directory's sign-in lists a new user of the address; neither
\* locks the address.
ListUser(u) ==
  /\ Command /\ holder = Nobody /\ account[u] = "unborn"
  /\ holder' = u
  /\ account' = [account EXCEPT ![u] = "active"] /\ member' = [member EXCEPT ![u] = "active"]
  /\ UNCHANGED <<firmVars, sent, live, token, signedIn>>

RemoveMember(u) ==
  /\ Command /\ FirmFree /\ member[u] = "active"
  /\ member' = [member EXCEPT ![u] = "revoked"]
  /\ UNCHANGED <<firmVars, holder, account, sent, live, token, signedIn>>

ReinstateMember(u) ==
  /\ Command /\ FirmFree /\ member[u] = "revoked"
  /\ member' = [member EXCEPT ![u] = "active"]
  /\ UNCHANGED <<firmVars, holder, account, sent, live, token, signedIn>>

DisableUser(u) ==
  /\ Command /\ UserFree(u) /\ account[u] = "active"
  /\ account' = [account EXCEPT ![u] = "disabled"]
  /\ signedIn' = signedIn \ {u}
  /\ UNCHANGED <<firmVars, holder, member, sent, live, token>>

EnableUser(u) ==
  /\ Command /\ UserFree(u) /\ account[u] = "disabled"
  /\ account' = [account EXCEPT ![u] = "active"]
  /\ UNCHANGED <<firmVars, holder, member, sent, live, token, signedIn>>

\* eraseUser, or retireUserEmail of a disabled user: the address is free, and its
\* requests and their tokens go.
ReleaseUser(u) ==
  /\ Command /\ UserFree(u) /\ account[u] \in {"active", "disabled"}
  /\ \A r \in Requests : RowFree(r)
  /\ holder' = Nobody /\ account' = [account EXCEPT ![u] = "gone"]
  /\ signedIn' = signedIn \ {u}
  /\ sent' = [r \in Requests |-> IF sent[r] = "none" THEN "none" ELSE "deleted"]
  /\ live' = {} /\ token' = {}
  /\ UNCHANGED <<firmVars, member>>

-----------------------------------------------------------------------------
JobStep(r) == Admit(r) \/ Count(r) \/ Reserve(r) \/ SendFails(r) \/ Stop(r)

PostStep(p) ==
  \/ \E r \in Requests : PostLink(p, r)
  \/ \E guess \in Requests \cup {NoRequest} : TryCode(p, guess)
  \/ LockAddress(p) \/ ShareFirm(p) \/ Check(p) \/ SignIn(p) \/ FindConsumed(p)
  \/ RecordRefusal(p) \/ FailPost(p)

CommandStep ==
  \/ SwitchLinks \/ SetAdmission \/ DisableDomain \/ EnableDomain
  \/ \E u \in Users :
       \/ ListUser(u) \/ RemoveMember(u) \/ ReinstateMember(u)
       \/ DisableUser(u) \/ EnableUser(u) \/ ReleaseUser(u)

Next ==
  \/ \E r \in Requests : JobStep(r) \/ Expire(r) \/ LeaveWindow(r)
  \/ \E p \in Posts : PostStep(p)
  \/ CommandStep

Spec == Init /\ [][Next]_vars

-----------------------------------------------------------------------------
(***************************************************************************)
(* Properties.                                                             *)
(***************************************************************************)
\* Every variable keeps to its type.
TypeOK ==
  /\ links \in {"on", "off"} /\ revision \in Nat /\ domain \in {"active", "disabled"}
  /\ admits \in {"listed", "anyone"} /\ holder \in Users \cup {Nobody}
  /\ account \in [Users -> {"unborn", "active", "disabled", "gone"}]
  /\ member \in [Users -> {"none", "active", "revoked"}]
  /\ job \in [Requests -> {"idle", "admitted", "counted", "sending", "done"}]
  /\ sent \in [Requests -> {"none", "sent", "failed", "deleted"}]
  /\ issued \in [Requests -> Nat]
  /\ live \subseteq Requests /\ token \subseteq Requests /\ recent \subseteq Requests
  /\ attempts \in [Requests -> 0..Tries]
  /\ at \in [Posts -> {"idle", "found", "addressed", "locked", "checked", "refused"}]
  /\ about \in [Posts -> Requests \cup {NoRequest}] /\ seen \in [Posts -> Users \cup {Nobody}]
  /\ signedIn \subseteq Users /\ uses \in [Requests -> Nat] /\ guessed \subseteq Requests
  /\ commands \in 0..MaxCommands

\* An address never has more requests in a window than the limit allows, however
\* many jobs of however many replicas count at once (lockMagicLinkAddress).
LimitHolds == Cardinality(Counted) <= Limit

\* No session outlives the domain it rests on: a confirmation under way when the
\* domain is disabled either committed first and its session was ended, or is
\* refused (endMagicLinkUseOfDomain).
LostDomainEndsSessions == domain = "disabled" => signedIn = {}

\* No session is a user's who has been disabled or erased, nor becomes one by a
\* confirmation that had read the user before (confirmMagicLink's share of its
\* holder, and its refusal of a holder who appeared since).
EndedUserHasNoSession == \A u \in signedIn : account[u] = "active"

\* No session outlives what it rests on: the firm's domain, the person's account.
SessionsRestOnTheLiving == LostDomainEndsSessions /\ EndedUserHasNoSession

\* A request makes one session, though its link and its code are posted at once
\* ("Either proof ends both").
OneSessionPerRequest == \A r \in Requests : uses[r] <= 1

SignsIn(r) == uses'[r] # uses[r]

\* Whoever a request signs in is admitted when the session is made, whatever
\* changed since the mail was sent or the row was checked.
SignsInTheAdmitted == [][\A r \in Requests : SignsIn(r) => Admitted]_vars

\* A link issued before a firm's links were switched off stays dead when they are
\* switched on again.
OldLinksStayDead == [][\A r \in Requests : SignsIn(r) => issued[r] = revision]_vars

\* The last wrong code ends a request for its link as well: no post that found it
\* before, or posts its link, signs in with it (attemptMagicLinkCode).
WrongCodesEndTheLink == [][\A r \in Requests : SignsIn(r) => r \notin guessed]_vars

\* A link that is over signs nobody in: one of an earlier revision of the firm's
\* setting, and one whose code was guessed wrong as often as it may be.
DeadLinksStayDead == OldLinksStayDead /\ WrongCodesEndTheLink

(***************************************************************************)
(* Why these hold: one transaction at a time holds the address, a row is   *)
(* made once, and what a confirmation has checked stays as it was until it *)
(* ends, because whoever would change it waits for a lock it holds.        *)
(***************************************************************************)
Addressed == {"addressed", "locked", "checked"}

AddressIsHeldOnce ==
  /\ \A p, q \in Posts : at[p] \in Addressed /\ at[q] \in Addressed => p = q
  /\ \A q, r \in Requests : job[q] = "counted" /\ job[r] = "counted" => q = r
  /\ \A p \in Posts, r \in Requests : job[r] = "counted" => at[p] \notin Addressed

CountsHold ==
  /\ LimitHolds
  /\ \A r \in Requests : job[r] = "counted" => Cardinality(Counted) < Limit

RowsHold ==
  \A r \in Requests :
    /\ job[r] \in {"idle", "admitted", "counted"} => sent[r] = "none"
    /\ sent[r] = "none" => r \notin live \cup token \cup recent \cup guessed /\ uses[r] = 0
    /\ r \in token => uses[r] = 0
    /\ r \in guessed => r \notin live
    /\ uses[r] <= 1

ChecksHold ==
  \A p \in Posts :
    /\ at[p] # "idle" => about[p] \in Requests
    /\ at[p] = "checked" =>
         /\ links = "on" /\ domain = "active"
         /\ sent[about[p]] = "sent" /\ issued[about[p]] = revision /\ about[p] \notin guessed
         /\ IF seen[p] = Nobody THEN admits = "anyone"
            ELSE /\ holder = seen[p] /\ account[seen[p]] = "active"
                 /\ \/ member[seen[p]] = "active"
                    \/ member[seen[p]] = "none" /\ admits = "anyone"

Inv == /\ TypeOK /\ AddressIsHeldOnce /\ CountsHold /\ RowsHold /\ ChecksHold
       /\ LostDomainEndsSessions /\ EndedUserHasNoSession
=============================================================================
