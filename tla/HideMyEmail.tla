----------------------------- MODULE HideMyEmail -----------------------------
(***************************************************************************)
(* The Hide My Email service of one iCloud account (internal/hmesync) over *)
(* its store tables and Apple's web API.  Clients are concurrent requests. *)
(* An operation holds the account's operation lock from start to end; only *)
(* automatic creation and a forwarding change also hold the account lock   *)
(* while they talk to Apple, the others take it for their last, local      *)
(* step.  Account edits, alias edits and mailbox synchronisation take the  *)
(* account lock only, so they interleave with an operation's requests.     *)
(*                                                                         *)
(* Every Apple call answers "ok", "expired" (the session is refused) or    *)
(* "error"; a reserve whose answer is lost may or may not have happened.   *)
(* The validate call before each directory read is part of that read.      *)
(* The account version the store compares in ConfirmFreshAutoAlias is not  *)
(* kept: all that advances it needs the account lock its caller holds.     *)
(***************************************************************************)
EXTENDS Naturals, FiniteSets

CONSTANTS
    Clients,            \* concurrent requests
    Addresses,          \* Hide My Email addresses Apple can generate
    None,               \* no row, no address, no lock holder
    MaxEnabled,         \* domain.MaxEnabledAliasesPerAccount
    MaxAttempts,        \* wrong codes one verification challenge survives
    MaxConfirmations,   \* directory reads after a reserve
    MaxRequests,        \* bound on the requests that are made
    MaxEvents           \* bound on crashes, failed store writes, edits of the
                        \* account and what the user does on Apple's site

\* What an alias row says here: is it enabled, Apple's mark on it, and has a
\* candidate outlived its grace period?
Rows == [enabled : BOOLEAN, mark : {"", "pending", "inactive"}, late : BOOLEAN]

ASSUME HmeAssumption ==
    /\ None \notin Clients /\ None \notin Addresses /\ None \notin Rows
    /\ IsFiniteSet(Addresses)
    /\ MaxEnabled \in Nat \ {0} /\ MaxAttempts \in Nat \ {0}
    /\ MaxConfirmations \in Nat \ {0}
    /\ MaxRequests \in Nat /\ MaxEvents \in Nat

VARIABLES
    account,        \* accounts row: email, user, type, on
    session,        \* apple_web_sessions row, or None
    challenge,      \* the account's verification challenge in memory, or None
    aliases,        \* aliases row of each address, or None
    cursor,         \* does imap_sync_states hold a cursor?
    directory,      \* Apple: each address' status and forwarding target
    selected,       \* Apple: the account's selected forwarding target
    operationLock, accountLock,
    ops,            \* what each client is doing
    missed,         \* addresses whose mail a cursor advance passed over
    reserved,       \* addresses our reserve requests created at Apple
    excused,        \* reserves reported to the caller as untracked, given up on
                    \* a directory that omits them, or lost in a crash
    events,         \* how many of the bounded events have happened
    requests        \* how many requests have been made

hmeVars == <<account, session, challenge, aliases, cursor, directory, selected,
             operationLock, accountLock, ops, missed, reserved, excused, events, requests>>
appleVars == <<directory, selected>>
ghosts == <<missed, reserved, excused>>

Targets == {"own", "other"}
Identities == [email : 1..2, user : 1..2, type : {"icloud", "custom"}]

identityOf(acc) == [email |-> acc.email, user |-> acc.user, type |-> acc.type]
NoIdentity == [email |-> 1, user |-> 1, type |-> "custom"]

sameIdentity(left, right) ==
    left.type = "icloud" /\ right.type = "icloud" /\ left = right

\* A client between requests.
Idle == [pc |-> "idle", identity |-> NoIdentity, record |-> 0, login |-> 0,
         view |-> None, address |-> None, sure |-> FALSE, reads |-> 0]

Listed(dir) == {a \in Addresses : dir[a].status \in {"active", "inactive"}}
forwardingTarget(sel) == IF sel = "none" THEN "own" ELSE sel
View == [dir |-> directory, sel |-> selected]

Enabled(rows) == {a \in Addresses : rows[a] # None /\ rows[a].enabled}
Pending(rows) == {a \in Addresses : rows[a] # None /\ rows[a].mark = "pending"}
Row(on, mark) == [enabled |-> on, mark |-> mark, late |-> FALSE]

HasCapacity_IgnoresPending(rows) ==
    account.type = "custom" \/ Cardinality(Enabled(rows)) < MaxEnabled

\* The capacity of an iCloud account counts confirmation-pending rows as well;
\* a custom mailbox has no limit.
HasCapacity(rows) ==
    account.type = "custom" \/ Cardinality(Enabled(rows) \cup Pending(rows)) < MaxEnabled

\* Encryption is randomised: a saved session never has a ciphertext in use.
FreshCiphertext ==
    CHOOSE c \in 1..(Cardinality(Clients) + 2) :
        /\ session = None \/ session.ciphertext # c
        /\ \A q \in Clients : ops[q].record # c

saveSession(login) == session' = [ciphertext |-> FreshCiphertext, login |-> login]

-----------------------------------------------------------------------------
InitHme ==
    /\ \E type \in {"icloud", "custom"} :
          account = [email |-> 1, user |-> 1, type |-> type, on |-> TRUE]
    /\ session \in IF account.type = "custom" THEN {None}
                   ELSE {None, [ciphertext |-> 1, login |-> 1]}
    /\ challenge = None
    /\ aliases = [a \in Addresses |-> None]
    /\ cursor = TRUE
    /\ \E old \in SUBSET Addresses :
          /\ Cardinality(old) <= 1
          /\ directory = [a \in Addresses |->
                [status |-> IF a \in old THEN "active" ELSE "free", target |-> "own"]]
          /\ missed = IF account.type = "custom" THEN Addresses ELSE old
          /\ selected \in IF old = {} THEN {"none", "own"} ELSE {"own"}
    /\ operationLock = None /\ accountLock = None
    /\ ops = [p \in Clients |-> Idle]
    /\ reserved = {} /\ excused = {} /\ events = 0 /\ requests = 0

Event == events < MaxEvents /\ events' = events + 1

acquireOperation(p) ==
    /\ ops[p].pc = "idle"
    /\ operationLock = None
    /\ operationLock' = p

Continue(p, op) == ops' = [ops EXCEPT ![p] = op]
At(p, pc) == ops[p].pc = pc

\* The deferred releases: the operation lock, and the account lock if held.
Finish(p) ==
    /\ ops' = [ops EXCEPT ![p] = Idle]
    /\ operationLock' = IF operationLock = p THEN None ELSE operationLock
    /\ accountLock' = IF accountLock = p THEN None ELSE accountLock

-----------------------------------------------------------------------------
(* Signing in.                                                              *)

StartAuth(p) ==
    /\ acquireOperation(p)
    /\ challenge' = None
    /\ Continue(p, [Idle EXCEPT !.pc = "signin", !.identity = identityOf(account)])
    /\ UNCHANGED <<account, session, aliases, cursor, appleVars, accountLock, ghosts, events>>

persistSession_Unchecked(p) == saveSession(ops[p].identity.email)

\* persistSession stores a session only while the account it was made for is
\* still the configured one.
persistSession(p) ==
    IF sameIdentity(identityOf(account), ops[p].identity)
      THEN saveSession(ops[p].identity.email)
      ELSE UNCHANGED session

removeSessionForIdentity(p) ==
    IF sameIdentity(identityOf(account), ops[p].identity)
      THEN /\ session' = None
           /\ challenge' = [identity |-> ops[p].identity, attempts |-> 0]
      ELSE UNCHANGED <<session, challenge>>

\* Client.SignIn: SRP, then 409 or an account that still requires a code.
SignInAnswers == {"refused", "two factor", "signed in"}

SignInReturns(p, answer) ==
    /\ At(p, "signin")
    /\ Finish(p)
    /\ answer # "refused" => accountLock = None
    /\ CASE answer = "refused" -> UNCHANGED <<session, challenge>>
         [] answer = "two factor" -> removeSessionForIdentity(p)
         [] answer = "signed in" -> persistSession(p) /\ UNCHANGED challenge
    /\ UNCHANGED <<account, aliases, cursor, appleVars, ghosts, events>>

VerifyAuth(p) ==
    /\ challenge # None /\ challenge.attempts < MaxAttempts
    /\ IF sameIdentity(identityOf(account), challenge.identity)
         THEN /\ acquireOperation(p)
              /\ Continue(p, [Idle EXCEPT !.pc = "verify", !.identity = challenge.identity])
              /\ UNCHANGED challenge
         ELSE /\ operationLock = None /\ At(p, "idle")
              /\ challenge' = None
              /\ UNCHANGED <<operationLock, ops>>
    /\ UNCHANGED <<account, session, aliases, cursor, appleVars, accountLock, ghosts, events>>

\* A wrong code counts against the challenge, if it still exists.
recordFailedAttempt ==
    challenge' = IF challenge = None \/ challenge.attempts + 1 >= MaxAttempts
                   THEN None
                   ELSE [challenge EXCEPT !.attempts = @ + 1]

\* Client.VerifyCode: a code Apple refuses, any other failure (trusting the
\* browser and the account login included), or a session.
VerifyAnswers == {"wrong code", "failed", "verified"}

VerifyReturns(p, answer) ==
    /\ At(p, "verify")
    /\ Finish(p)
    /\ answer = "verified" => accountLock = None
    /\ IF answer = "wrong code" THEN recordFailedAttempt ELSE challenge' = None
    /\ IF answer = "verified" THEN persistSession(p) ELSE UNCHANGED session
    /\ UNCHANGED <<account, aliases, cursor, appleVars, ghosts, events>>

ChallengeExpires ==
    /\ challenge # None
    /\ challenge' = None
    /\ UNCHANGED <<account, session, aliases, cursor, appleVars, operationLock, accountLock,
                   ops, ghosts, events>>

ClearAuth(p) ==
    /\ acquireOperation(p)
    /\ challenge' = None
    /\ Continue(p, [Idle EXCEPT !.pc = "clear"])
    /\ UNCHANGED <<account, session, aliases, cursor, appleVars, accountLock, ghosts, events>>

\* The stored session is deleted under the account lock, whoever stored it.
expireSession(p) ==
    /\ ops[p].pc \in {"clear", "expire"}
    /\ accountLock = None
    /\ session' = None
    /\ Finish(p)
    /\ UNCHANGED <<account, challenge, aliases, cursor, appleVars, ghosts, events>>

\* The forwarding settings delete only the session their request used.
forwardingError(p) ==
    /\ At(p, "expire own")
    /\ accountLock = None
    /\ session' = IF session # None /\ session.ciphertext = ops[p].record THEN None ELSE session
    /\ Finish(p)
    /\ UNCHANGED <<account, challenge, aliases, cursor, appleVars, ghosts, events>>

-----------------------------------------------------------------------------
(* Reading the directory and publishing what it says: directory             *)
(* synchronisation, registration of one address, forwarding settings.       *)

\* The start those operations share: an iCloud account with a session.
BeginReading(p, pc, address) ==
    /\ acquireOperation(p)
    /\ account.type = "icloud"
    /\ session # None
    /\ Continue(p, [Idle EXCEPT !.pc = pc, !.identity = identityOf(account),
                                !.record = session.ciphertext, !.login = session.login,
                                !.address = address])
    /\ UNCHANGED <<account, session, challenge, aliases, cursor, appleVars, accountLock,
                   ghosts, events>>

SyncAliases(p) == BeginReading(p, "sync", None)
RegisterExistingAlias(p, a) == BeginReading(p, "register", a)
forwardingSettings(p, t) == BeginReading(p, "forwarding", t)

Publishing == [sync |-> "publish", register |-> "create", forwarding |-> "select"]

ListAliases(p) ==
    /\ ops[p].pc \in DOMAIN Publishing
    /\ \/ Finish(p)
       \/ /\ ops[p].pc # "register"
          /\ Continue(p, [ops[p] EXCEPT !.pc = IF @ = "sync" THEN "expire" ELSE "expire own"])
          /\ UNCHANGED <<operationLock, accountLock>>
       \/ /\ Continue(p, [ops[p] EXCEPT !.pc = Publishing[@], !.view = View])
          /\ UNCHANGED <<operationLock, accountLock>>
    /\ UNCHANGED <<account, session, challenge, aliases, cursor, appleVars, ghosts, events>>

\* Under the account lock: still the account and the session that were read.
StillCurrent(p) ==
    /\ sameIdentity(identityOf(account), ops[p].identity)
    /\ session # None /\ session.ciphertext = ops[p].record

AbortStale(p) ==
    /\ ops[p].pc \in {"publish", "create", "select"}
    /\ accountLock = None /\ ~StillCurrent(p)
    /\ Finish(p)
    /\ UNCHANGED <<account, session, challenge, aliases, cursor, appleVars, ghosts, events>>

\* The entries that forward to the target the directory selects.
filterAliases(view) ==
    {a \in Listed(view.dir) : view.dir[a].target = forwardingTarget(view.sel)}

\* Candidates of an import that are no row yet; the others are existing ones.
NewCandidates(candidates) == {a \in candidates : aliases[a] = None}

\* Rows absent from the complete directory are removed, pending ones too; a
\* pending row that is listed is left to its own confirmation.
reconcileAppleAliasesTx(rows, view) ==
    [a \in Addresses |->
        CASE rows[a] = None -> None
          [] rows[a] # None /\ a \notin Listed(view.dir) -> None
          [] OTHER ->
             IF rows[a].mark = "pending" \/ a \notin filterAliases(view)
               THEN rows[a]
             ELSE IF view.dir[a].status = "active" THEN [rows[a] EXCEPT !.mark = ""]
             ELSE [rows[a] EXCEPT !.enabled = FALSE, !.mark = "inactive"]]

\* The new rows, enabled in the directory's order while capacity lasts.
importAliases(p) ==
    LET view  == ops[p].view
        kept  == reconcileAppleAliasesTx(aliases, view)
        fresh == NewCandidates(filterAliases(view))
        live  == {a \in fresh : view.dir[a].status = "active"}
    IN  \E on \in SUBSET live :
          /\ \A a \in on : HasCapacity([b \in Addresses |->
                              IF b \in on \ {a} THEN Row(TRUE, "") ELSE kept[b]])
          /\ \A a \in live \ on : ~HasCapacity([b \in Addresses |->
                              IF b \in on THEN Row(TRUE, "") ELSE kept[b]])
          /\ aliases' = [a \in Addresses |->
                IF a \in fresh THEN Row(a \in on, IF a \in live THEN "" ELSE "inactive")
                ELSE kept[a]]
          /\ cursor' = (cursor /\ on = {})
          /\ excused' = excused \cup {a \in Addresses : aliases[a] # None /\ kept[a] = None}

\* The session is saved in a transaction of its own before the import, which
\* may fail and leave the rows as they were.
PublishDirectory(p) ==
    /\ At(p, "publish")
    /\ accountLock = None /\ StillCurrent(p)
    /\ saveSession(ops[p].login)
    /\ Finish(p)
    /\ \/ importAliases(p) /\ UNCHANGED events
       \/ Event /\ UNCHANGED <<aliases, cursor, excused>>
    /\ UNCHANGED <<account, challenge, appleVars, missed, reserved>>

\* Store.CreateAlias refuses a full account and a taken address; the cursor is
\* dropped with the insert.
CreateAliasRow(a) ==
    IF aliases[a] = None /\ HasCapacity(aliases)
      THEN aliases' = [aliases EXCEPT ![a] = Row(TRUE, "")] /\ cursor' = FALSE
      ELSE UNCHANGED <<aliases, cursor>>

PublishRegistration(p) ==
    LET a == ops[p].address IN
    /\ At(p, "create")
    /\ accountLock = None /\ StillCurrent(p)
    /\ Finish(p)
    /\ IF a \in filterAliases(ops[p].view) /\ ops[p].view.dir[a].status = "active"
         THEN saveSession(ops[p].login) /\ CreateAliasRow(a)
         ELSE UNCHANGED <<session, aliases, cursor>>
    /\ UNCHANGED <<account, challenge, appleVars, ghosts, events>>

\* Client.UpdateForwardTo: applied, refused, or applied with its answer lost.
SelectForwardTo(target) == selected' \in {selected, target}

\* The change at Apple and its confirmation happen under the account lock.
\* Each answer's session is saved, or deleted when Apple refuses it.
UpdateForwardTo(p) ==
    /\ At(p, "select")
    /\ accountLock = None /\ StillCurrent(p)
    /\ \/ /\ ops[p].address \in {None, ops[p].view.sel}
          /\ saveSession(ops[p].login)
          /\ Finish(p)
          /\ UNCHANGED selected
       \/ /\ ops[p].address \notin {None, ops[p].view.sel}
          /\ SelectForwardTo(ops[p].address)
          /\ \/ saveSession(ops[p].login)
                /\ Continue(p, [ops[p] EXCEPT !.pc = "confirm select"])
                /\ accountLock' = p /\ UNCHANGED operationLock
             \/ (session' = None \/ saveSession(ops[p].login)) /\ Finish(p)
    /\ UNCHANGED <<account, challenge, aliases, cursor, directory, ghosts, events>>

ConfirmForwardTo(p) ==
    /\ At(p, "confirm select")
    /\ Finish(p)
    /\ session' = None \/ saveSession(ops[p].login)
    /\ UNCHANGED <<account, challenge, aliases, cursor, appleVars, ghosts, events>>

-----------------------------------------------------------------------------
(* Automatic creation: one reserve at most, or the confirmation of an older *)
(* candidate.  Both locks are held from "account" on.                       *)

CreateAutoAlias(p) ==
    /\ acquireOperation(p)
    /\ Continue(p, [Idle EXCEPT !.pc = "account"])
    /\ UNCHANGED <<account, session, challenge, aliases, cursor, appleVars, accountLock,
                   ghosts, events>>

\* The candidate an earlier attempt staged, if any.
PendingConfirmation == IF Pending(aliases) = {} THEN None ELSE CHOOSE a \in Pending(aliases) : TRUE

\* A disabled account, a full one without a candidate, or no session ends it.
CheckAccount(p) ==
    /\ At(p, "account")
    /\ accountLock = None
    /\ IF /\ account.on
          /\ PendingConfirmation = None => Cardinality(Enabled(aliases)) < MaxEnabled
          /\ session # None
         THEN /\ accountLock' = p
              /\ Continue(p, [Idle EXCEPT !.pc = "preflight", !.identity = identityOf(account),
                        !.record = session.ciphertext, !.login = session.login,
                        !.address = PendingConfirmation])
              /\ UNCHANGED operationLock
         ELSE Finish(p)
    /\ UNCHANGED <<account, session, challenge, aliases, cursor, appleVars, ghosts, events>>

\* The caller holds the account lock, so it deletes the session directly.
expireAutoSession(p) == session' = None /\ Finish(p)

confirmPendingAutoAlias_KeepsCursor(a, fresh) ==
    /\ Cardinality(Enabled(aliases)) < MaxEnabled
    /\ aliases' = [aliases EXCEPT ![a] = Row(TRUE, "")]
    /\ UNCHANGED cursor

\* A listed candidate is published: the row is enabled and, unless the address
\* was born in this very operation, the cursor is reset to rescan the mailbox.
confirmPendingAutoAlias(a, fresh) ==
    /\ Cardinality(Enabled(aliases)) < MaxEnabled
    /\ aliases' = [aliases EXCEPT ![a] = Row(TRUE, "")]
    /\ cursor' = (cursor /\ fresh)

\* An entry that is inactive or forwards elsewhere keeps the candidate pending,
\* and so does a failed write.
confirmPendingAlias(a, view, fresh) ==
    \/ /\ a \in filterAliases(view) /\ view.dir[a].status = "active"
       /\ confirmPendingAutoAlias(a, fresh)
       /\ UNCHANGED events
    \/ /\ \/ a \notin filterAliases(view) \/ view.dir[a].status # "active"
          \/ Cardinality(Enabled(aliases)) >= MaxEnabled
       /\ UNCHANGED <<aliases, cursor, events>>
    \/ Event /\ UNCHANGED <<aliases, cursor>>

\* Deletes an unpublished candidate only; neither cursor nor version change.
DiscardPendingAutoAlias(a) ==
    aliases' = IF a \in Pending(aliases) THEN [aliases EXCEPT ![a] = None] ELSE aliases

\* A complete directory that omits the candidate retires it after the grace
\* period of five minutes.
discardMissingAutoAlias(a) ==
    IF aliases[a].late
      THEN DiscardPendingAutoAlias(a) /\ excused' = excused \cup {a}
      ELSE UNCHANGED <<aliases, excused>>

\* The directory read that reconciles an older candidate and ends there.
Reconcile(p) ==
    LET a == ops[p].address IN
    /\ At(p, "preflight") /\ a # None
    /\ \/ Finish(p) /\ UNCHANGED <<session, aliases, cursor, excused, events>>
       \/ expireAutoSession(p) /\ UNCHANGED <<aliases, cursor, excused, events>>
       \/ /\ saveSession(ops[p].login)
          /\ Finish(p)
          /\ IF a \in Listed(directory)
               THEN confirmPendingAlias(a, View, FALSE) /\ UNCHANGED excused
               ELSE discardMissingAutoAlias(a) /\ UNCHANGED <<cursor, events>>
    /\ UNCHANGED <<account, challenge, appleVars, missed, reserved>>

\* The read before a reserve: without a selected target there is nothing to
\* reserve for, but an empty directory may select the account's own address.
Preflight(p) ==
    /\ At(p, "preflight") /\ ops[p].address = None
    /\ \/ Finish(p) /\ UNCHANGED session
       \/ expireAutoSession(p)
       \/ /\ saveSession(ops[p].login)
          /\ IF selected = "none" /\ Listed(directory) # {}
               THEN Finish(p)
               ELSE /\ Continue(p, [ops[p] EXCEPT !.view = View,
                              !.pc = IF selected = "none" THEN "repair" ELSE "reserve"])
                    /\ UNCHANGED <<operationLock, accountLock>>
    /\ UNCHANGED <<account, challenge, aliases, cursor, appleVars, ghosts, events>>

\* Selecting the own address, and the read that must confirm it.
RepairForwarding(p) ==
    /\ At(p, "repair")
    /\ SelectForwardTo("own")
    /\ \/ expireAutoSession(p)
       \/ saveSession(ops[p].login) /\ Finish(p)
       \/ /\ saveSession(ops[p].login)
          /\ selected' = "own"
          /\ Continue(p, [ops[p] EXCEPT !.pc = "reserve", !.view = [View EXCEPT !.sel = "own"]])
          /\ UNCHANGED <<operationLock, accountLock>>
    /\ UNCHANGED <<account, challenge, aliases, cursor, directory, ghosts, events>>

\* Apple creates the address, in its directory at once or only later.
AppleReserves(a) ==
    /\ directory[a].status = "free"
    /\ \E s \in {"hidden", "active"} :
          directory' = [directory EXCEPT ![a] = [status |-> s, target |-> selected]]
    /\ reserved' = reserved \cup {a}

CreateAlias_DropsAmbiguous(p) ==
    /\ At(p, "reserve")
    /\ \E a \in Addresses : AppleReserves(a)
    /\ Finish(p)
    /\ UNCHANGED <<account, session, challenge, aliases, cursor, selected, missed, excused, events>>

\* Client.CreateAlias, generate then reserve, when it names an address: surely
\* reserved, or, after a lost, malformed or 5xx answer, only possibly.  An
\* answer for an address that was listed before creates nothing.
Reserve(a, sure, before) ==
    \/ AppleReserves(a)
    \/ /\ \/ ~sure /\ directory[a].status = "free"
          \/ a \in Listed(before)
       /\ UNCHANGED <<directory, reserved>>

\* A refusal leaves nothing behind and names no address; its session is saved,
\* or deleted when expired, or left alone when the caller was cancelled.
CreateAlias(p) ==
    /\ At(p, "reserve")
    /\ \/ /\ Finish(p)
          /\ session' = None \/ saveSession(ops[p].login) \/ UNCHANGED session
          /\ UNCHANGED <<directory, reserved>>
       \/ \E a \in Addresses, sure \in BOOLEAN :
             /\ Reserve(a, sure, ops[p].view.dir)
             /\ Continue(p, [ops[p] EXCEPT !.pc = "stage", !.address = a, !.sure = sure])
             /\ UNCHANGED <<session, operationLock, accountLock>>
    /\ UNCHANGED <<account, challenge, aliases, cursor, selected, missed, excused, events>>

\* The candidate row, its queued key and the session in one transaction.
createAutoAliasCandidate(a) ==
    /\ aliases[a] = None /\ account.on /\ account.type = "icloud"
    /\ aliases' = [aliases EXCEPT ![a] = Row(FALSE, "pending")]

\* Before anything else the address is stored as a disabled candidate.  When
\* that fails the caller is told that a remote side effect is possible.
StageCandidate(p) ==
    LET a == ops[p].address IN
    /\ At(p, "stage")
    /\ IF aliases[a] = None
         THEN \/ /\ createAutoAliasCandidate(a)
                 /\ \/ saveSession(ops[p].login) /\ Finish(p)   \* contradictory or cancelled
                    \/ ~ops[p].sure /\ expireAutoSession(p)
                    \/ /\ saveSession(ops[p].login)
                       /\ Continue(p, [ops[p] EXCEPT !.pc = "confirm"])
                       /\ UNCHANGED <<operationLock, accountLock>>
                 /\ UNCHANGED <<excused, events>>
              \/ /\ Event
                 /\ excused' = excused \cup {a}
                 /\ Finish(p)
                 /\ UNCHANGED <<session, aliases>>
         ELSE /\ excused' = excused \cup {a}
              /\ Finish(p)
              /\ UNCHANGED <<session, aliases, events>>
    /\ UNCHANGED <<account, challenge, cursor, appleVars, missed, reserved>>

\* Was the address created by this operation, with a definite answer, and
\* unknown to the directory read before it?
Fresh(p) == ops[p].sure /\ ops[p].address \notin Listed(ops[p].view.dir)

\* Bounded directory reads until the candidate is listed.
ConfirmCandidate(p) ==
    LET a == ops[p].address IN
    /\ At(p, "confirm")
    /\ \/ expireAutoSession(p) /\ UNCHANGED <<aliases, cursor, events>>
       \/ /\ saveSession(ops[p].login)
          /\ IF a \in Listed(directory)
               THEN /\ confirmPendingAlias(a, [View EXCEPT !.sel = ops[p].view.sel], Fresh(p))
                    /\ Finish(p)
               ELSE /\ \/ Finish(p)
                       \/ /\ ops[p].reads < MaxConfirmations
                          /\ Continue(p, [ops[p] EXCEPT !.reads = @ + 1])
                          /\ UNCHANGED <<operationLock, accountLock>>
                    /\ UNCHANGED <<aliases, cursor, events>>
    /\ UNCHANGED <<account, challenge, appleVars, ghosts>>

-----------------------------------------------------------------------------
(* Everyone else.                                                           *)

\* The address and type of an account are locked while it has aliases; changing
\* either drops the Apple session.  Re-enabling it or changing its user or address
\* drops the cursor and the inactive marks.
UpdateAccount(new) ==
    LET moved == new.email # account.email \/ new.type # account.type
        reset == \/ new.email # account.email \/ new.user # account.user
                 \/ (new.on /\ ~account.on)
    IN /\ moved => \A a \in Addresses : aliases[a] = None
       /\ account' = new
       /\ session' = IF moved THEN None ELSE session
       /\ cursor' = (cursor /\ ~reset)
       /\ aliases' = [a \in Addresses |->
             IF reset /\ aliases[a] # None /\ aliases[a].mark = "inactive"
               THEN [aliases[a] EXCEPT !.mark = ""] ELSE aliases[a]]

\* An administrator edits the account.  One that becomes an iCloud account needs
\* its own address.
adminAPIUpdateAccount ==
    /\ accountLock = None
    /\ Event
    /\ \E new \in [email : 1..2, user : 1..2, type : {"icloud", "custom"}, on : BOOLEAN] :
          /\ new # account
          /\ account.type = "custom" /\ new.type = "icloud" => new.email # account.email
          /\ UpdateAccount(new)
    /\ UNCHANGED <<challenge, appleVars, operationLock, accountLock, ops, ghosts>>

\* A pending candidate cannot be enabled, nor one that Apple reports inactive.
updateAliasState(a) ==
    /\ aliases[a] # None
    /\ \/ /\ aliases[a].enabled
          /\ aliases' = [aliases EXCEPT ![a].enabled = FALSE]
          /\ UNCHANGED cursor
       \/ /\ ~aliases[a].enabled /\ aliases[a].mark = ""
          /\ HasCapacity(aliases)
          /\ aliases' = [aliases EXCEPT ![a] = Row(TRUE, "")]
          /\ cursor' = FALSE

\* An administrator switches an alias.
adminAPIUpdateAlias(a) ==
    /\ accountLock = None
    /\ updateAliasState(a)
    /\ UNCHANGED <<account, session, challenge, appleVars, operationLock, accountLock, ops,
                   ghosts, events>>

\* Client.DeactivateAlias and DeleteAlias.
mutateAlias(a, status) == directory' = [directory EXCEPT ![a].status = status]

\* One deletion holds both locks.  The address leaves Apple's directory first; one
\* the directory omits is deleted locally at once, one that forwards elsewhere not
\* at all.  It may end after the deactivation, or after the deletion at Apple with
\* the row still there.
DeleteAlias(a) ==
    /\ operationLock = None /\ accountLock = None
    /\ account.type = "icloud" /\ session # None
    /\ aliases[a] # None
    /\ \/ /\ a \notin Listed(directory)
          /\ aliases' = [aliases EXCEPT ![a] = None]
          /\ excused' = excused \cup {a}
          /\ saveSession(session.login)
          /\ UNCHANGED <<directory, events>>
       \/ /\ a \in filterAliases(View)
          /\ mutateAlias(a, "gone")
          /\ aliases' = [aliases EXCEPT ![a] = None]
          /\ saveSession(session.login)
          /\ UNCHANGED <<excused, events>>
       \/ /\ a \in filterAliases(View) /\ Event
          /\ \E status \in {"inactive", "gone"} : mutateAlias(a, status)
          /\ saveSession(session.login) \/ session' = None
          /\ UNCHANGED <<aliases, excused>>
    /\ UNCHANGED <<account, challenge, cursor, selected, operationLock, accountLock, ops,
                   missed, reserved>>

\* The addresses of a custom mailbox are made up here: entered by hand, generated
\* as a batch of which all or none are stored, deleted without asking Apple.
CustomMailbox == account.type = "custom" /\ accountLock = None

registerManualAlias(a) ==
    /\ CustomMailbox
    /\ CreateAliasRow(a)
    /\ UNCHANGED <<account, session, challenge, appleVars, operationLock, accountLock, ops,
                   ghosts, events>>

adminAPICreateRandomAliases(batch) ==
    /\ CustomMailbox /\ account.on
    /\ NewCandidates(batch) = batch
    /\ aliases' = [a \in Addresses |-> IF a \in batch THEN Row(TRUE, "") ELSE aliases[a]]
    /\ cursor' = FALSE
    /\ UNCHANGED <<account, session, challenge, appleVars, operationLock, accountLock, ops,
                   ghosts, events>>

adminAPIDeleteCustomAlias(a) ==
    /\ CustomMailbox /\ aliases[a] # None
    /\ aliases' = [aliases EXCEPT ![a] = None]
    /\ UNCHANGED <<account, session, challenge, cursor, appleVars, operationLock, accountLock,
                   ops, ghosts, events>>

\* One mailbox synchronisation: without a cursor the whole mailbox is scanned
\* again, for the enabled aliases; with one, only mail after it.
SyncMailbox ==
    LET passed == {a \in Addresses : account.type = "custom" \/ directory[a].status # "free"}
                  \ Enabled(aliases) IN
    /\ accountLock = None /\ account.on
    /\ cursor' = TRUE
    /\ missed' = IF cursor THEN missed \cup passed ELSE passed
    /\ UNCHANGED <<account, session, challenge, aliases, appleVars, operationLock, accountLock,
                   ops, reserved, excused, events>>

\* A reserved address becomes visible, a candidate outlives its grace period.
TimePasses ==
    /\ \/ \E a \in Addresses : /\ directory[a].status = "hidden"
                               /\ directory' = [directory EXCEPT ![a].status = "active"]
                               /\ UNCHANGED aliases
       \/ \E a \in Pending(aliases) : /\ ~aliases[a].late
                                      /\ aliases' = [aliases EXCEPT ![a].late = TRUE]
                                      /\ UNCHANGED directory
    /\ UNCHANGED <<account, session, challenge, cursor, selected, operationLock, accountLock,
                   ops, ghosts, events>>

\* The user deactivates or deletes an address on Apple's own site.
UserActsAtApple ==
    /\ Event
    /\ \E a \in Listed(directory), s \in {"inactive", "gone"} :
          directory' = [directory EXCEPT ![a].status = s]
    /\ UNCHANGED <<account, session, challenge, aliases, cursor, selected, operationLock,
                   accountLock, ops, ghosts>>

\* A crash ends the requests and forgets the challenge; a reserve that is not
\* stored yet is lost.
CrashHme ==
    /\ Event
    /\ ops' = [p \in Clients |-> Idle]
    /\ operationLock' = None /\ accountLock' = None
    /\ challenge' = None
    /\ excused' = excused \cup {ops[p].address : p \in {q \in Clients : At(q, "stage")}}
    /\ UNCHANGED <<account, session, aliases, cursor, appleVars, missed, reserved>>

Request(p) ==
    /\ requests < MaxRequests /\ requests' = requests + 1
    /\ \/ \E a \in Addresses : registerManualAlias(a)
       \/ \E batch \in SUBSET Addresses \ {{}} : adminAPICreateRandomAliases(batch)
       \/ StartAuth(p) \/ VerifyAuth(p) \/ ClearAuth(p)
       \/ SyncAliases(p) \/ CreateAutoAlias(p)
       \/ \E a \in Addresses : RegisterExistingAlias(p, a)
       \/ \E t \in {None, "own", "other"} : forwardingSettings(p, t)

Step(p) ==
    \/ \E answer \in SignInAnswers : SignInReturns(p, answer)
    \/ \E answer \in VerifyAnswers : VerifyReturns(p, answer)
    \/ expireSession(p) \/ forwardingError(p)
    \/ ListAliases(p) \/ AbortStale(p) \/ PublishDirectory(p) \/ PublishRegistration(p)
    \/ UpdateForwardTo(p) \/ ConfirmForwardTo(p)
    \/ CheckAccount(p) \/ Reconcile(p) \/ Preflight(p) \/ RepairForwarding(p)
    \/ CreateAlias(p) \/ StageCandidate(p) \/ ConfirmCandidate(p)

Others ==
    \/ \E a \in Addresses : adminAPIUpdateAlias(a) \/ DeleteAlias(a)
                           \/ adminAPIDeleteCustomAlias(a)
    \/ adminAPIUpdateAccount \/ SyncMailbox \/ ChallengeExpires
    \/ TimePasses \/ UserActsAtApple \/ CrashHme

NextHme ==
    \/ \E p \in Clients : Request(p)
    \/ (Others \/ \E p \in Clients : Step(p)) /\ UNCHANGED requests

HmeSpec == InitHme /\ [][NextHme]_hmeVars

-----------------------------------------------------------------------------
\* Every address a reserve of ours created and that still exists at Apple is a
\* row, about to become one, reported to the caller as possibly untracked, given
\* up on a directory that omits it, or lost in a crash: an ambiguous answer, an
\* expired session or a failed write never drops it silently (CreateAutoAlias).
EveryReserveTracked ==
    \A a \in reserved :
        \/ directory[a].status = "gone"
        \/ aliases[a] # None
        \/ a \in excused
        \/ \E p \in Clients : At(p, "stage") /\ ops[p].address = a

\* The stored Apple session belongs to the configured account: a login answered
\* after the account was edited, or a session refreshed by an operation that
\* started before, is not stored under the new identity (persistSession).
SessionOfIdentity ==
    session # None => account.type = "icloud" /\ session.login = account.email

\* While a cursor exists, the mailbox was scanned for every enabled alias since
\* it was enabled: only an address born in the very operation that publishes it
\* may keep the cursor (ConfirmFreshAutoAlias).
CursorCoversPublished ==
    cursor => Enabled(aliases) \cap missed = {}

\* Enabled rows and pending candidates never exceed an iCloud account's limit, so
\* a reserved candidate keeps its place whoever enables or imports others, and a
\* custom mailbox, which has no limit, never becomes an iCloud account beyond it.
CapacityKept ==
    account.type = "icloud" =>
        Cardinality(Enabled(aliases) \cup Pending(aliases)) <= MaxEnabled
=============================================================================
