----------------------------- MODULE Credentials -----------------------------
(***************************************************************************)
(* The credentials of one alias and of one administrator, and who holds    *)
(* them: administrator requests that rotate an alias' API key, its bundle  *)
(* or every alias' bundle, the startup initialiser, the one-time queue of  *)
(* keys an administrator has yet to fetch, public mail requests, an IMAP   *)
(* connection, and administrator logins racing changes of the password.    *)
(*                                                                         *)
(* Secrets are numbers drawn from one counter: two are equal exactly when  *)
(* they are the same secret, as hashes and ciphertexts are in the code.    *)
(***************************************************************************)
EXTENDS Naturals, FiniteSets

CONSTANTS
    Handlers,       \* concurrent requests
    Nobody,         \* no lock holder, no connection, no row
    MaxIssued,      \* bound on secrets
    MaxLogins,      \* bound on administrator sessions at a time
    MaxRotations    \* bound on global rotations

ASSUME CredentialsAssumption ==
    Nobody \notin Handlers /\ MaxIssued \in Nat /\ MaxLogins \in Nat /\ MaxRotations \in Nat

VARIABLES
    alias,          \* aliases row: id, mode, version, bundle, key (api_key_hash),
                    \* sealed (the API key inside credential_ciphertext), state
    pendingKey,     \* pending_alias_api_keys row of the alias, 0 if none
    historical,     \* is that row one an old release left behind?
    rowLock,        \* holder of the account row lock
    handlers,       \* what each request does and has read
    connection,     \* what a mail client holds: an access token or an IMAP session,
                    \* the alias id, version and bundle it was given for
    admin,          \* admins row: version, password
    logins,         \* admin_sessions rows: version, and the password proven
    issued,         \* secrets drawn so far
    rotations       \* how many global rotations have committed

credentialVars == <<alias, pendingKey, historical, rowLock, handlers, connection,
                    admin, logins, issued, rotations>>
aliasVars == <<alias, pendingKey, historical>>
adminVars == <<admin, logins>>

Free == [kind |-> "none", pc |-> "idle"]
Complete(row) == row.version # 0 /\ row.sealed # 0
Confirming(row) == row.state = "confirming"

\* credentialRotationMu: every guarded request reads, the global rotation writes.
Reading == {h \in Handlers : handlers[h].kind \in {"rotate", "key", "mail", "password"}}
Rotating == {h \in Handlers : handlers[h].kind = "all" /\ handlers[h].pc \in {"held", "locked"}}

\* Rows of every age: a legacy alias with or without a queued key that may have
\* been superseded by an old release, a v2 alias without or with its bundle, and an
\* automatic alias that awaits Apple's confirmation with its key queued.
InitCredentials ==
    /\ \E mode \in {"legacy", "v2"}, complete \in BOOLEAN, state \in {"enabled", "confirming"},
          pending \in {0, 1, 2} :
        /\ complete => mode = "v2" /\ pending # 2
        /\ state = "confirming" => mode = "v2" /\ complete /\ pending = 1
        /\ mode = "v2" => pending # 2
        /\ alias = [id |-> 1, mode |-> mode, key |-> 1, state |-> state,
                    version |-> IF complete THEN 1 ELSE 0,
                    sealed |-> IF complete THEN 1 ELSE 0,
                    bundle |-> IF complete THEN 3 ELSE 0]
        /\ pendingKey = pending
        /\ historical = (pending = 2)
    /\ rowLock = Nobody
    /\ handlers = [h \in Handlers |-> Free]
    /\ connection = Nobody
    /\ admin = [version |-> 1, password |-> 0]
    /\ logins = {}
    /\ issued = 3 /\ rotations = 0

Goto(h, state) == handlers' = [handlers EXCEPT ![h] = state]
Done(h) == Goto(h, Free)
LiveSession(s) == s \in logins /\ s.version = admin.version
Draw(n) == issued + n <= MaxIssued /\ issued' = issued + n

(***************************************************************************)
(* Alias transactions.  The account row is locked first; the alias and the *)
(* queued key are read under that lock.                                    *)
(***************************************************************************)
RotateRequest(h) ==
    /\ handlers[h] = Free /\ Rotating = {} /\ alias # Nobody
    /\ \E s \in logins, kind \in {"rotate", "key"} :
          LiveSession(s) /\ Goto(h, [kind |-> kind, pc |-> "begin", row |-> alias])
    /\ UNCHANGED <<alias, pendingKey, historical, rowLock, connection, admin, logins,
                   issued, rotations>>

EnsureAliasCredentials(h) ==
    /\ handlers[h] = Free /\ alias # Nobody
    /\ ~Complete(alias) /\ (alias.mode = "v2" \/ pendingKey # 0)
    /\ Goto(h, [kind |-> "ensure", pc |-> "begin", row |-> alias])
    /\ UNCHANGED <<alias, pendingKey, historical, rowLock, connection, admin, logins,
                   issued, rotations>>

lockAccountVersionForUpdate_ReadBefore(h) == handlers[h].row
lockAccountVersionForUpdate(h) == alias

Lock(h) ==
    /\ rowLock = Nobody /\ handlers[h].kind \in {"rotate", "key", "ensure"}
    /\ handlers[h].pc = "begin"
    /\ IF alias = Nobody
       THEN Done(h) /\ UNCHANGED rowLock                      \* ErrNotFound
       ELSE /\ rowLock' = h
            /\ Goto(h, [handlers[h] EXCEPT !.pc = "locked",
                                           !.row = lockAccountVersionForUpdate(h)])
    /\ UNCHANGED <<alias, pendingKey, historical, connection, admin, logins, issued, rotations>>

LockedBy(kinds) == \E h \in Handlers : rowLock = h /\ handlers[h].kind \in kinds
Release(h) == rowLock' = Nobody /\ Done(h)

\* A new bundle, a new API key and the version that names them.
installGeneratedAliasCredentialsTx(row, version) ==
    /\ Draw(2)
    /\ alias' = [row EXCEPT !.mode = "v2", !.version = version, !.bundle = issued + 1,
                            !.key = issued + 2, !.sealed = issued + 2]

DropPending_Never == UNCHANGED <<pendingKey, historical>>
DropPending == pendingKey' = 0 /\ historical' = FALSE
Keep == UNCHANGED aliasVars /\ UNCHANGED issued

RotateAliasCredentials(h) ==
    LET row == handlers[h].row IN
    /\ handlers[h].kind = "rotate" /\ rowLock = h
    /\ IF Confirming(row) \/ row.mode # "v2" THEN Keep
       ELSE /\ installGeneratedAliasCredentialsTx(row, row.version + 1)
            /\ DropPending
    /\ Release(h)
    /\ UNCHANGED <<connection, admin, logins, rotations>>

\* Only the API key; what authenticates IMAP and OAuth stays.
rotateAliasAPIKey(h) ==
    LET row == handlers[h].row IN
    /\ handlers[h].kind = "key" /\ rowLock = h
    /\ \/ /\ ~Confirming(row) /\ (row.mode = "v2" => Complete(row))
          /\ Draw(1)
          /\ alias' = [row EXCEPT !.key = issued + 1,
                                  !.sealed = IF row.mode = "v2" THEN issued + 1 ELSE @]
          /\ DropPending
       \/ /\ Confirming(row) \/ (row.mode = "v2" /\ ~Complete(row))
          /\ Keep
    /\ Release(h)
    /\ UNCHANGED <<connection, admin, logins, rotations>>

\* A queued key is kept as the alias' key if it is; a legacy alias' live key wins
\* over a stale one; a legacy alias without a queued key stays as it is.
ensureAliasCredentialsTx(h) ==
    LET row == handlers[h].row IN
    /\ handlers[h].kind = "ensure" /\ rowLock = h
    /\ CASE Complete(row) -> Keep
         [] ~Complete(row) /\ pendingKey # 0 /\ pendingKey = row.key ->
              /\ Draw(1)
              /\ alias' = [row EXCEPT !.mode = "v2", !.version = 1, !.bundle = issued + 1,
                                      !.sealed = pendingKey]
              /\ UNCHANGED <<pendingKey, historical>>
         [] ~Complete(row) /\ pendingKey # 0 /\ pendingKey # row.key ->
              /\ IF row.mode = "legacy" THEN DropPending ELSE UNCHANGED <<pendingKey, historical>>
              /\ UNCHANGED <<alias, issued>>
         [] ~Complete(row) /\ pendingKey = 0 /\ row.mode = "v2" ->
              /\ installGeneratedAliasCredentialsTx(row, 1)
              /\ UNCHANGED <<pendingKey, historical>>
         [] OTHER -> Keep
    /\ Release(h)
    /\ UNCHANGED <<connection, admin, logins, rotations>>

(***************************************************************************)
(* The global rotation: password checked, then the mutex, the session      *)
(* again, and one transaction that also revokes the administrator.         *)
(***************************************************************************)
RotateAllRequest(h) ==
    /\ handlers[h] = Free
    /\ \E s \in logins : LiveSession(s) /\ Goto(h, [kind |-> "all", pc |-> "checked", session |-> s])
    /\ UNCHANGED <<alias, pendingKey, historical, rowLock, connection, admin, logins,
                   issued, rotations>>

LockRotation == Rotating = {} /\ Reading = {}

HoldRotation(h) ==
    /\ handlers[h].kind = "all" /\ handlers[h].pc = "checked" /\ LockRotation
    /\ IF LiveSession(handlers[h].session)
       THEN Goto(h, [handlers[h] EXCEPT !.pc = "held"])
       ELSE Done(h)
    /\ UNCHANGED <<alias, pendingKey, historical, rowLock, connection, admin, logins,
                   issued, rotations>>

LockEveryAccount(h) ==
    /\ handlers[h].kind = "all" /\ handlers[h].pc = "held" /\ rowLock = Nobody
    /\ IF handlers[h].session.version = admin.version
       THEN rowLock' = h /\ Goto(h, [handlers[h] EXCEPT !.pc = "locked"])
       ELSE UNCHANGED rowLock /\ Done(h)                      \* ErrCredentialsChanged
    /\ UNCHANGED <<alias, pendingKey, historical, connection, admin, logins, issued, rotations>>

rotateAllAliasCredentials(h) ==
    /\ handlers[h].kind = "all" /\ rowLock = h /\ rotations < MaxRotations
    /\ IF alias = Nobody
       THEN UNCHANGED <<alias, issued, pendingKey, historical>>
       ELSE /\ ~(Confirming(alias) /\ pendingKey = 0)
            /\ installGeneratedAliasCredentialsTx(alias,
                   IF alias.mode = "legacy" THEN 1 ELSE alias.version + 1)
            /\ pendingKey' = IF pendingKey = 0 THEN 0 ELSE issued + 2
            /\ historical' = FALSE
    /\ admin' = [admin EXCEPT !.version = @ + 1]
    /\ logins' = {}
    /\ rotations' = rotations + 1
    /\ Release(h)
    /\ UNCHANGED connection

\* A confirming alias without its queued key, or a failed statement, rolls back.
RotationFails(h) ==
    /\ handlers[h].kind = "all" /\ rowLock = h
    /\ Release(h)
    /\ UNCHANGED <<alias, pendingKey, historical, connection, admin, logins, issued, rotations>>

(***************************************************************************)
(* The queue of one-time keys, and the alias' own life.                    *)
(***************************************************************************)
\* Waits for a transaction that has the queued rows locked.
DeletePendingAliasAPIKeys ==
    /\ alias # Nobody /\ ~Confirming(alias) /\ pendingKey # 0
    /\ ~LockedBy({"all", "ensure"})
    /\ Rotating = {} /\ \E s \in logins : LiveSession(s)
    /\ DropPending
    /\ UNCHANGED <<alias, rowLock, handlers, connection, admin, logins, issued, rotations>>

PublishConfirmed ==
    /\ rowLock = Nobody /\ alias # Nobody /\ Confirming(alias)
    /\ alias' = [alias EXCEPT !.state = "enabled"]
    /\ UNCHANGED <<pendingKey, historical, rowLock, handlers, connection, admin, logins,
                   issued, rotations>>

RemoveAlias ==
    /\ rowLock = Nobody /\ alias # Nobody
    /\ alias' = Nobody /\ DropPending
    /\ UNCHANGED <<rowLock, handlers, connection, admin, logins, issued, rotations>>

\* The same address again: a new row, whose versions begin at 1 again.  An automatic
\* alias starts as a candidate with its key queued.
RegisterAlias ==
    /\ alias = Nobody /\ Draw(2)
    /\ \E automatic \in BOOLEAN :
        /\ alias' = [id |-> issued + 1, mode |-> "v2", version |-> 1, bundle |-> issued + 1,
                     key |-> issued + 2, sealed |-> issued + 2,
                     state |-> IF automatic THEN "confirming" ELSE "enabled"]
        /\ pendingKey' = IF automatic THEN issued + 2 ELSE 0
    /\ historical' = FALSE
    /\ UNCHANGED <<rowLock, handlers, connection, admin, logins, rotations>>

(***************************************************************************)
(* Holders of a secret: mail requests and an IMAP connection.              *)
(***************************************************************************)
apiKeyAuth(h) ==
    /\ handlers[h] = Free /\ Rotating = {}
    /\ alias # Nobody /\ alias.state = "enabled"
    /\ Goto(h, [kind |-> "mail", pc |-> "authenticated", rotations |-> rotations])
    /\ UNCHANGED <<alias, pendingKey, historical, rowLock, connection, admin, logins,
                   issued, rotations>>

AnswerMail(h) ==
    /\ handlers[h].kind = "mail"
    /\ Done(h)
    /\ UNCHANGED <<alias, pendingKey, historical, rowLock, connection, admin, logins,
                   issued, rotations>>

\* An enabled alias with a bundle, found by client id, address or password.
mailboxBinding ==
    alias # Nobody /\ alias.mode = "v2" /\ alias.version > 0 /\ alias.state = "enabled"

Hold(by, bundle) ==
    connection' = [by |-> by, id |-> alias.id, version |-> alias.version, bundle |-> bundle]

\* The refresh token of the present bundle buys an access token.
issueIMAPAccessToken ==
    /\ connection = Nobody /\ mailboxBinding
    /\ Hold("token", alias.bundle)
    /\ UNCHANGED <<alias, pendingKey, historical, rowLock, handlers, admin, logins,
                   issued, rotations>>

\* The token's MAC binds the alias, its version and the refresh token of its bundle.
VerifyAliasAccessToken(token) ==
    token.id = alias.id /\ token.version = alias.version /\ token.bundle = alias.bundle

loginAccessToken ==
    /\ connection # Nobody /\ connection.by = "token" /\ mailboxBinding
    /\ VerifyAliasAccessToken(connection)
    /\ Hold("session", connection.bundle)
    /\ UNCHANGED <<alias, pendingKey, historical, rowLock, handlers, admin, logins,
                   issued, rotations>>

\* By the IMAP password, which is a part of the bundle.
Login ==
    /\ connection = Nobody /\ mailboxBinding
    /\ Hold("session", alias.bundle)
    /\ UNCHANGED <<alias, pendingKey, historical, rowLock, handlers, admin, logins,
                   issued, rotations>>

\* What every command of an authenticated connection checks first.
refreshBinding(c) ==
    /\ alias # Nobody /\ alias.id = c.id
    /\ alias.mode = "v2" /\ alias.state = "enabled"
    /\ alias.version = c.version

\* A command that fails the check is refused; the client hangs up at any time, and
\* an access token expires after an hour.
CloseConnection ==
    /\ connection # Nobody
    /\ connection' = Nobody
    /\ UNCHANGED <<alias, pendingKey, historical, rowLock, handlers, admin, logins,
                   issued, rotations>>

(***************************************************************************)
(* Administrators.  A login compares the password with the hash it read,   *)
(* which takes long, then inserts its session.                             *)
(***************************************************************************)
adminAPILogin(h) ==
    /\ handlers[h] = Free
    /\ Goto(h, [kind |-> "login", pc |-> "compared", seen |-> admin])
    /\ UNCHANGED <<alias, pendingKey, historical, rowLock, connection, admin, logins,
                   issued, rotations>>

CreateSession_AnyVersion(h) == logins' = logins \cup
    {[version |-> admin.version, password |-> handlers[h].seen.password]}
CreateSession(h) == logins' = IF handlers[h].seen.version # admin.version THEN logins
                              ELSE logins \cup {[version |-> handlers[h].seen.version,
                                                 password |-> handlers[h].seen.password]}

FinishLogin(h) ==
    /\ handlers[h].kind = "login" /\ Cardinality(logins) < MaxLogins
    /\ CreateSession(h)
    /\ Done(h)
    /\ UNCHANGED <<alias, pendingKey, historical, rowLock, connection, admin, issued, rotations>>

\* By a session, under the read guard, or by the reset command, without either.
adminAPIChangePassword(h) ==
    /\ handlers[h] = Free
    /\ \/ Rotating = {} /\ \E s \in logins : LiveSession(s)
          /\ Goto(h, [kind |-> "password", pc |-> "read", seen |-> admin])
       \/ Goto(h, [kind |-> "reset", pc |-> "read", seen |-> admin])
    /\ UNCHANGED <<alias, pendingKey, historical, rowLock, connection, admin, logins,
                   issued, rotations>>

ChangeAdminPasswordAndRevokeSessions(h) ==
    /\ handlers[h].kind \in {"password", "reset"}
    /\ ~LockedBy({"all"})                                     \* admins row FOR UPDATE
    /\ IF handlers[h].seen.version = admin.version
       THEN /\ Draw(1)
            /\ admin' = [version |-> admin.version + 1, password |-> issued + 1]
            /\ logins' = {}
       ELSE UNCHANGED <<issued, admin, logins>>               \* ErrCredentialsChanged
    /\ Done(h)
    /\ UNCHANGED <<alias, pendingKey, historical, rowLock, connection, rotations>>

DeleteSession ==
    /\ \E s \in logins : logins' = logins \ {s}               \* logout or expiry
    /\ UNCHANGED <<alias, pendingKey, historical, rowLock, handlers, connection, admin,
                   issued, rotations>>

NextCredentials ==
    \/ \E h \in Handlers :
        \/ RotateRequest(h) \/ EnsureAliasCredentials(h) \/ Lock(h)
        \/ RotateAliasCredentials(h) \/ rotateAliasAPIKey(h) \/ ensureAliasCredentialsTx(h)
        \/ RotateAllRequest(h) \/ HoldRotation(h) \/ LockEveryAccount(h)
        \/ rotateAllAliasCredentials(h) \/ RotationFails(h)
        \/ apiKeyAuth(h) \/ AnswerMail(h)
        \/ adminAPILogin(h) \/ FinishLogin(h)
        \/ adminAPIChangePassword(h) \/ ChangeAdminPasswordAndRevokeSessions(h)
    \/ DeletePendingAliasAPIKeys \/ PublishConfirmed \/ RemoveAlias \/ RegisterAlias
    \/ issueIMAPAccessToken \/ loginAccessToken \/ Login \/ CloseConnection \/ DeleteSession

CredentialsSpec == InitCredentials /\ [][NextCredentials]_credentialVars

(***************************************************************************)
(* Properties                                                              *)
(***************************************************************************)
\* What an administrator is shown is what works, whichever rotations, initialisers
\* and confirmations interleave: the key in the encrypted bundle and the key in the
\* one-time queue are the alias' live API key, a row left by an old release aside.
ShownKeyWorks ==
    alias # Nobody =>
        /\ Complete(alias) => alias.sealed = alias.key
        /\ pendingKey # 0 /\ ~historical => pendingKey = alias.key

\* A credential version names one bundle: a connection that still passes the check
\* of every command has proven the very bundle the alias has now, whatever rotations,
\* deletions and registrations of the address lie between.
VersionNamesBundle ==
    connection # Nobody /\ connection.by = "session" /\ refreshBinding(connection) =>
        connection.bundle = alias.bundle

\* A login that read the administrator before a change of the password never ends in
\* a session the changed administrator accepts.
SessionsProvePassword ==
    \A s \in logins : LiveSession(s) => s.password = admin.password

\* No public request is authenticated before a global rotation and answered after it.
NoRequestCrossesRotation ==
    \A h \in Handlers : handlers[h].kind = "mail" => handlers[h].rotations = rotations

\* A rotation is sharp: nothing that was authenticated before it is accepted after it.
RotationIsSharp == VersionNamesBundle /\ NoRequestCrossesRotation
=============================================================================
