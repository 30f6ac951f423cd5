--------------------------- MODULE StoredDataProofs ---------------------------
(***************************************************************************)
(* Proofs that what the service has stored stays usable: the keys and      *)
(* passwords shown to their owners (Credentials), the ciphertexts under    *)
(* the master key (Startup) and the contents of archived messages          *)
(* (ArchiveFiles).  The three are independent of one another.              *)
(***************************************************************************)
EXTENDS Credentials, Startup, ArchiveFiles, TLAPS

(***************************************************************************)
(* Proofs that credentials agree wherever they are kept, for every number  *)
(* of concurrent requests and without the bounds mattering.                *)
(*                                                                         *)
(* The argument has four independent parts.  A transaction that holds the  *)
(* account row works on the alias as it is (LockedRow).  A global rotation *)
(* and the guarded requests exclude each other (GuardHolds).  A request    *)
(* that compared a password never knows a newer administrator than the     *)
(* stored one (LoginsCurrent).  Of one alias row, a later bundle has a     *)
(* greater version, and ids are never reused (ConnectionBound).            *)
(***************************************************************************)

AliasType == [id : Nat, mode : {"legacy", "v2"}, version : Nat, bundle : Nat, key : Nat,
              sealed : Nat, state : {"enabled", "confirming"}]
AdminType == [version : Nat, password : Nat]

HandlerType ==
    {Free}
    \cup [kind : {"rotate", "key", "ensure"}, pc : {"begin", "locked"}, row : AliasType]
    \cup [kind : {"all"}, pc : {"checked", "held", "locked"}, session : AdminType]
    \cup [kind : {"mail"}, pc : {"authenticated"}, rotations : Nat]
    \cup [kind : {"login", "password", "reset"}, pc : {"compared", "read"}, seen : AdminType]

CredentialsType ==
    /\ alias # Nobody => alias \in AliasType
    /\ pendingKey \in Nat /\ historical \in BOOLEAN
    /\ rowLock \in Handlers \cup {Nobody}
    /\ handlers \in [Handlers -> HandlerType]
    /\ connection # Nobody =>
          connection \in [by : {"token", "session"}, id : Nat, version : Nat, bundle : Nat]
    /\ admin \in AdminType /\ logins \subseteq AdminType
    /\ issued \in Nat /\ rotations \in Nat

\* The holder of the account row is at its transaction, and the alias it read under
\* the lock is still the row.
LockedRow ==
    \A h \in Handlers : rowLock = h =>
        /\ handlers[h].pc = "locked"
        /\ handlers[h].kind \in {"rotate", "key", "ensure"} =>
              alias # Nobody /\ handlers[h].row = alias

\* The write guard of credentialRotationMu.
GuardHolds ==
    /\ \A g, h \in Handlers : g \in Rotating /\ h \in Rotating => g = h
    /\ Rotating # {} => Reading = {}
    /\ NoRequestCrossesRotation

\* Every change of the administrator ends the sessions, and outdates what a login
\* that is still comparing has read.
LoginsCurrent ==
    /\ \A s \in logins : s = admin
    /\ \A h \in Handlers : handlers[h].kind = "login" =>
          /\ handlers[h].seen.version <= admin.version
          /\ handlers[h].seen.version = admin.version => handlers[h].seen = admin

\* An alias has all of its bundle or none, and the keys agree.
KeysAgree ==
    /\ alias # Nobody =>
          /\ alias.version = 0 <=> alias.sealed = 0
          /\ alias.mode = "legacy" => alias.version = 0
    /\ ShownKeyWorks

\* A version that a client was given of this row is not newer than the row's, and
\* an equal one came with the row's bundle.
ConnectionBound ==
    /\ alias # Nobody => alias.id <= issued
    /\ connection # Nobody =>
          /\ connection.id <= issued /\ connection.version > 0
          /\ alias # Nobody /\ alias.id = connection.id =>
                /\ connection.version <= alias.version
                /\ connection.version = alias.version => connection.bundle = alias.bundle

CredentialsInv ==
    CredentialsType /\ LockedRow /\ GuardHolds /\ LoginsCurrent /\ KeysAgree /\ ConnectionBound

-----------------------------------------------------------------------------
LEMMA CredentialsInitially == InitCredentials => CredentialsInv
<1> SUFFICES ASSUME InitCredentials PROVE CredentialsInv
  OBVIOUS
<1>1. PICK mode \in {"legacy", "v2"}, complete \in BOOLEAN,
           state \in {"enabled", "confirming"}, pending \in {0, 1, 2} :
        /\ complete => mode = "v2" /\ pending # 2
        /\ alias = [id |-> 1, mode |-> mode, key |-> 1, state |-> state,
                    version |-> IF complete THEN 1 ELSE 0,
                    sealed |-> IF complete THEN 1 ELSE 0,
                    bundle |-> IF complete THEN 3 ELSE 0]
        /\ pendingKey = pending /\ historical = (pending = 2)
  BY DEF InitCredentials
<1>2. historical \in BOOLEAN
  BY <1>1, Zenon
<1>3. /\ rowLock = Nobody /\ handlers = [h \in Handlers |-> Free] /\ connection = Nobody
      /\ admin = [version |-> 1, password |-> 0] /\ logins = {}
      /\ issued = 3 /\ rotations = 0
  BY DEF InitCredentials
<1>4. CredentialsType
  BY <1>1, <1>2, <1>3 DEF CredentialsType, AliasType, AdminType, HandlerType
<1>5. LockedRow
  BY <1>3, CredentialsAssumption DEF LockedRow
<1>6. GuardHolds
  BY <1>3 DEF GuardHolds, Rotating, Reading, NoRequestCrossesRotation, Free
<1>7. LoginsCurrent
  BY <1>3 DEF LoginsCurrent, Free
<1>8. KeysAgree
  BY <1>1 DEF KeysAgree, ShownKeyWorks, Complete
<1>9. ConnectionBound
  BY <1>1, <1>3 DEF ConnectionBound
<1> QED
  BY <1>4, <1>5, <1>6, <1>7, <1>8, <1>9 DEF CredentialsInv

\* Rewriting columns of an alias leaves an alias.
LEMMA EditedAlias ==
    ASSUME NEW r \in AliasType, NEW m \in {"legacy", "v2"}, NEW v \in Nat, NEW b \in Nat,
           NEW k \in Nat, NEW s \in Nat
    PROVE  /\ [r EXCEPT !.mode = m, !.version = v, !.bundle = b, !.key = k, !.sealed = s]
                 \in AliasType
           /\ [r EXCEPT !.mode = m, !.version = v, !.bundle = b, !.sealed = s] \in AliasType
  BY DEF AliasType

LEMMA RekeyedAlias ==
    ASSUME NEW r \in AliasType, NEW k \in Nat, NEW s \in Nat
    PROVE  [r EXCEPT !.key = k, !.sealed = s] \in AliasType
  BY DEF AliasType

\* A transaction that ends gives the account row back; what it did to the alias and
\* to the queued key is looked at apart from it.
LEMMA TransactionEnds ==
    ASSUME CredentialsInv, NEW h \in Handlers, rowLock = h, Release(h),
           UNCHANGED <<admin, logins, rotations>>
    PROVE  /\ handlers' \in [Handlers -> HandlerType] /\ rowLock' \in Handlers \cup {Nobody}
           /\ LockedRow' /\ GuardHolds' /\ LoginsCurrent'
<1> USE CredentialsAssumption DEF CredentialsInv, Release, Done, Goto
<1>1. handlers' \in [Handlers -> HandlerType] /\ rowLock' \in Handlers \cup {Nobody}
  BY DEF CredentialsType, HandlerType
<1>2. LockedRow'
  BY DEF LockedRow
<1>3. GuardHolds'
  BY DEF GuardHolds, CredentialsType, Rotating, Reading, NoRequestCrossesRotation, Free
<1>4. LoginsCurrent'
  BY DEF LoginsCurrent, CredentialsType, Free
<1> QED
  BY <1>1, <1>2, <1>3, <1>4

\* A new bundle under a greater version keeps the keys and the connections in order.
LEMMA NewBundleInOrder ==
    ASSUME CredentialsInv, alias # Nobody, NEW v \in Nat, v > alias.version,
           installGeneratedAliasCredentialsTx(alias, v),
           pendingKey' \in {0, issued + 2}, historical' = FALSE, UNCHANGED connection
    PROVE  /\ alias' \in AliasType /\ issued' \in Nat /\ pendingKey' \in Nat
           /\ KeysAgree' /\ ConnectionBound'
<1> USE DEF CredentialsInv, installGeneratedAliasCredentialsTx, Draw
<1>1. /\ alias \in AliasType /\ issued \in Nat
      /\ connection # Nobody => connection \in [by : {"token", "session"}, id : Nat,
                                                version : Nat, bundle : Nat]
  BY DEF CredentialsType
<1>2. alias' \in AliasType /\ issued' \in Nat /\ pendingKey' \in Nat
  <2>1. issued + 1 \in Nat /\ issued + 2 \in Nat
    BY <1>1
  <2>2. alias' \in AliasType
    BY <1>1, <2>1, EditedAlias
  <2> QED
    BY <1>1, <2>2
<1>3. /\ alias'.id = alias.id /\ alias'.mode = "v2" /\ alias'.version = v
      /\ alias'.key = issued + 2 /\ alias'.sealed = issued + 2
  BY <1>1 DEF AliasType
<1>4. alias.version \in Nat /\ alias.id \in Nat
  BY <1>1 DEF AliasType
<1>5. KeysAgree'
  BY <1>1, <1>3, <1>4 DEF KeysAgree, ShownKeyWorks, Complete
<1>6. ConnectionBound'
  BY <1>1, <1>3, <1>4 DEF ConnectionBound
<1> QED
  BY <1>2, <1>5, <1>6

LEMMA CredentialsPreserved ==
    CredentialsInv /\ [NextCredentials]_credentialVars => CredentialsInv'
<1> SUFFICES ASSUME CredentialsInv, [NextCredentials]_credentialVars PROVE CredentialsInv'
  OBVIOUS
<1> USE CredentialsAssumption
<1> USE DEF CredentialsInv
<1>1. ASSUME NEW h \in Handlers, RotateRequest(h) PROVE CredentialsInv'
  <2> USE <1>1 DEF RotateRequest, Goto
  <2>1. CredentialsType'
    BY DEF CredentialsType, AliasType, AdminType, HandlerType, Free
  <2>2. LockedRow'
    BY DEF LockedRow, CredentialsType, HandlerType, Free
  <2>3. GuardHolds'
    BY DEF GuardHolds, CredentialsType, Rotating, Reading, NoRequestCrossesRotation,
           HandlerType, Free
  <2>4. LoginsCurrent'
    BY DEF LoginsCurrent, CredentialsType, HandlerType, AdminType, Free
  <2>5. KeysAgree' /\ ConnectionBound'
    BY DEF KeysAgree, ShownKeyWorks, ConnectionBound
  <2> QED
    BY <2>1, <2>2, <2>3, <2>4, <2>5
<1>2. ASSUME NEW h \in Handlers, EnsureAliasCredentials(h) PROVE CredentialsInv'
  <2> USE <1>2 DEF EnsureAliasCredentials, Goto
  <2>1. CredentialsType'
    BY DEF CredentialsType, AliasType, AdminType, HandlerType, Free
  <2>2. LockedRow'
    BY DEF LockedRow, CredentialsType, HandlerType, Free
  <2>3. GuardHolds'
    BY DEF GuardHolds, CredentialsType, Rotating, Reading, NoRequestCrossesRotation,
           HandlerType, Free
  <2>4. LoginsCurrent'
    BY DEF LoginsCurrent, CredentialsType, HandlerType, AdminType, Free
  <2>5. KeysAgree' /\ ConnectionBound'
    BY DEF KeysAgree, ShownKeyWorks, ConnectionBound
  <2> QED
    BY <2>1, <2>2, <2>3, <2>4, <2>5
<1>3. ASSUME NEW h \in Handlers, Lock(h) PROVE CredentialsInv'
  <2>1. CASE alias = Nobody
    <3>1. handlers' = [handlers EXCEPT ![h] = Free] /\ UNCHANGED rowLock
          /\ rowLock = Nobody
          /\ UNCHANGED <<alias, pendingKey, historical, connection, admin, logins, issued, rotations>>
      BY <1>3, <2>1 DEF Lock, Done, Goto
    <3>2. CredentialsType'
      BY <3>1 DEF CredentialsType, HandlerType
    <3>3. LockedRow' /\ GuardHolds' /\ LoginsCurrent'
      BY <3>1 DEF LockedRow, GuardHolds, LoginsCurrent, CredentialsType, Rotating, Reading,
                  NoRequestCrossesRotation, Free
    <3>4. KeysAgree' /\ ConnectionBound'
      BY <3>1 DEF KeysAgree, ShownKeyWorks, ConnectionBound
    <3> QED
      BY <3>2, <3>3, <3>4
  <2>2. CASE alias # Nobody
    <3> DEFINE locked == [handlers[h] EXCEPT !.pc = "locked", !.row = alias]
    <3>1. /\ handlers' = [handlers EXCEPT ![h] = locked] /\ rowLock' = h
          /\ handlers[h].kind \in {"rotate", "key", "ensure"}
          /\ UNCHANGED <<alias, pendingKey, historical, connection, admin, logins, issued, rotations>>
      BY <1>3, <2>2 DEF Lock, Goto, lockAccountVersionForUpdate
    <3>2. /\ locked \in [kind : {"rotate", "key", "ensure"}, pc : {"begin", "locked"},
                         row : AliasType]
          /\ locked.kind = handlers[h].kind /\ locked.pc = "locked" /\ locked.row = alias
      <4>1. handlers[h] \in [kind : {"rotate", "key", "ensure"}, pc : {"begin", "locked"},
                             row : AliasType]
        BY <3>1 DEF CredentialsType, HandlerType, Free
      <4>2. alias \in AliasType
        BY <2>2 DEF CredentialsType
      <4> QED
        BY <4>1, <4>2
    <3> HIDE DEF locked
    <3>3. CredentialsType'
      BY <3>1, <3>2 DEF CredentialsType, HandlerType
    <3>4. LockedRow'
      BY <2>2, <3>1, <3>2 DEF LockedRow, CredentialsType
    <3>5. GuardHolds' /\ LoginsCurrent'
      BY <3>1, <3>2 DEF GuardHolds, LoginsCurrent, CredentialsType, Rotating, Reading,
                        NoRequestCrossesRotation
    <3>6. KeysAgree' /\ ConnectionBound'
      BY <3>1 DEF KeysAgree, ShownKeyWorks, ConnectionBound
    <3> QED
      BY <3>3, <3>4, <3>5, <3>6
  <2> QED
    BY <2>1, <2>2
<1>4. ASSUME NEW h \in Handlers, RotateAliasCredentials(h) PROVE CredentialsInv'
  <2>1. /\ alias # Nobody /\ alias \in AliasType /\ handlers[h].row = alias
        /\ rowLock = h /\ Release(h) /\ UNCHANGED <<connection, admin, logins, rotations>>
    BY <1>4 DEF RotateAliasCredentials, LockedRow, CredentialsType
  <2>2. /\ handlers' \in [Handlers -> HandlerType] /\ rowLock' \in Handlers \cup {Nobody}
        /\ LockedRow' /\ GuardHolds' /\ LoginsCurrent'
    BY <2>1, TransactionEnds
  <2> DEFINE Data == /\ alias' # Nobody => alias' \in AliasType
                     /\ pendingKey' \in Nat /\ historical' \in BOOLEAN /\ issued' \in Nat
                     /\ KeysAgree' /\ ConnectionBound'
  <2>3. ASSUME UNCHANGED <<alias, pendingKey, historical, issued>> PROVE Data
    BY <2>1, <2>3 DEF CredentialsType, KeysAgree, ShownKeyWorks, Complete, ConnectionBound
  <2>4. ASSUME installGeneratedAliasCredentialsTx(alias, alias.version + 1), DropPending
        PROVE  Data
    <3>1. alias.version \in Nat
      BY <2>1 DEF AliasType
    <3>2. historical' = FALSE /\ pendingKey' = 0
      BY <2>4 DEF DropPending
    <3>3. alias.version + 1 \in Nat /\ alias.version + 1 > alias.version
      BY <3>1
    <3> QED
      BY <2>1, <2>4, <3>2, <3>3, NewBundleInOrder
  <2>5. Data
    BY <1>4, <2>1, <2>3, <2>4 DEF RotateAliasCredentials, Keep, aliasVars
  <2> QED
    BY <2>1, <2>2, <2>5 DEF CredentialsType
<1>5. ASSUME NEW h \in Handlers, rotateAliasAPIKey(h) PROVE CredentialsInv'
  <2>1. /\ alias # Nobody /\ alias \in AliasType /\ handlers[h].row = alias
        /\ rowLock = h /\ Release(h) /\ UNCHANGED <<connection, admin, logins, rotations>>
    BY <1>5 DEF rotateAliasAPIKey, LockedRow, CredentialsType
  <2>2. /\ handlers' \in [Handlers -> HandlerType] /\ rowLock' \in Handlers \cup {Nobody}
        /\ LockedRow' /\ GuardHolds' /\ LoginsCurrent'
    BY <2>1, TransactionEnds
  <2> DEFINE Data == /\ alias' # Nobody => alias' \in AliasType
                     /\ pendingKey' \in Nat /\ historical' \in BOOLEAN /\ issued' \in Nat
                     /\ KeysAgree' /\ ConnectionBound'
  <2>3. ASSUME UNCHANGED <<alias, pendingKey, historical, issued>> PROVE Data
    BY <2>1, <2>3 DEF CredentialsType, KeysAgree, ShownKeyWorks, Complete, ConnectionBound
  <2>4. ASSUME Draw(1), DropPending,
               alias' = [alias EXCEPT !.key = issued + 1,
                                      !.sealed = IF alias.mode = "v2" THEN issued + 1 ELSE @],
               alias.mode = "v2" => Complete(alias)
        PROVE  Data
    <3>0. issued \in Nat /\ (connection # Nobody => connection \in
            [by : {"token", "session"}, id : Nat, version : Nat, bundle : Nat])
      BY DEF CredentialsType
    <3> DEFINE s == IF alias.mode = "v2" THEN issued + 1 ELSE alias.sealed
    <3>a. s \in Nat /\ issued + 1 \in Nat /\ alias' = [alias EXCEPT !.key = issued + 1, !.sealed = s]
      BY <2>1, <2>4, <3>0 DEF AliasType
    <3> HIDE DEF s
    <3>b. alias' \in AliasType
      BY <2>1, <3>a, RekeyedAlias
    <3>1. /\ alias'.id = alias.id /\ alias'.version = alias.version
          /\ alias'.bundle = alias.bundle /\ alias'.mode = alias.mode
          /\ alias'.key = issued + 1
          /\ alias'.sealed = IF alias.mode = "v2" THEN issued + 1 ELSE alias.sealed
          /\ alias.id \in Nat /\ alias.version \in Nat /\ alias.mode \in {"legacy", "v2"}
      BY <2>1, <3>a DEF AliasType, s
    <3>2. KeysAgree'
      BY <2>1, <2>4, <3>0, <3>1 DEF KeysAgree, ShownKeyWorks, Complete, DropPending
    <3>3. ConnectionBound'
      BY <2>1, <2>4, <3>0, <3>1 DEF ConnectionBound, Draw
    <3>4. pendingKey' \in Nat /\ issued' \in Nat
      BY <2>4, <3>0 DEF Draw, DropPending
    <3>5. historical' \in BOOLEAN
      BY <2>4, Zenon DEF DropPending
    <3> QED
      BY <3>b, <3>2, <3>3, <3>4, <3>5, Zenon
  <2>5. Data
    BY <1>5, <2>1, <2>3, <2>4 DEF rotateAliasAPIKey, Keep, aliasVars
  <2> QED
    BY <2>1, <2>2, <2>5 DEF CredentialsType
<1>6. ASSUME NEW h \in Handlers, ensureAliasCredentialsTx(h) PROVE CredentialsInv'
  <2>1. /\ alias # Nobody /\ alias \in AliasType /\ handlers[h].row = alias
        /\ rowLock = h /\ Release(h) /\ UNCHANGED <<connection, admin, logins, rotations>>
    BY <1>6 DEF ensureAliasCredentialsTx, LockedRow, CredentialsType
  <2>2. /\ handlers' \in [Handlers -> HandlerType] /\ rowLock' \in Handlers \cup {Nobody}
        /\ LockedRow' /\ GuardHolds' /\ LoginsCurrent'
    BY <2>1, TransactionEnds
  <2> DEFINE Data == /\ alias' # Nobody => alias' \in AliasType
                     /\ pendingKey' \in Nat /\ historical' \in BOOLEAN /\ issued' \in Nat
                     /\ KeysAgree' /\ ConnectionBound'
  <2>3. ASSUME UNCHANGED <<alias, pendingKey, historical, issued>> PROVE Data
    BY <2>1, <2>3 DEF CredentialsType, KeysAgree, ShownKeyWorks, Complete, ConnectionBound
  <2>4. ASSUME ~Complete(alias), pendingKey # 0, pendingKey = alias.key, Draw(1),
               alias' = [alias EXCEPT !.mode = "v2", !.version = 1, !.bundle = issued + 1,
                                      !.sealed = pendingKey],
               UNCHANGED <<pendingKey, historical>>
        PROVE  Data
    <3> USE <2>4 DEF Draw
    <3>0. /\ issued \in Nat /\ pendingKey \in Nat /\ historical \in BOOLEAN
          /\ connection # Nobody => connection \in
               [by : {"token", "session"}, id : Nat, version : Nat, bundle : Nat]
      BY DEF CredentialsType
    <3>a. alias' \in AliasType
      <4>1. issued + 1 \in Nat
        BY <3>0
      <4> QED
        BY <2>1, <3>0, <4>1, EditedAlias
    <3>1. /\ alias'.id = alias.id /\ alias'.version = 1
          /\ alias'.mode = "v2" /\ alias'.key = alias.key /\ alias'.sealed = pendingKey
          /\ alias.id \in Nat
      BY <2>1, <3>0 DEF AliasType
    <3>2. alias.version = 0
      BY <2>1 DEF KeysAgree, Complete
    <3>3. KeysAgree'
      BY <2>1, <3>0, <3>1 DEF KeysAgree, ShownKeyWorks, Complete
    <3>4. ConnectionBound'
      BY <2>1, <3>0, <3>1, <3>2 DEF ConnectionBound
    <3> QED
      BY <3>0, <3>a, <3>1, <3>3, <3>4
  <2>5. ASSUME UNCHANGED <<alias, issued>>, DropPending PROVE Data
    BY <2>1, <2>5 DEF DropPending, CredentialsType, KeysAgree, ShownKeyWorks, Complete,
                      ConnectionBound
  <2>6. ASSUME ~Complete(alias), pendingKey = 0, alias.mode = "v2",
               installGeneratedAliasCredentialsTx(alias, 1), UNCHANGED <<pendingKey, historical>>
        PROVE  Data
    <3>1. alias.version = 0 /\ issued \in Nat
      BY <2>1, <2>6 DEF KeysAgree, Complete, CredentialsType
    <3> DEFINE R == [alias EXCEPT !.mode = "v2", !.version = 1, !.bundle = issued + 1,
                                  !.key = issued + 2, !.sealed = issued + 2]
    <3>a. issued + 1 \in Nat /\ issued + 2 \in Nat
      BY <3>1
    <3>b. R \in AliasType
      BY <2>1, <3>a, EditedAlias
    <3>2. /\ alias' = R /\ R.id = alias.id /\ R.version = 1
          /\ R.mode = "v2" /\ R.key = issued + 2 /\ R.sealed = issued + 2
          /\ issued' = issued + 2 /\ alias.id \in Nat
      BY <2>1, <2>6, <3>1 DEF AliasType, installGeneratedAliasCredentialsTx, Draw
    <3> HIDE DEF R
    <3>3. KeysAgree'
      BY <2>6, <3>1, <3>2 DEF KeysAgree, ShownKeyWorks, Complete
    <3>4. ConnectionBound'
      BY <2>1, <3>1, <3>2 DEF ConnectionBound, CredentialsType
    <3> QED
      BY <2>6, <3>1, <3>b, <3>2, <3>3, <3>4 DEF CredentialsType
  <2>7. Data
    <3>1. CASE Complete(alias)
      BY <1>6, <2>1, <2>3, <3>1 DEF ensureAliasCredentialsTx, Keep, aliasVars
    <3>2. CASE ~Complete(alias) /\ pendingKey # 0 /\ pendingKey = alias.key
      BY <1>6, <2>1, <2>4, <3>2 DEF ensureAliasCredentialsTx
    <3>3. CASE ~Complete(alias) /\ pendingKey # 0 /\ pendingKey # alias.key
      BY <1>6, <2>1, <2>3, <2>5, <3>3 DEF ensureAliasCredentialsTx
    <3>4. CASE ~Complete(alias) /\ pendingKey = 0 /\ alias.mode = "v2"
      BY <1>6, <2>1, <2>6, <3>4 DEF ensureAliasCredentialsTx
    <3>5. CASE ~Complete(alias) /\ pendingKey = 0 /\ alias.mode # "v2"
      BY <1>6, <2>1, <2>3, <3>5 DEF ensureAliasCredentialsTx, Keep, aliasVars
    <3> QED
      BY <3>1, <3>2, <3>3, <3>4, <3>5
  <2> QED
    BY <2>1, <2>2, <2>7 DEF CredentialsType
<1>7. ASSUME NEW h \in Handlers, RotateAllRequest(h) PROVE CredentialsInv'
  <2> USE <1>7 DEF RotateAllRequest, Goto, LiveSession
  <2>1. CredentialsType'
    BY DEF CredentialsType, AliasType, AdminType, HandlerType, Free
  <2>2. LockedRow'
    BY DEF LockedRow, CredentialsType, HandlerType, Free
  <2>3. GuardHolds'
    BY DEF GuardHolds, CredentialsType, Rotating, Reading, NoRequestCrossesRotation,
           HandlerType, Free
  <2>4. LoginsCurrent'
    BY DEF LoginsCurrent, CredentialsType, HandlerType, AdminType, Free
  <2>5. KeysAgree' /\ ConnectionBound'
    BY DEF KeysAgree, ShownKeyWorks, ConnectionBound
  <2> QED
    BY <2>1, <2>2, <2>3, <2>4, <2>5
<1>8. ASSUME NEW h \in Handlers, HoldRotation(h) PROVE CredentialsInv'
  <2> USE <1>8 DEF HoldRotation, Goto, Done, LockRotation
  <2>1. CredentialsType'
    BY DEF CredentialsType, AliasType, AdminType, HandlerType, Free
  <2>2. LockedRow'
    BY DEF LockedRow, CredentialsType, HandlerType, Free
  <2>3. GuardHolds'
    BY DEF GuardHolds, CredentialsType, Rotating, Reading, NoRequestCrossesRotation,
           HandlerType, Free
  <2>4. LoginsCurrent'
    BY DEF LoginsCurrent, CredentialsType, HandlerType, AdminType, Free
  <2>5. KeysAgree' /\ ConnectionBound'
    BY DEF KeysAgree, ShownKeyWorks, ConnectionBound
  <2> QED
    BY <2>1, <2>2, <2>3, <2>4, <2>5
<1>9. ASSUME NEW h \in Handlers, LockEveryAccount(h) PROVE CredentialsInv'
  <2> USE <1>9 DEF LockEveryAccount, Goto, Done
  <2>1. CredentialsType'
    BY DEF CredentialsType, AliasType, AdminType, HandlerType, Free
  <2>2. LockedRow'
    BY DEF LockedRow, CredentialsType, HandlerType, Free
  <2>3. GuardHolds'
    BY DEF GuardHolds, CredentialsType, Rotating, Reading, NoRequestCrossesRotation,
           HandlerType, Free
  <2>4. LoginsCurrent'
    BY DEF LoginsCurrent, CredentialsType, HandlerType, AdminType, Free
  <2>5. KeysAgree' /\ ConnectionBound'
    BY DEF KeysAgree, ShownKeyWorks, ConnectionBound
  <2> QED
    BY <2>1, <2>2, <2>3, <2>4, <2>5
<1>10. ASSUME NEW h \in Handlers, rotateAllAliasCredentials(h) PROVE CredentialsInv'
  <2>1. /\ rowLock = h /\ Release(h) /\ UNCHANGED connection
        /\ admin' = [admin EXCEPT !.version = @ + 1] /\ logins' = {}
        /\ rotations' = rotations + 1
        /\ handlers[h].kind = "all" /\ handlers[h].pc = "locked"
        /\ handlers' = [handlers EXCEPT ![h] = Free] /\ rowLock' = Nobody
    BY <1>10 DEF rotateAllAliasCredentials, LockedRow, Release, Done, Goto
  <2>2. h \in Rotating /\ Reading = {}
    BY <2>1 DEF GuardHolds, Rotating
  <2>3. /\ handlers' \in [Handlers -> HandlerType] /\ rowLock' \in Handlers \cup {Nobody}
        /\ admin' \in AdminType /\ rotations' \in Nat /\ admin'.version = admin.version + 1
        /\ admin.version \in Nat
    BY <2>1 DEF CredentialsType, HandlerType, AdminType
  <2>4. LockedRow'
    BY <2>1 DEF LockedRow
  <2>5. GuardHolds'
    BY <2>1, <2>2 DEF GuardHolds, Rotating, Reading, NoRequestCrossesRotation,
                      CredentialsType, Free
  <2>6. LoginsCurrent'
    <3>1. ASSUME NEW g \in Handlers, handlers'[g].kind = "login"
          PROVE  handlers'[g].seen.version < admin'.version
      <4>1. handlers'[g] = handlers[g]
        BY <2>1, <3>1 DEF CredentialsType, Free
      <4>2. handlers[g].seen.version \in Nat /\ handlers[g].seen.version <= admin.version
        BY <3>1, <4>1 DEF LoginsCurrent, CredentialsType, HandlerType, AdminType, Free
      <4> QED
        BY <2>3, <4>1, <4>2
    <3>2. ASSUME NEW g \in Handlers, handlers'[g].kind = "login"
          PROVE  handlers'[g].seen.version \in Nat
      BY <2>1, <3>2 DEF CredentialsType, HandlerType, AdminType, Free
    <3> QED
      BY <2>1, <2>3, <3>1, <3>2 DEF LoginsCurrent
  <2> DEFINE Data == /\ alias' # Nobody => alias' \in AliasType
                     /\ pendingKey' \in Nat /\ historical' \in BOOLEAN /\ issued' \in Nat
                     /\ KeysAgree' /\ ConnectionBound'
  <2>7. CASE alias = Nobody
    <3>1. UNCHANGED <<alias, issued, pendingKey, historical>>
      BY <1>10, <2>7 DEF rotateAllAliasCredentials
    <3>2. Data
      BY <2>1, <2>7, <3>1 DEF CredentialsType, KeysAgree, ShownKeyWorks, ConnectionBound
    <3> QED
      BY <2>1, <2>3, <2>4, <2>5, <2>6, <3>2 DEF CredentialsType
  <2>8. CASE alias # Nobody
    <3> DEFINE v == IF alias.mode = "legacy" THEN 1 ELSE alias.version + 1
    <3>1. installGeneratedAliasCredentialsTx(alias, v) /\ historical' = FALSE
          /\ pendingKey' \in {0, issued + 2}
      BY <1>10, <2>8 DEF rotateAllAliasCredentials
    <3>2. v \in Nat /\ v > alias.version
      BY <2>8 DEF CredentialsType, AliasType, KeysAgree
    <3> HIDE DEF v
    <3>3. Data
      BY <2>1, <2>8, <3>1, <3>2, NewBundleInOrder
    <3> QED
      BY <2>1, <2>3, <2>4, <2>5, <2>6, <3>3 DEF CredentialsType
  <2> QED
    BY <2>7, <2>8
<1>11. ASSUME NEW h \in Handlers, RotationFails(h) PROVE CredentialsInv'
  <2> USE <1>11 DEF RotationFails, Release, Done, Goto
  <2>1. CredentialsType'
    BY DEF CredentialsType, AliasType, AdminType, HandlerType, Free
  <2>2. LockedRow'
    BY DEF LockedRow, CredentialsType, HandlerType, Free
  <2>3. GuardHolds'
    BY DEF GuardHolds, CredentialsType, Rotating, Reading, NoRequestCrossesRotation,
           HandlerType, Free
  <2>4. LoginsCurrent'
    BY DEF LoginsCurrent, CredentialsType, HandlerType, AdminType, Free
  <2>5. KeysAgree' /\ ConnectionBound'
    BY DEF KeysAgree, ShownKeyWorks, ConnectionBound
  <2> QED
    BY <2>1, <2>2, <2>3, <2>4, <2>5
<1>12. ASSUME NEW h \in Handlers, apiKeyAuth(h) PROVE CredentialsInv'
  <2> USE <1>12 DEF apiKeyAuth, Goto
  <2>1. CredentialsType'
    BY DEF CredentialsType, AliasType, AdminType, HandlerType, Free
  <2>2. LockedRow'
    BY DEF LockedRow, CredentialsType, HandlerType, Free
  <2>3. GuardHolds'
    BY DEF GuardHolds, CredentialsType, Rotating, Reading, NoRequestCrossesRotation,
           HandlerType, Free
  <2>4. LoginsCurrent'
    BY DEF LoginsCurrent, CredentialsType, HandlerType, AdminType, Free
  <2>5. KeysAgree' /\ ConnectionBound'
    BY DEF KeysAgree, ShownKeyWorks, ConnectionBound
  <2> QED
    BY <2>1, <2>2, <2>3, <2>4, <2>5
<1>13. ASSUME NEW h \in Handlers, AnswerMail(h) PROVE CredentialsInv'
  <2> USE <1>13 DEF AnswerMail, Done, Goto
  <2>1. CredentialsType'
    BY DEF CredentialsType, AliasType, AdminType, HandlerType, Free
  <2>2. LockedRow'
    BY DEF LockedRow, CredentialsType, HandlerType, Free
  <2>3. GuardHolds'
    BY DEF GuardHolds, CredentialsType, Rotating, Reading, NoRequestCrossesRotation,
           HandlerType, Free
  <2>4. LoginsCurrent'
    BY DEF LoginsCurrent, CredentialsType, HandlerType, AdminType, Free
  <2>5. KeysAgree' /\ ConnectionBound'
    BY DEF KeysAgree, ShownKeyWorks, ConnectionBound
  <2> QED
    BY <2>1, <2>2, <2>3, <2>4, <2>5
<1>14. ASSUME NEW h \in Handlers, adminAPILogin(h) PROVE CredentialsInv'
  <2> USE <1>14 DEF adminAPILogin, Goto
  <2>1. CredentialsType'
    BY DEF CredentialsType, AliasType, AdminType, HandlerType, Free
  <2>2. LockedRow'
    BY DEF LockedRow, CredentialsType, HandlerType, Free
  <2>3. GuardHolds'
    BY DEF GuardHolds, CredentialsType, Rotating, Reading, NoRequestCrossesRotation,
           HandlerType, Free
  <2>4. LoginsCurrent'
    BY DEF LoginsCurrent, CredentialsType, HandlerType, AdminType, Free
  <2>5. KeysAgree' /\ ConnectionBound'
    BY DEF KeysAgree, ShownKeyWorks, ConnectionBound
  <2> QED
    BY <2>1, <2>2, <2>3, <2>4, <2>5
<1>15. ASSUME NEW h \in Handlers, FinishLogin(h) PROVE CredentialsInv'
  <2> USE <1>15 DEF FinishLogin, Done, Goto, CreateSession
  <2>1. CredentialsType'
    BY DEF CredentialsType, AliasType, AdminType, HandlerType, Free
  <2>2. LockedRow'
    BY DEF LockedRow, CredentialsType, HandlerType, Free
  <2>3. GuardHolds'
    BY DEF GuardHolds, CredentialsType, Rotating, Reading, NoRequestCrossesRotation,
           HandlerType, Free
  <2>4. LoginsCurrent'
    BY DEF LoginsCurrent, CredentialsType, HandlerType, AdminType, Free
  <2>5. KeysAgree' /\ ConnectionBound'
    BY DEF KeysAgree, ShownKeyWorks, ConnectionBound
  <2> QED
    BY <2>1, <2>2, <2>3, <2>4, <2>5
<1>16. ASSUME NEW h \in Handlers, adminAPIChangePassword(h) PROVE CredentialsInv'
  <2> USE <1>16 DEF adminAPIChangePassword, Goto
  <2>1. CredentialsType'
    BY DEF CredentialsType, AliasType, AdminType, HandlerType, Free
  <2>2. LockedRow'
    BY DEF LockedRow, CredentialsType, HandlerType, Free
  <2>3. GuardHolds'
    BY DEF GuardHolds, CredentialsType, Rotating, Reading, NoRequestCrossesRotation,
           HandlerType, Free
  <2>4. LoginsCurrent'
    BY DEF LoginsCurrent, CredentialsType, HandlerType, AdminType, Free
  <2>5. KeysAgree' /\ ConnectionBound'
    BY DEF KeysAgree, ShownKeyWorks, ConnectionBound
  <2> QED
    BY <2>1, <2>2, <2>3, <2>4, <2>5
<1>17. ASSUME NEW h \in Handlers, ChangeAdminPasswordAndRevokeSessions(h) PROVE CredentialsInv'
  <2> USE <1>17 DEF ChangeAdminPasswordAndRevokeSessions, Done, Goto, Draw
  <2>1. CredentialsType'
    BY DEF CredentialsType, AliasType, AdminType, HandlerType, Free
  <2>2. LockedRow'
    BY DEF LockedRow, CredentialsType, HandlerType, Free
  <2>3. GuardHolds'
    BY DEF GuardHolds, CredentialsType, Rotating, Reading, NoRequestCrossesRotation,
           HandlerType, Free
  <2>4. LoginsCurrent'
    BY DEF LoginsCurrent, CredentialsType, HandlerType, AdminType, Free
  <2>5. ConnectionBound'
    BY DEF ConnectionBound, CredentialsType, AliasType
  <2>6. KeysAgree'
    BY DEF KeysAgree, ShownKeyWorks
  <2> QED
    BY <2>1, <2>2, <2>3, <2>4, <2>5, <2>6
<1>18. ASSUME DeletePendingAliasAPIKeys PROVE CredentialsInv'
  <2> USE <1>18 DEF DeletePendingAliasAPIKeys, DropPending
  <2>1. CredentialsType'
    BY DEF CredentialsType, AliasType, AdminType, HandlerType, Free
  <2>2. KeysAgree'
    BY DEF KeysAgree, CredentialsType, ShownKeyWorks, Complete, AliasType
  <2>3. LockedRow' /\ GuardHolds' /\ LoginsCurrent' /\ ConnectionBound'
    BY DEF LockedRow, GuardHolds, Rotating, Reading, NoRequestCrossesRotation,
           LoginsCurrent, ConnectionBound
  <2> QED
    BY <2>1, <2>2, <2>3
<1>19. ASSUME PublishConfirmed PROVE CredentialsInv'
  <2> USE <1>19 DEF PublishConfirmed
  <2>1. CredentialsType'
    BY DEF CredentialsType, AliasType, AdminType, HandlerType, Free
  <2>2. LockedRow'
    BY DEF LockedRow, CredentialsType, HandlerType, Free
  <2>3. KeysAgree'
    BY DEF KeysAgree, CredentialsType, ShownKeyWorks, Complete, AliasType
  <2>4. ConnectionBound'
    BY DEF ConnectionBound, CredentialsType, AliasType
  <2>5. GuardHolds' /\ LoginsCurrent'
    BY DEF GuardHolds, Rotating, Reading, NoRequestCrossesRotation, LoginsCurrent
  <2> QED
    BY <2>1, <2>2, <2>3, <2>4, <2>5
<1>20. ASSUME RemoveAlias PROVE CredentialsInv'
  <2> USE <1>20 DEF RemoveAlias, DropPending
  <2>1. CredentialsType'
    BY DEF CredentialsType, AliasType, AdminType, HandlerType, Free
  <2>2. LockedRow'
    BY DEF LockedRow, CredentialsType, HandlerType, Free
  <2>3. KeysAgree'
    BY DEF KeysAgree, CredentialsType, ShownKeyWorks, Complete, AliasType
  <2>4. ConnectionBound'
    BY DEF ConnectionBound, CredentialsType, AliasType
  <2>5. GuardHolds' /\ LoginsCurrent'
    BY DEF GuardHolds, Rotating, Reading, NoRequestCrossesRotation, LoginsCurrent
  <2> QED
    BY <2>1, <2>2, <2>3, <2>4, <2>5
<1>21. ASSUME RegisterAlias PROVE CredentialsInv'
  <2> USE <1>21 DEF RegisterAlias, Draw
  <2>1. CredentialsType'
    <3>1. PICK automatic \in BOOLEAN :
            /\ alias' = [id |-> issued + 1, mode |-> "v2", version |-> 1,
                         bundle |-> issued + 1, key |-> issued + 2, sealed |-> issued + 2,
                         state |-> IF automatic THEN "confirming" ELSE "enabled"]
            /\ pendingKey' = IF automatic THEN issued + 2 ELSE 0
      BY Zenon
    <3>2. alias' \in AliasType /\ pendingKey' \in Nat
      BY <3>1 DEF CredentialsType, AliasType
    <3>3. issued' \in Nat
      BY DEF CredentialsType
    <3>4. historical' \in BOOLEAN
      BY Zenon
    <3> QED
      BY <3>2, <3>3, <3>4, Zenon DEF CredentialsType
  <2>2. LockedRow'
    BY DEF LockedRow, CredentialsType, HandlerType, Free
  <2>3. KeysAgree'
    BY DEF KeysAgree, CredentialsType, ShownKeyWorks, Complete, AliasType
  <2>4. ConnectionBound'
    BY DEF ConnectionBound, CredentialsType, AliasType
  <2>5. GuardHolds' /\ LoginsCurrent'
    BY DEF GuardHolds, Rotating, Reading, NoRequestCrossesRotation, LoginsCurrent
  <2> QED
    BY <2>1, <2>2, <2>3, <2>4, <2>5
<1>22. ASSUME issueIMAPAccessToken PROVE CredentialsInv'
  <2> USE <1>22 DEF issueIMAPAccessToken, Hold, mailboxBinding
  <2>1. CredentialsType'
    BY DEF CredentialsType, AliasType, AdminType, HandlerType, Free
  <2>2. ConnectionBound'
    BY DEF ConnectionBound, CredentialsType, AliasType
  <2>3. LockedRow' /\ GuardHolds' /\ LoginsCurrent' /\ KeysAgree'
    BY DEF LockedRow, GuardHolds, Rotating, Reading, NoRequestCrossesRotation,
           LoginsCurrent, KeysAgree, ShownKeyWorks
  <2> QED
    BY <2>1, <2>2, <2>3
<1>23. ASSUME loginAccessToken PROVE CredentialsInv'
  <2> USE <1>23 DEF loginAccessToken, Hold, mailboxBinding, VerifyAliasAccessToken
  <2>1. CredentialsType'
    BY DEF CredentialsType, AliasType, AdminType, HandlerType, Free
  <2>2. ConnectionBound'
    BY DEF ConnectionBound, CredentialsType, AliasType
  <2>3. LockedRow' /\ GuardHolds' /\ LoginsCurrent' /\ KeysAgree'
    BY DEF LockedRow, GuardHolds, Rotating, Reading, NoRequestCrossesRotation,
           LoginsCurrent, KeysAgree, ShownKeyWorks
  <2> QED
    BY <2>1, <2>2, <2>3
<1>24. ASSUME Login PROVE CredentialsInv'
  <2> USE <1>24 DEF Login, Hold, mailboxBinding
  <2>1. CredentialsType'
    BY DEF CredentialsType, AliasType, AdminType, HandlerType, Free
  <2>2. ConnectionBound'
    BY DEF ConnectionBound, CredentialsType, AliasType
  <2>3. LockedRow' /\ GuardHolds' /\ LoginsCurrent' /\ KeysAgree'
    BY DEF LockedRow, GuardHolds, Rotating, Reading, NoRequestCrossesRotation,
           LoginsCurrent, KeysAgree, ShownKeyWorks
  <2> QED
    BY <2>1, <2>2, <2>3
<1>25. ASSUME CloseConnection PROVE CredentialsInv'
  <2> USE <1>25 DEF CloseConnection
  <2>1. CredentialsType'
    BY DEF CredentialsType, AliasType, AdminType, HandlerType, Free
  <2>2. ConnectionBound'
    BY DEF ConnectionBound, CredentialsType, AliasType
  <2>3. LockedRow' /\ GuardHolds' /\ LoginsCurrent' /\ KeysAgree'
    BY DEF LockedRow, GuardHolds, Rotating, Reading, NoRequestCrossesRotation,
           LoginsCurrent, KeysAgree, ShownKeyWorks
  <2> QED
    BY <2>1, <2>2, <2>3
<1>26. ASSUME DeleteSession PROVE CredentialsInv'
  <2> USE <1>26 DEF DeleteSession
  <2>1. CredentialsType'
    BY DEF CredentialsType, AliasType, AdminType, HandlerType, Free
  <2>2. LoginsCurrent'
    BY DEF LoginsCurrent, CredentialsType, HandlerType, AdminType, Free
  <2>3. LockedRow' /\ GuardHolds' /\ KeysAgree' /\ ConnectionBound'
    BY DEF LockedRow, GuardHolds, Rotating, Reading, NoRequestCrossesRotation,
           KeysAgree, ShownKeyWorks, ConnectionBound
  <2> QED
    BY <2>1, <2>2, <2>3
<1>27. CASE UNCHANGED credentialVars
  BY <1>27 DEF credentialVars, CredentialsType, LockedRow, GuardHolds, Rotating, Reading,
     NoRequestCrossesRotation, LoginsCurrent, KeysAgree, ShownKeyWorks, ConnectionBound
<1> QED
  BY <1>1, <1>2, <1>3, <1>4, <1>5, <1>6, <1>7, <1>8, <1>9, <1>10, <1>11, <1>12,
     <1>13, <1>14, <1>15, <1>16, <1>17, <1>18, <1>19, <1>20, <1>21, <1>22, <1>23,
     <1>24, <1>25, <1>26, <1>27
     DEF NextCredentials

LEMMA CredentialsInvariant == CredentialsSpec => []CredentialsInv
  BY CredentialsInitially, CredentialsPreserved, PTL DEF CredentialsSpec

\* The key in the encrypted bundle and the key in the one-time queue are the alias'
\* live API key after every transaction, whatever rotations, initialisers,
\* confirmations and removals interleave.
THEOREM ShownKeyWorksHolds == CredentialsSpec => []ShownKeyWorks
<1>1. CredentialsInv => ShownKeyWorks
  BY DEF CredentialsInv, KeysAgree
<1> QED
  BY <1>1, CredentialsInvariant, PTL

\* No login that compared a password before it was changed (CreateSession checks the
\* version it read) becomes a session that the changed administrator accepts.
THEOREM SessionsProvePasswordHolds == CredentialsSpec => []SessionsProvePassword
<1>1. CredentialsInv => SessionsProvePassword
  BY DEF CredentialsInv, LoginsCurrent, SessionsProvePassword
<1> QED
  BY <1>1, CredentialsInvariant, PTL

\* Nothing that was authenticated before a rotation is accepted after it: neither an
\* IMAP connection of an earlier bundle nor a public request in flight.
THEOREM RotationIsSharpHolds == CredentialsSpec => []RotationIsSharp
<1>1. CredentialsInv => RotationIsSharp
  BY DEF CredentialsInv, ConnectionBound, GuardHolds, RotationIsSharp,
         VersionNamesBundle,
         refreshBinding
<1> QED
  BY <1>1, CredentialsInvariant, PTL

(***************************************************************************)
(* Proof that the data of an installation stays readable, for every number *)
(* of processes that start on it and every schema version.                 *)
(*                                                                         *)
(* The argument: the advisory lock makes what a start has verified still   *)
(* true when it commits (VerifiedStart), a key that got past the key file  *)
(* is the file's or the operator's (KeyKnown), and the commit binds a key  *)
(* only after it opened every stored ciphertext with it.                   *)
(***************************************************************************)

Keys == Nat \cup {Unset}

StartType ==
    [pc : {"stopped", "publish", "open", "migrated", "opened", "running"}, key : Keys]
    \cup [pc : {"verified", "opened", "running"}, key : Keys, bound : BOOLEAN,
          copy : BOOLEAN, seen : Nat]

StartupType ==
    /\ keyFile \in Keys /\ environment \in {Unset, 0, 1}
    /\ fingerprint \in Keys /\ sealed \subseteq Keys
    /\ imported \in BOOLEAN
    /\ legacy \in [present : BOOLEAN, content : Nat]
    /\ starting \in [Processes -> StartType]
    /\ lifecycle \in Processes \cup {Unset}
    /\ keys \in Nat

\* What a process read of the fingerprint is still so while it holds the lock.
VerifiedStart(p) ==
    starting[p].pc = "verified" =>
        /\ starting[p] \in [pc : {"verified"}, key : Keys, bound : BOOLEAN,
                            copy : BOOLEAN, seen : Nat]
        /\ lifecycle = p
        /\ starting[p].bound <=> fingerprint # Unset
        /\ starting[p].bound => starting[p].key = fingerprint

\* A key that is used is in the key file or came from the operator.
KeyKnown(p) ==
    /\ starting[p].pc = "publish" => starting[p].key \in Nat
    /\ starting[p].pc \in {"open", "migrated", "verified"} =>
          starting[p].key \in {keyFile, 0, 1} \ {Unset}

\* Only a process that holds the bound key gets past the initialisation.
OpenedBound(p) ==
    starting[p].pc \in {"opened", "running"} =>
        fingerprint # Unset /\ starting[p].key = fingerprint

StartupInv ==
    /\ StartupType
    /\ \A p \in Processes : VerifiedStart(p) /\ KeyKnown(p) /\ OpenedBound(p)
    /\ DataStaysReadable

-----------------------------------------------------------------------------
LEMMA StartupInitially == InitStartup => StartupInv
<1> SUFFICES ASSUME InitStartup PROVE StartupInv
  OBVIOUS
<1> USE StartupAssumption DEF InitStartup, StartupInv, Keys
<1>1. StartupType
  <2>1. PICK old \in BOOLEAN, file \in BOOLEAN :
           /\ legacy = [present |-> file, content |-> 1]
           /\ sealed \subseteq {1}
           /\ keyFile \in {1, Unset}
    BY Zenon
  <2>2. starting \in [Processes -> StartType]
    BY DEF StartType, Stopped
  <2>3. legacy \in [present : BOOLEAN, content : Nat]
    BY <2>1
  <2>4. sealed \subseteq Keys /\ keyFile \in Keys
    BY <2>1
  <2>5. imported \in BOOLEAN /\ keys \in Nat /\ environment \in {Unset, 0, 1}
        /\ fingerprint \in Keys /\ lifecycle \in Processes \cup {Unset}
    OBVIOUS
  <2> QED
    BY <2>2, <2>3, <2>4, <2>5, Zenon DEF StartupType
<1>2. ASSUME NEW p \in Processes
      PROVE  VerifiedStart(p) /\ KeyKnown(p) /\ OpenedBound(p)
  BY DEF VerifiedStart, KeyKnown, OpenedBound, Stopped
<1>3. DataStaysReadable
  BY DEF DataStaysReadable
<1> QED
  BY <1>1, <1>2, <1>3

LEMMA StartupPreserved == StartupInv /\ [NextStartup]_startupVars => StartupInv'
<1> SUFFICES ASSUME StartupInv, [NextStartup]_startupVars PROVE StartupInv'
  OBVIOUS
<1> USE StartupAssumption
<1> USE DEF StartupInv, Keys
<1> DEFINE Good(p) == VerifiedStart(p) /\ KeyKnown(p) /\ OpenedBound(p)
<1>1. ASSUME NEW p \in Processes, LoadOrCreateMasterKey(p)
      PROVE  StartupInv'
  <2> USE <1>1 DEF LoadOrCreateMasterKey
  <2>1. StartupType'
    BY DEF StartupType, StartType
  <2>2. ASSUME NEW q \in Processes PROVE Good(q)'
    BY DEF StartupType, StartType, VerifiedStart, KeyKnown, OpenedBound
  <2>3. DataStaysReadable'
    BY DEF DataStaysReadable, StartupType, StartType
  <2> QED BY <2>1, <2>2, <2>3
<1>2. ASSUME NEW p \in Processes, Publish(p)
      PROVE  StartupInv'
  <2> USE <1>2 DEF Publish, publishMasterKey
  <2>1. StartupType'
    BY DEF StartupType, StartType, KeyKnown
  <2>2. ASSUME NEW q \in Processes PROVE Good(q)'
    BY DEF StartupType, StartType, VerifiedStart, KeyKnown, OpenedBound
  <2>3. DataStaysReadable'
    BY DEF DataStaysReadable, StartupType, StartType
  <2> QED BY <2>1, <2>2, <2>3
<1>3. ASSUME NEW p \in Processes, migratePostgres(p)
      PROVE  StartupInv'
  <2> USE <1>3 DEF migratePostgres, Move, Fails, Stopped
  <2>1. StartupType'
    BY DEF StartupType, StartType
  <2>2. ASSUME NEW q \in Processes PROVE Good(q)'
    BY DEF StartupType, StartType, VerifiedStart, KeyKnown, OpenedBound
  <2>3. DataStaysReadable'
    BY DEF DataStaysReadable, StartupType, StartType
  <2> QED BY <2>1, <2>2, <2>3
<1>4. ASSUME NEW p \in Processes, verifyStoredMasterKeyTx(p)
      PROVE  StartupInv'
  <2> USE <1>4 DEF verifyStoredMasterKeyTx, Fails, Stopped, Matches,
                   beginMasterKeyLifecycleTx, inspectLegacySQLiteSource
  <2> DEFINE bound == fingerprint # Unset
             copy == ~imported /\ legacy.present
             verified == [pc |-> "verified", key |-> starting[p].key, bound |-> bound,
                          copy |-> copy, seen |-> legacy.content]
  <2>a. bound \in BOOLEAN /\ copy \in BOOLEAN
    BY Zenon
  <2>b. starting' = [starting EXCEPT ![p] = Stopped]
        \/ starting' = [starting EXCEPT ![p] = verified]
    BY Zenon
  <2> HIDE DEF bound, copy
  <2>1. StartupType'
    BY <2>a, <2>b DEF StartupType, StartType, KeyKnown
  <2>2. ASSUME NEW q \in Processes PROVE Good(q)'
    <3>1. CASE starting' = [starting EXCEPT ![p] = verified] /\ lifecycle' = p
      <4>1. fingerprint' = fingerprint /\ keyFile' = keyFile /\ lifecycle = Unset
        OBVIOUS
      <4>2. CASE q = p
        <5>1. starting'[q] = verified
          BY <3>1, <4>2 DEF StartupType
        <5>2. bound => starting[p].key = fingerprint
          BY <3>1, <4>1, Zenon DEF bound
        <5> QED
          BY <2>a, <3>1, <4>1, <4>2, <5>1, <5>2
             DEF StartupType, StartType, VerifiedStart, KeyKnown, OpenedBound, bound
      <4>3. CASE q # p
        BY <3>1, <4>1, <4>3 DEF StartupType, VerifiedStart, KeyKnown, OpenedBound
      <4> QED
        BY <4>2, <4>3
    <3>2. CASE starting' = [starting EXCEPT ![p] = Stopped] /\ lifecycle' = lifecycle
      BY <3>2 DEF StartupType, StartType, VerifiedStart, KeyKnown, OpenedBound
    <3> QED
      BY <3>1, <3>2, Zenon DEF bound, copy
  <2>3. DataStaysReadable'
    BY DEF DataStaysReadable, StartupType, StartType
  <2> QED BY <2>1, <2>2, <2>3
<1>5. ASSUME NEW p \in Processes, CommitInitialization(p)
      PROVE  StartupInv'
  <2> USE <1>5 DEF CommitInitialization, Move, Fails, Stopped, bindMasterKeyFingerprintTx,
                   compareMasterKeyFingerprint, Matches,
                   importLegacySQLite, validateStoredCiphertexts, TargetIsEmpty,
                   validateLegacySQLiteCiphertext, verifyLegacySQLiteSourceUnchanged
  <2>1. StartupType'
    BY DEF StartupType, StartType, KeyKnown, VerifiedStart
  <2>2. ASSUME NEW q \in Processes PROVE Good(q)'
    BY DEF StartupType, StartType, VerifiedStart, KeyKnown, OpenedBound
  <2>3. DataStaysReadable'
    BY DEF DataStaysReadable, StartupType, StartType, VerifiedStart, KeyKnown, OpenedBound
  <2> QED BY <2>1, <2>2, <2>3
<1>6. ASSUME NEW p \in Processes, openInitializedStore(p)
      PROVE  StartupInv'
  <2> USE <1>6 DEF openInitializedStore, Move, Fails, Stopped
  <2>1. StartupType'
    BY DEF StartupType, StartType, OpenedBound
  <2>2. ASSUME NEW q \in Processes PROVE Good(q)'
    BY DEF StartupType, StartType, VerifiedStart, KeyKnown, OpenedBound
  <2>3. DataStaysReadable'
    BY DEF DataStaysReadable, StartupType, StartType, OpenedBound
  <2> QED BY <2>1, <2>2, <2>3
<1>7. ASSUME NEW p \in Processes, StoreSecret(p)
      PROVE  StartupInv'
  <2> USE <1>7 DEF StoreSecret
  <2>1. StartupType'
    BY DEF StartupType, StartType, OpenedBound
  <2>2. ASSUME NEW q \in Processes PROVE Good(q)'
    BY DEF StartupType, StartType, VerifiedStart, KeyKnown, OpenedBound
  <2>3. DataStaysReadable'
    BY DEF DataStaysReadable, StartupType, StartType, OpenedBound
  <2> QED BY <2>1, <2>2, <2>3
<1>8. ASSUME NEW p \in Processes, StopProcess(p)
      PROVE  StartupInv'
  <2> USE <1>8 DEF StopProcess, Fails, Stopped
  <2>1. StartupType'
    BY DEF StartupType, StartType
  <2>2. ASSUME NEW q \in Processes PROVE Good(q)'
    BY DEF StartupType, StartType, VerifiedStart, KeyKnown, OpenedBound
  <2>3. DataStaysReadable'
    BY DEF DataStaysReadable, StartupType, StartType
  <2> QED BY <2>1, <2>2, <2>3
<1>9. ASSUME LegacyWrites \/ ChangeEnvironment \/ UNCHANGED startupVars
      PROVE  StartupInv'
  <2> USE <1>9 DEF LegacyWrites, ChangeEnvironment, startupVars
  <2>1. StartupType'
    BY DEF StartupType
  <2>2. ASSUME NEW q \in Processes PROVE Good(q)'
    BY DEF VerifiedStart, KeyKnown, OpenedBound
  <2>3. DataStaysReadable'
    BY DEF DataStaysReadable
  <2> QED BY <2>1, <2>2, <2>3
<1> QED
  BY <1>1, <1>2, <1>3, <1>4, <1>5, <1>6, <1>7, <1>8, <1>9 DEF NextStartup

\* Once a key is bound (bindMasterKeyFingerprintTx), every stored secret is sealed
\* with it, every process that got past the initialisation holds it, and it is the
\* content of the key file or one the operator has: for every set of processes,
\* crashes at any step included.
THEOREM DataStaysReadableHolds == StartupSpec => []DataStaysReadable
<1>1. StartupInv => DataStaysReadable
  BY DEF StartupInv
<1> QED
  BY <1>1, StartupInitially, StartupPreserved, PTL DEF StartupSpec

(***************************************************************************)
(* Proof that archived contents are kept, for every number of messages,    *)
(* sources and faults.                                                     *)
(*                                                                         *)
(* ContentKept speaks of the moments at which nobody changes the archive.  *)
(* In between, the content of a row may be in the directory set aside, and *)
(* what a crash leaves there must be told from what a commit has made      *)
(* obsolete: the directory set aside holds the rows' contents until the    *)
(* rows are gone (RowsInv), and nothing is published while it exists       *)
(* (AsideInv), so that the test of the next start is exact.                *)
(***************************************************************************)

Syncing == [pc : {"stage", "cleanup"}, src : 1..MaxSources, todo : SUBSET Uids,
            batch : SUBSET Uids, staged : SUBSET Uids, created : SUBSET Uids]
Resetting == [pc : {"reset", "commit", "restore", "discard"}, to : 0..MaxSources,
              moved : BOOLEAN]
Evicting == [pc : {"remove", "mark"}, m : Uids, src : 0..MaxSources]
ReadingRow == [pc : {"open", "missing"}, m : Uids, src : 0..MaxSources]

ArchiveType ==
    /\ source \in 0..MaxSources
    /\ records \in [Uids -> {NoFile} \cup ArchivedRows]
    /\ live \in {NoFile} \cup Directories /\ aside \in {NoFile} \cup Directories
    /\ writer \in {Resting} \cup Syncing \cup Resetting
    /\ evictor \in {Resting} \cup Evicting
    /\ reader \in {Resting} \cup ReadingRow
    /\ process \in {"quarantines", "scan", "up", "down"}

\* A directory is set aside only within a reset, or by a crash in one, and nothing
\* is published beside it.
AsideInv ==
    aside # NoFile =>
        /\ live = NoFile
        /\ writer.pc \in {"commit", "restore", "discard"} \/ process \in {"down", "quarantines"}

\* What the holder of the archive mutex knows.
WriterInv ==
    /\ process # "up" => writer = Resting
    /\ writer.pc \in {"commit", "restore"} => (writer.moved <=> aside # NoFile)
    /\ writer.pc = "discard" => \A m \in Uids : records[m] = NoFile
    /\ writer.pc = "stage" =>
          \A m \in writer.staged : ContentAt(m) = writer.src \/ m \in unlinked

\* Where the content of a row is.
Kept(m) == IF aside = NoFile THEN ContentAt(m) ELSE aside[m]

RowsInv ==
    \A m \in Uids : records[m] # NoFile =>
        /\ records[m].src = source
        /\ records[m].state \in {"available", "missing"} => Kept(m) = source \/ m \in unlinked

ArchiveInv == ArchiveType /\ AsideInv /\ WriterInv /\ RowsInv

-----------------------------------------------------------------------------
\* The records of the processes are told apart by their pc.
LEMMA WriterKinds ==
    ASSUME ArchiveType
    PROVE  /\ writer.pc = "idle" <=> writer = Resting
           /\ writer.pc \in {"stage", "cleanup"} => writer \in Syncing
           /\ writer.pc \in {"reset", "commit", "restore", "discard"} => writer \in Resetting
  BY DEF ArchiveType, Resting, Syncing, Resetting

\* A step of the evictor or the reader, which touches no row's source and marks at
\* most the content of one row.
LEMMA MarkingKeeps ==
    ASSUME ArchiveInv, NEW m \in Uids, NEW state \in {"evicted", "missing"},
           UNCHANGED records \/ (m \in Available /\ Mark(m, state)),
           UNCHANGED <<source, live, aside, writer, process, unlinked>>,
           evictor' \in {Resting} \cup Evicting, reader' \in {Resting} \cup ReadingRow
    PROVE  ArchiveInv'
<1>1. CASE UNCHANGED records
  BY <1>1 DEF ArchiveInv, ArchiveType, AsideInv, WriterInv, RowsInv, Kept, ContentAt
<1>2. CASE m \in Available /\ Mark(m, state)
  <2>1. records[m] \in ArchivedRows /\ records[m].state = "available" /\ records[m] # NoFile
    BY <1>2 DEF Available, ArchiveInv, ArchiveType
  <2>2. /\ [records[m] EXCEPT !.state = state] \in ArchivedRows
        /\ [records[m] EXCEPT !.state = state].src = records[m].src
        /\ [records[m] EXCEPT !.state = state].state = state
    BY <2>1 DEF ArchivedRows
  <2>3. /\ records' \in [Uids -> {NoFile} \cup ArchivedRows]
        /\ records'[m] = [records[m] EXCEPT !.state = state]
        /\ \A n \in Uids \ {m} : records'[n] = records[n]
    BY <1>2, <2>2 DEF Mark, ArchiveInv, ArchiveType
  <2>4. RowsInv'
    BY <2>1, <2>2, <2>3 DEF ArchiveInv, RowsInv, Kept, ContentAt
  <2>5. ArchiveType' /\ AsideInv'
    BY <2>3 DEF ArchiveInv, ArchiveType, AsideInv
  <2>6. writer.pc # "discard"
    BY <2>1 DEF ArchiveInv, WriterInv
  <2>7. WriterInv'
    BY <2>6 DEF ArchiveInv, WriterInv, ContentAt
  <2> QED
    BY <2>4, <2>5, <2>7 DEF ArchiveInv
<1> QED
  BY <1>1, <1>2

-----------------------------------------------------------------------------
\* An account without archived messages.
THEOREM ArchiveInitially == InitArchive => ArchiveInv
<1> SUFFICES ASSUME InitArchive PROVE ArchiveInv
  OBVIOUS
<1>1. ArchiveType
  BY ArchiveFilesAssumption DEF InitArchive, ArchiveType
<1> QED
  BY <1>1 DEF InitArchive, ArchiveInv, AsideInv, WriterInv, RowsInv, Resting

\* A sync publishes files and commits their rows; a file it may unlink again, or
\* that eviction has taken from it, counts as unlinked.
LEMMA SyncKeeps ==
    ASSUME ArchiveInv,
           ApplyMailboxSync \/ stageArchiveMessages \/ CommitSync \/ cleanupPublishedArchive
    PROVE  ArchiveInv'
<1>0. ArchiveType /\ AsideInv /\ WriterInv /\ RowsInv
  BY DEF ArchiveInv
<1>1. CASE ApplyMailboxSync
  <2>1. PICK src \in 1..source, todo \in SUBSET Uids, left \in SUBSET Uids :
           writer' = [pc |-> "stage", src |-> src, todo |-> left, batch |-> todo,
                      staged |-> {}, created |-> {}]
    BY <1>1 DEF ApplyMailboxSync
  <2>2. writer' \in Syncing /\ writer'.pc = "stage" /\ writer'.staged = {}
    <3>1. src \in 1..MaxSources
      BY <1>0, ArchiveFilesAssumption DEF ArchiveType
    <3> QED
      BY <2>1, <3>1 DEF Syncing
  <2>3. process = "up" /\ writer = Resting
           /\ UNCHANGED <<source, records, live, aside, evictor, reader, process, unlinked>>
    BY <1>1 DEF ApplyMailboxSync
  <2>4. aside = NoFile
    BY <1>0, <2>3 DEF AsideInv, Resting
  <2> QED
    BY <1>0, <2>2, <2>3, <2>4
       DEF ArchiveInv, ArchiveType, AsideInv, WriterInv, RowsInv, Kept, ContentAt
<1>2. CASE stageArchiveMessages
  <2>1. process = "up" /\ writer.pc = "stage" /\ writer \in Syncing
           /\ UNCHANGED <<source, records, aside, evictor, reader, process>>
    BY <1>0, <1>2, WriterKinds DEF stageArchiveMessages
  <2>2. aside = NoFile /\ writer.src \in 1..MaxSources /\ writer.src # NoFile
           /\ writer.staged \subseteq Uids
    BY <1>0, <2>1, ArchiveFilesAssumption DEF AsideInv, Syncing
  <2>3. ASSUME NEW m \in writer.todo, matchingArchiveFile(m, writer.src),
               writer' = [writer EXCEPT !.todo = @ \ {m}, !.staged = @ \cup {m}],
               UNCHANGED <<live, unlinked>>
        PROVE  ArchiveInv'
    <3>1. writer' \in Syncing /\ writer'.pc = "stage" /\ writer'.src = writer.src
             /\ writer'.staged = writer.staged \cup {m}
      BY <2>1, <2>3 DEF Syncing
    <3> QED
      BY <1>0, <2>1, <2>2, <2>3, <3>1
         DEF ArchiveInv, ArchiveType, AsideInv, WriterInv, RowsInv, Kept, ContentAt,
             matchingArchiveFile
  <2>4. ASSUME NEW m \in writer.todo, ContentAt(m) = NoFile,
               live' = [IF live = NoFile THEN EmptyDirectory ELSE live EXCEPT ![m] = writer.src],
               unlinked' = IF writer.src = source THEN unlinked \ {m} ELSE unlinked,
               writer' = [writer EXCEPT !.todo = @ \ {m}, !.staged = @ \cup {m},
                                        !.created = @ \cup {m}]
        PROVE  ArchiveInv'
    <3>1. writer' \in Syncing /\ writer'.pc = "stage" /\ writer'.src = writer.src
             /\ writer'.staged = writer.staged \cup {m} /\ m \in Uids
      BY <2>1, <2>4 DEF Syncing
    <3>2. live' \in Directories /\ live' # NoFile
      BY <1>0, <2>2, <2>4, <3>1, ArchiveFilesAssumption
         DEF ArchiveType, Directories, Contents, EmptyDirectory
    <3>3. ContentAt(m)' = writer.src /\ \A n \in Uids \ {m} : ContentAt(n)' = ContentAt(n)
      BY <1>0, <2>4, <3>1, <3>2 DEF ArchiveType, ContentAt, EmptyDirectory, Directories
    <3>4. RowsInv'
      BY <1>0, <2>1, <2>2, <2>4, <3>1, <3>3, ArchiveFilesAssumption
         DEF RowsInv, Kept, ArchiveType
    <3>5. WriterInv'
      BY <1>0, <2>1, <2>2, <2>4, <3>1, <3>3 DEF WriterInv
    <3> QED
      BY <1>0, <2>1, <2>2, <3>1, <3>2, <3>4, <3>5 DEF ArchiveInv, ArchiveType, AsideInv
  <2>5. ASSUME writer' = [writer EXCEPT !.pc = "cleanup"], UNCHANGED <<live, unlinked>>
        PROVE  ArchiveInv'
    <3>1. writer' \in Syncing /\ writer'.pc = "cleanup"
      BY <2>1, <2>5 DEF Syncing
    <3> QED
      BY <1>0, <2>1, <2>2, <2>5, <3>1
         DEF ArchiveInv, ArchiveType, AsideInv, WriterInv, RowsInv, Kept, ContentAt
  <2> QED
    BY <1>2, <2>3, <2>4, <2>5 DEF stageArchiveMessages
<1>3. CASE CommitSync
  <2>1. process = "up" /\ writer.pc = "stage" /\ writer \in Syncing
           /\ UNCHANGED <<source, live, aside, evictor, reader, process, unlinked>>
    BY <1>0, <1>3, WriterKinds DEF CommitSync
  <2>2. aside = NoFile
    BY <1>0, <2>1 DEF AsideInv
  <2>3. /\ writer' \in {Resting} \cup Syncing /\ writer'.pc \in {"idle", "cleanup"}
    <3>1. [writer EXCEPT !.pc = "cleanup"] \in Syncing
             /\ [writer EXCEPT !.pc = "cleanup"].pc = "cleanup"
      BY <2>1 DEF Syncing
    <3>2. writer' = Resting \/ writer' = [writer EXCEPT !.pc = "cleanup"]
      BY <1>3 DEF CommitSync
    <3>3. Resting.pc = "idle"
      BY DEF Resting
    <3> QED
      BY <3>1, <3>2, <3>3
  <2>4. CASE UNCHANGED records
    BY <1>0, <2>1, <2>2, <2>3, <2>4
       DEF ArchiveInv, ArchiveType, AsideInv, WriterInv, RowsInv, Kept, ContentAt
  <2>5. CASE writer.src = source /\ persistArchivedMessagesTx
    <3>1. \A m \in Uids : records'[m] =
             IF m \in writer.staged THEN [src |-> source, state |-> "available"]
             ELSE IF m \in writer.batch /\ records[m] = NoFile
                  THEN [src |-> source, state |-> "oversized"]
                  ELSE records[m]
      BY <2>5 DEF persistArchivedMessagesTx
    <3>2. [src |-> source, state |-> "available"] \in ArchivedRows
             /\ [src |-> source, state |-> "oversized"] \in ArchivedRows
      BY <1>0 DEF ArchiveType, ArchivedRows
    <3>3. records' \in [Uids -> {NoFile} \cup ArchivedRows]
      BY <1>0, <2>5, <3>2 DEF ArchiveType, persistArchivedMessagesTx
    <3>4. RowsInv'
      BY <1>0, <2>1, <2>2, <2>5, <3>1 DEF RowsInv, Kept, ContentAt, WriterInv
    <3> QED
      BY <1>0, <2>1, <2>2, <2>3, <3>3, <3>4 DEF ArchiveInv, ArchiveType, AsideInv, WriterInv
  <2> QED
    BY <1>3, <2>4, <2>5 DEF CommitSync
<1>4. CASE cleanupPublishedArchive
  <2>1. /\ process = "up" /\ writer.pc = "cleanup" /\ writer' = Resting
        /\ live' = IF live = NoFile THEN NoFile
                   ELSE [m \in Uids |-> IF m \in writer.created THEN NoFile ELSE live[m]]
        /\ unlinked' = unlinked \cup writer.created
        /\ UNCHANGED <<source, records, aside, evictor, reader, process>>
    BY <1>4 DEF cleanupPublishedArchive
  <2>2. aside = NoFile
    BY <1>0, <2>1 DEF AsideInv
  <2>3. live' \in {NoFile} \cup Directories
    BY <1>0, <2>1 DEF ArchiveType, Directories, Contents
  <2>4. \A m \in Uids : ContentAt(m)' = ContentAt(m) \/ m \in unlinked'
    <3>1. CASE live = NoFile
      BY <2>1, <3>1 DEF ContentAt
    <3>2. CASE live # NoFile
      <4>1. live' # NoFile
        BY <1>0, <2>1, <2>3, <3>2, ArchiveFilesAssumption
           DEF ArchiveType, Directories, Contents
      <4> QED
        BY <2>1, <3>2, <4>1 DEF ContentAt
    <3> QED
      BY <3>1, <3>2
  <2>5. RowsInv'
    BY <1>0, <2>1, <2>2, <2>4 DEF RowsInv, Kept
  <2> QED
    BY <1>0, <2>1, <2>2, <2>3, <2>5
       DEF ArchiveInv, ArchiveType, AsideInv, WriterInv, Resting
<1> QED
  BY <1>1, <1>2, <1>3, <1>4

\* The directory moves aside before the rows go, and comes back unless they did.
LEMMA ResetKeeps ==
    ASSUME ArchiveInv,
           \/ BeginReset \/ quarantineMailArchiveAccount \/ CommitReset \/ restore \/ discard
    PROVE  ArchiveInv'
<1>0. ArchiveType /\ AsideInv /\ WriterInv /\ RowsInv
  BY DEF ArchiveInv
<1>1. CASE BeginReset
  <2>1. /\ process = "up" /\ writer = Resting
        /\ UNCHANGED <<source, records, live, aside, evictor, reader, process, unlinked>>
    BY <1>1 DEF BeginReset
  <2>2. writer' \in Resetting /\ writer'.pc = "reset"
    <3>1. PICK to \in {0} \cup (IF source < MaxSources THEN {source + 1} ELSE {}) :
             writer' = [pc |-> "reset", to |-> to, moved |-> FALSE]
      BY <1>1 DEF BeginReset
    <3>2. source \in 0..MaxSources /\ MaxSources \in Nat
      BY <1>0, ArchiveFilesAssumption DEF ArchiveType
    <3>3. to \in 0..MaxSources
      BY <3>2
    <3> QED
      BY <3>1, <3>3 DEF Resetting
  <2>3. aside = NoFile
    BY <1>0, <2>1 DEF AsideInv, Resting
  <2> QED
    BY <1>0, <2>1, <2>2, <2>3
       DEF ArchiveInv, ArchiveType, AsideInv, WriterInv, RowsInv, Kept, ContentAt
<1>2. CASE quarantineMailArchiveAccount
  <2>1. /\ process = "up" /\ writer.pc = "reset" /\ writer \in Resetting
        /\ aside' = live /\ live' = NoFile
        /\ UNCHANGED <<source, records, evictor, reader, process, unlinked>>
    BY <1>0, <1>2, WriterKinds DEF quarantineMailArchiveAccount
  <2>2. writer' \in Resetting /\ writer'.pc = "commit" /\ writer'.moved = (live # NoFile)
    BY <1>2, <2>1 DEF quarantineMailArchiveAccount, Resetting
  <2>3. aside = NoFile
    BY <1>0, <2>1 DEF AsideInv
  <2>4. \A m \in Uids : Kept(m)' = Kept(m)
    BY <2>1, <2>3 DEF Kept, ContentAt
  <2>5. RowsInv'
    BY <1>0, <2>1, <2>4 DEF RowsInv
  <2> QED
    BY <1>0, <2>1, <2>2, <2>5 DEF ArchiveInv, ArchiveType, AsideInv, WriterInv
<1>3. CASE CommitReset
  <2>1. /\ process = "up" /\ writer.pc = "commit" /\ writer \in Resetting
        /\ UNCHANGED <<live, aside, evictor, reader, process, unlinked>>
    BY <1>0, <1>3, WriterKinds DEF CommitReset
  <2>2. /\ [writer EXCEPT !.pc = "discard"] \in Resetting
        /\ [writer EXCEPT !.pc = "discard"].pc = "discard"
        /\ [writer EXCEPT !.pc = "restore"] \in Resetting
        /\ [writer EXCEPT !.pc = "restore"].pc = "restore"
        /\ [writer EXCEPT !.pc = "restore"].moved = writer.moved
        /\ writer.to \in 0..MaxSources
    BY <2>1 DEF Resetting
  <2>3. CASE DatabaseReset /\ writer' = [writer EXCEPT !.pc = "discard"]
    BY <1>0, <2>1, <2>2, <2>3
       DEF DatabaseReset, ArchiveInv, ArchiveType, AsideInv, WriterInv, RowsInv
  <2>4. CASE DatabaseReset /\ writer' = [writer EXCEPT !.pc = "restore"]
    BY <1>0, <2>1, <2>2, <2>4
       DEF DatabaseReset, ArchiveInv, ArchiveType, AsideInv, WriterInv, RowsInv
  <2>5. CASE writer' = [writer EXCEPT !.pc = "restore"] /\ UNCHANGED <<source, records>>
    BY <1>0, <2>1, <2>2, <2>5
       DEF ArchiveInv, ArchiveType, AsideInv, WriterInv, RowsInv, Kept, ContentAt
  <2> QED
    BY <1>3, <2>3, <2>4, <2>5 DEF CommitReset
<1>4. CASE restore
  <2>1. /\ process = "up" /\ writer.pc = "restore" /\ writer' = Resting
        /\ live' = IF writer.moved THEN aside ELSE live
        /\ aside' = NoFile
        /\ UNCHANGED <<source, records, evictor, reader, process, unlinked>>
    BY <1>4 DEF restore
  <2>2. writer.moved <=> aside # NoFile
    BY <1>0, <2>1 DEF WriterInv
  <2>3. \A m \in Uids : Kept(m)' = Kept(m)
    BY <2>1, <2>2 DEF Kept, ContentAt
  <2>4. RowsInv'
    BY <1>0, <2>1, <2>3 DEF RowsInv
  <2> QED
    BY <1>0, <2>1, <2>4 DEF ArchiveInv, ArchiveType, AsideInv, WriterInv, Resting
<1>5. CASE discard
  <2>1. /\ process = "up" /\ writer.pc = "discard" /\ writer' = Resting /\ aside' = NoFile
        /\ UNCHANGED <<source, records, live, evictor, reader, process, unlinked>>
    BY <1>5 DEF discard
  <2>2. \A m \in Uids : records[m] = NoFile
    BY <1>0, <2>1 DEF WriterInv
  <2> QED
    BY <1>0, <2>1, <2>2 DEF ArchiveInv, ArchiveType, AsideInv, WriterInv, RowsInv, Resting
<1> QED
  BY <1>1, <1>2, <1>3, <1>4, <1>5

\* Eviction unlinks and marks, a reader marks what it misses; neither touches the
\* directory set aside.
LEMMA EvictionKeeps ==
    ASSUME ArchiveInv,
           \/ SelectOldest \/ RemoveContent \/ MarkEvicted
           \/ ReadRow \/ OpenArchivedContent \/ markArchivedContentMissing
    PROVE  ArchiveInv'
<1>0. ArchiveType /\ AsideInv /\ WriterInv /\ RowsInv
  BY DEF ArchiveInv
<1>1. \A m \in Available : m \in Uids /\ records[m].src \in 0..MaxSources
  BY <1>0, ArchiveFilesAssumption DEF Available, ArchiveType, ArchivedRows
<1>2. CASE SelectOldest
  <2>1. PICK m \in Available : evictor' = [pc |-> "remove", m |-> m, src |-> records[m].src]
    BY <1>2 DEF SelectOldest
  <2>2. evictor' \in Evicting
    BY <1>1, <2>1 DEF Evicting
  <2> QED
    BY <1>0, <1>1, <1>2, <2>1, <2>2, MarkingKeeps DEF SelectOldest, ArchiveType
<1>3. CASE ReadRow
  <2>1. PICK m \in Available : reader' = [pc |-> "open", m |-> m, src |-> records[m].src]
    BY <1>3 DEF ReadRow
  <2>2. reader' \in ReadingRow
    BY <1>1, <2>1 DEF ReadingRow
  <2> QED
    BY <1>0, <1>1, <1>3, <2>1, <2>2, MarkingKeeps DEF ReadRow, ArchiveType
<1>4. CASE OpenArchivedContent
  <2>1. reader \in ReadingRow
    BY <1>0, <1>4 DEF OpenArchivedContent, ArchiveType, Resting
  <2>2. reader' \in {Resting} \cup ReadingRow /\ reader.m \in Uids
    BY <1>4, <2>1 DEF OpenArchivedContent, ReadingRow
  <2> QED
    BY <1>0, <1>4, <2>2, MarkingKeeps DEF OpenArchivedContent, ArchiveType
<1>5. CASE MarkEvicted
  <2>1. evictor \in Evicting
    BY <1>0, <1>5 DEF MarkEvicted, ArchiveType, Resting
  <2>2. evictor.m \in Uids
    BY <2>1 DEF Evicting
  <2> QED
    BY <1>0, <1>5, <2>2, MarkingKeeps DEF MarkEvicted, ArchiveType
<1>6. CASE markArchivedContentMissing
  <2>1. reader \in ReadingRow
    BY <1>0, <1>6 DEF markArchivedContentMissing, ArchiveType, Resting
  <2>2. reader.m \in Uids
    BY <2>1 DEF ReadingRow
  <2> QED
    BY <1>0, <1>6, <2>2, MarkingKeeps DEF markArchivedContentMissing, ArchiveType
<1>7. CASE RemoveContent
  <2> DEFINE e == evictor.m
  <2>1. /\ evictor.pc = "remove" /\ evictor' = [evictor EXCEPT !.pc = "mark"]
        /\ live' = IF live = NoFile THEN NoFile ELSE [live EXCEPT ![e] = NoFile]
        /\ unlinked' = IF ContentAt(e) = NoFile THEN unlinked ELSE unlinked \cup {e}
        /\ UNCHANGED <<source, records, aside, writer, reader, process>>
    BY <1>7 DEF RemoveContent
  <2>2. evictor \in Evicting
    BY <1>0, <2>1 DEF ArchiveType, Resting
  <2>3. e \in Uids /\ evictor' \in Evicting
    BY <2>1, <2>2 DEF Evicting
  <2> HIDE DEF e
  <2>4. live' \in {NoFile} \cup Directories /\ (live = NoFile => live' = NoFile)
    BY <1>0, <2>1, <2>3 DEF ArchiveType, Directories, Contents
  <2>5. \A m \in Uids : ContentAt(m)' = ContentAt(m) \/ m \in unlinked'
    <3>1. CASE live = NoFile
      BY <2>1, <3>1 DEF ContentAt
    <3>2. CASE live # NoFile
      <4>1. live \in Directories /\ live' = [live EXCEPT ![e] = NoFile]
        BY <1>0, <2>1, <3>2 DEF ArchiveType
      <4>2. live' \in Directories
        BY <4>1 DEF Directories, Contents
      <4>3. live' # NoFile
        BY <4>2, ArchiveFilesAssumption
      <4>4. /\ \A m \in Uids \ {e} : live'[m] = live[m]
            /\ live'[e] = NoFile
        BY <2>3, <4>1 DEF Directories
      <4>5. ContentAt(e) = NoFile \/ e \in unlinked'
        BY <2>1
      <4> QED
        BY <3>2, <4>3, <4>4, <4>5 DEF ContentAt
    <3> QED
      BY <3>1, <3>2
  <2>6. unlinked \subseteq unlinked'
    BY <2>1
  <2>7. RowsInv'
    BY <1>0, <2>1, <2>5, <2>6 DEF RowsInv, Kept, AsideInv
  <2>8. WriterInv'
    <3>1. ASSUME writer.pc = "stage", NEW m \in writer.staged
          PROVE  ContentAt(m)' = writer.src \/ m \in unlinked'
      <4>1. m \in Uids
        BY <1>0, <3>1, WriterKinds DEF Syncing
      <4> QED
        BY <1>0, <2>5, <2>6, <3>1, <4>1 DEF WriterInv
    <3> QED
      BY <1>0, <2>1, <3>1 DEF WriterInv
  <2> QED
    BY <1>0, <2>1, <2>3, <2>4, <2>7, <2>8 DEF ArchiveInv, ArchiveType, AsideInv
<1> QED
  BY <1>2, <1>3, <1>4, <1>5, <1>6, <1>7

\* A start restores the directory set aside exactly if rows still refer to it.
LEMMA RestartKeeps ==
    ASSUME ArchiveInv,
           \/ CrashArchive \/ Restart \/ reconcileMailArchiveQuarantines \/ ReconcileMailArchive
    PROVE  ArchiveInv'
<1>0. ArchiveType /\ AsideInv /\ WriterInv /\ RowsInv
  BY DEF ArchiveInv
<1>1. CASE CrashArchive \/ Restart
  BY <1>0, <1>1
     DEF CrashArchive, Restart, ArchiveInv, ArchiveType, AsideInv, WriterInv, RowsInv, Kept,
         ContentAt, Resting
<1>2. CASE reconcileMailArchiveQuarantines
  <2>1. /\ process = "quarantines" /\ process' = "scan" /\ aside' = NoFile
        /\ live' = IF aside # NoFile /\ ~Obsolete THEN aside ELSE live
        /\ UNCHANGED <<source, records, writer, evictor, reader, unlinked>>
    BY <1>2 DEF reconcileMailArchiveQuarantines
  <2>2. writer = Resting
    BY <1>0, <2>1 DEF WriterInv
  <2>3. CASE aside = NoFile \/ ~Obsolete
    <3>1. \A m \in Uids : Kept(m)' = Kept(m)
      BY <2>1, <2>3 DEF Kept, ContentAt
    <3> QED
      BY <1>0, <2>1, <2>2, <3>1
         DEF RowsInv, ArchiveInv, ArchiveType, AsideInv, WriterInv, Resting
  <2>4. CASE aside # NoFile /\ Obsolete
    <3>1. \A m \in Uids : records[m] = NoFile
      BY <1>0, <2>4 DEF AsideInv, Obsolete
    <3> QED
      BY <1>0, <2>1, <2>2, <2>4, <3>1
         DEF RowsInv, ArchiveInv, ArchiveType, AsideInv, WriterInv, Resting
  <2> QED
    BY <2>3, <2>4
<1>3. CASE ReconcileMailArchive
  <2>1. /\ process = "scan" /\ process' = "up"
        /\ \A m \in Uids : records'[m] = IF m \in Available /\ ContentAt(m) = NoFile
                                         THEN [records[m] EXCEPT !.state = "missing"]
                                         ELSE records[m]
        /\ records' = [m \in Uids |-> records'[m]]
        /\ UNCHANGED <<source, live, aside, writer, evictor, reader, unlinked>>
    BY <1>3 DEF ReconcileMailArchive
  <2>2. writer = Resting /\ aside = NoFile
    BY <1>0, <2>1 DEF WriterInv, AsideInv, Resting
  <2>3. ASSUME NEW m \in Uids
        PROVE  \/ records[m] = NoFile /\ records'[m] = NoFile
               \/ /\ records[m] \in ArchivedRows /\ records'[m] \in ArchivedRows
                  /\ records'[m].src = records[m].src
                  /\ \/ records'[m].state = records[m].state
                     \/ records[m].state = "available"
    <3>1. CASE m \in Available /\ ContentAt(m) = NoFile
      <4>1. records[m] \in ArchivedRows /\ records[m].state = "available"
        BY <1>0, <3>1 DEF Available, ArchiveType
      <4>2. [records[m] EXCEPT !.state = "missing"] \in ArchivedRows
               /\ [records[m] EXCEPT !.state = "missing"].src = records[m].src
        BY <4>1 DEF ArchivedRows
      <4> QED
        BY <2>1, <3>1, <4>1, <4>2
    <3>2. CASE ~(m \in Available /\ ContentAt(m) = NoFile)
      BY <1>0, <2>1, <3>2 DEF ArchiveType
    <3> QED
      BY <3>1, <3>2
  <2>4. records' \in [Uids -> {NoFile} \cup ArchivedRows]
    BY <2>1, <2>3
  <2>5. RowsInv'
    BY <1>0, <2>1, <2>3, ArchiveFilesAssumption DEF RowsInv, Kept, ContentAt
  <2> QED
    BY <1>0, <2>1, <2>2, <2>4, <2>5
       DEF ArchiveInv, ArchiveType, AsideInv, WriterInv, Resting
<1> QED
  BY <1>1, <1>2, <1>3

-----------------------------------------------------------------------------
\* Every step of a sync, a reset, an eviction, a reader or a start keeps it.
THEOREM ArchiveInductive == ArchiveInv /\ [NextArchive]_archiveVars => ArchiveInv'
<1> SUFFICES ASSUME ArchiveInv, [NextArchive]_archiveVars PROVE ArchiveInv'
  OBVIOUS
<1>1. CASE UNCHANGED archiveVars
  BY <1>1 DEF archiveVars, ArchiveInv, ArchiveType, AsideInv, WriterInv, RowsInv, Kept,
              ContentAt
<1> QED
  BY <1>1, SyncKeeps, ResetKeeps, EvictionKeeps, RestartKeeps DEF NextArchive

\* When nobody changes the archive, every archived content is at its path, unless
\* the code itself unlinked it: whatever crashed, failed or was restarted before.
THEOREM ContentKeptHolds == ArchiveSpec => []ContentKept
<1>1. ArchiveInv => ContentKept
  <2> SUFFICES ASSUME ArchiveInv, process = "up", writer = Resting, NEW m \in Uids,
                      records[m] # NoFile, records[m].state \in {"available", "missing"}
               PROVE  ContentAt(m) = records[m].src \/ m \in unlinked
    BY DEF ContentKept
  <2>1. aside = NoFile
    BY DEF ArchiveInv, AsideInv, Resting
  <2> QED
    BY <2>1 DEF ArchiveInv, RowsInv, Kept
<1> QED
  BY <1>1, ArchiveInitially, ArchiveInductive, PTL DEF ArchiveSpec
=============================================================================
