-------------------------- MODULE HideMyEmailProofs --------------------------
(***************************************************************************)
(* Proofs about the Hide My Email service, for every number of concurrent  *)
(* requests, addresses and setbacks.                                       *)
(*                                                                         *)
(* Two facts carry the argument.  Whoever talks to Apple under the account *)
(* lock works on the account, the rows and the cursor as they are, because *)
(* everybody who changes one of them needs that lock (OpInv).  And the     *)
(* operation that reserves an address has found no other candidate and a   *)
(* free place, which stays free until it stages its own (Reserving).       *)
(***************************************************************************)
EXTENDS HideMyEmail, TLAPS, FiniteSetTheorems

\* Where an operation holds the account lock, and where a directory reader acts
\* for the account it began with.
Locked == {"preflight", "repair", "reserve", "stage", "confirm", "confirm select"}
Reading == {"sync", "register", "forwarding", "publish", "create", "select"}

Confirming(op) == op.pc = "confirm" \/ (op.pc = "preflight" /\ op.address # None)
Reserving(op) ==
    op.pc \in {"repair", "reserve", "stage"} \/ (op.pc = "preflight" /\ op.address = None)

Candidates(rows) == Enabled(rows) \cup Pending(rows)

\* What client p's operation may rely on.
OpInv(p) ==
    /\ DOMAIN ops[p] = DOMAIN Idle
    /\ ops[p].pc \in Reading => ops[p].login = ops[p].identity.email
    /\ ops[p].pc \in Locked =>
          accountLock = p /\ account.type = "icloud" /\ ops[p].login = account.email
    /\ At(p, "stage") => ops[p].address \in Addresses
    /\ Confirming(ops[p]) => ops[p].address \in Pending(aliases)
    /\ Reserving(ops[p]) => Pending(aliases) = {} /\ Cardinality(Enabled(aliases)) < MaxEnabled
    /\ ops[p].pc \in {"stage", "confirm"} /\ Fresh(p) /\ cursor => ops[p].address \notin missed

Shape ==
    /\ account.type \in {"icloud", "custom"}
    /\ aliases \in [Addresses -> {None} \cup Rows]
    /\ cursor \in BOOLEAN
    /\ DOMAIN directory = Addresses
    /\ \A a \in Addresses : DOMAIN directory[a] = {"status", "target"}
    /\ DOMAIN ops = Clients
    /\ missed \subseteq Addresses /\ reserved \subseteq Addresses

\* While a cursor exists, only addresses that Apple has given out were missed.
MissedWereGiven ==
    cursor /\ account.type = "icloud" => \A a \in missed : directory[a].status # "free"

\* An account without Apple has no address that Apple reserved for us and kept.
CustomHasNoReserved ==
    account.type = "custom" =>
        \A a \in reserved : directory[a].status = "gone" \/ a \in excused

HmeInv ==
    /\ Shape /\ SessionOfIdentity /\ MissedWereGiven /\ CustomHasNoReserved
    /\ EveryReserveTracked /\ CursorCoversPublished /\ CapacityKept
    /\ \A p \in Clients : OpInv(p)

-----------------------------------------------------------------------------
(* Rows and their number.                                                   *)

\* The places taken are finitely many.
LEMMA CandidatesFinite ==
    ASSUME NEW rows
    PROVE  /\ Candidates(rows) \subseteq Addresses
           /\ IsFiniteSet(Candidates(rows)) /\ Cardinality(Candidates(rows)) \in Nat
           /\ IsFiniteSet(Enabled(rows)) /\ Cardinality(Enabled(rows)) \in Nat
<1>1. Candidates(rows) \subseteq Addresses /\ Enabled(rows) \subseteq Addresses
  BY DEF Candidates, Enabled, Pending
<1>2. IsFiniteSet(Candidates(rows)) /\ IsFiniteSet(Enabled(rows))
  BY <1>1, FS_Subset, HmeAssumption
<1> QED
  BY <1>1, <1>2, FS_CardinalityType

\* Rows that occupy no more places.
LEMMA FewerCandidates ==
    ASSUME NEW rows, NEW new, Candidates(new) \subseteq Candidates(rows),
           Cardinality(Candidates(rows)) <= MaxEnabled
    PROVE  Cardinality(Candidates(new)) <= MaxEnabled
<1>1. IsFiniteSet(Candidates(rows)) /\ Cardinality(Candidates(rows)) \in Nat
         /\ Cardinality(Candidates(new)) \in Nat
  BY CandidatesFinite
<1>2. Cardinality(Candidates(new)) <= Cardinality(Candidates(rows))
  BY <1>1, FS_Subset
<1> QED
  BY <1>1, <1>2, HmeAssumption

\* One address takes a free place.
LEMMA OneMoreCandidate ==
    ASSUME NEW places, IsFiniteSet(places), Cardinality(places) < MaxEnabled,
           NEW a, NEW new, Candidates(new) \subseteq places \cup {a}
    PROVE  Cardinality(Candidates(new)) <= MaxEnabled
<1>1. Cardinality(places) \in Nat
  BY FS_CardinalityType
<1>2. IsFiniteSet(places \cup {a}) /\ Cardinality(places \cup {a}) <= Cardinality(places) + 1
  <2>1. IsFiniteSet(places \cup {a})
    BY FS_AddElement
  <2>2. Cardinality(places \cup {a}) =
           IF a \in places THEN Cardinality(places) ELSE Cardinality(places) + 1
    BY FS_AddElement
  <2> QED
    BY <1>1, <2>1, <2>2
<1>3. Cardinality(places \cup {a}) \in Nat /\ Cardinality(Candidates(new)) \in Nat
  BY <1>2, FS_CardinalityType, CandidatesFinite
<1>4. Cardinality(Candidates(new)) <= Cardinality(places \cup {a})
  BY <1>2, FS_Subset
<1> QED
  BY <1>1, <1>2, <1>3, <1>4, HmeAssumption

\* A row as it is written.
LEMMA RowShape ==
    ASSUME NEW on \in BOOLEAN, NEW mark \in {"", "pending", "inactive"}
    PROVE  /\ Row(on, mark) \in Rows /\ Row(on, mark) # None
           /\ Row(on, mark).enabled = on /\ Row(on, mark).mark = mark
<1>1. Row(on, mark) \in Rows
  BY DEF Row, Rows
<1>2. Row(on, mark) # None
  BY <1>1, HmeAssumption
<1> QED
  BY <1>1, <1>2 DEF Row

\* The rows an action leaves when it enables one of them.
LEMMA EnabledRow ==
    ASSUME NEW rows \in [Addresses -> {None} \cup Rows], NEW a \in Addresses
    PROVE  LET new == [rows EXCEPT ![a] = Row(TRUE, "")] IN
           /\ new \in [Addresses -> {None} \cup Rows]
           /\ Enabled(new) = Enabled(rows) \cup {a}
           /\ Pending(new) = Pending(rows) \ {a}
           /\ \A b \in Addresses : rows[b] # None => new[b] # None
           /\ new[a] # None
  BY RowShape, HmeAssumption DEF Enabled, Pending

\* The rows that staging a candidate leaves.
LEMMA CandidateRow ==
    ASSUME NEW rows \in [Addresses -> {None} \cup Rows], NEW a \in Addresses, rows[a] = None
    PROVE  LET new == [rows EXCEPT ![a] = Row(FALSE, "pending")] IN
           /\ new \in [Addresses -> {None} \cup Rows]
           /\ Enabled(new) = Enabled(rows)
           /\ Pending(new) = Pending(rows) \cup {a}
           /\ \A b \in Addresses : rows[b] # None => new[b] # None
           /\ new[a] # None
  BY RowShape, HmeAssumption DEF Enabled, Pending

\* The rows that a deletion leaves.
LEMMA RemovedRow ==
    ASSUME NEW rows \in [Addresses -> {None} \cup Rows], NEW a \in Addresses
    PROVE  LET new == [rows EXCEPT ![a] = None] IN
           /\ new \in [Addresses -> {None} \cup Rows]
           /\ Enabled(new) \subseteq Enabled(rows)
           /\ Pending(new) \subseteq Pending(rows)
           /\ \A b \in Addresses \ {a} : new[b] = rows[b]
  BY DEF Enabled, Pending

-----------------------------------------------------------------------------
(* Operations that leave the tables alone.                                  *)

Tables == <<account, aliases, cursor, directory, missed, reserved, excused>>

\* Another operation keeps what it relies on: without the account lock it relies
\* on no table, with it nobody else changes one.
LEMMA OthersKept ==
    ASSUME NEW q \in Clients, OpInv(q), ops'[q] = ops[q],
           accountLock # q \/ (UNCHANGED Tables /\ accountLock' = accountLock)
    PROVE  OpInv(q)'
<1>1. CASE accountLock # q
  <2>1. ops[q].pc \notin Locked
    BY <1>1 DEF OpInv
  <2>2. ~At(q, "stage")' /\ ~Confirming(ops[q])' /\ ~Reserving(ops[q])'
           /\ ops'[q].pc \notin {"stage", "confirm"}
    BY <2>1 DEF Locked, At, Confirming, Reserving
  <2> QED
    BY <2>1, <2>2 DEF OpInv
<1>2. CASE UNCHANGED Tables /\ accountLock' = accountLock
  BY <1>2 DEF OpInv, Tables, At, Confirming, Reserving, Fresh
<1> QED
  BY <1>1, <1>2

\* An operation that changes no table, and does not drop an address to be staged.
LEMMA QuietStep ==
    ASSUME HmeInv, NEW p \in Clients, ~At(p, "stage"),
           DOMAIN ops' = Clients, \A q \in Clients \ {p} : ops'[q] = ops[q],
           accountLock \in {None, p} \/ accountLock' = accountLock,
           UNCHANGED Tables, OpInv(p)', SessionOfIdentity'
    PROVE  HmeInv'
<1>1. Shape'
  BY DEF HmeInv, Shape, Tables
<1>2. ASSUME NEW q \in Clients PROVE OpInv(q)'
  <2>1. CASE q = p
    BY <2>1
  <2>2. CASE q # p
    <3>1. accountLock # q \/ accountLock' = accountLock
      BY <2>2, HmeAssumption
    <3> QED
      BY <2>2, <3>1, OthersKept DEF HmeInv
  <2> QED
    BY <2>1, <2>2
<1>3. EveryReserveTracked'
  <2> SUFFICES ASSUME NEW a \in reserved
               PROVE  \/ directory[a].status = "gone" \/ aliases[a] # None \/ a \in excused
                      \/ \E q \in Clients : At(q, "stage")' /\ ops'[q].address = a
    BY DEF EveryReserveTracked, Tables
  <2>1. CASE \E q \in Clients : At(q, "stage") /\ ops[q].address = a
    BY <2>1 DEF At
  <2> QED
    BY <2>1 DEF HmeInv, EveryReserveTracked
<1>4. (MissedWereGiven /\ CustomHasNoReserved /\ CursorCoversPublished /\ CapacityKept)'
  BY DEF HmeInv, Tables, MissedWereGiven, CustomHasNoReserved, CursorCoversPublished,
         CapacityKept
<1> QED
  BY <1>1, <1>2, <1>3, <1>4 DEF HmeInv

\* An operation that ends releases its locks and relies on nothing.
LEMMA Finished ==
    ASSUME HmeInv, NEW p \in Clients, Finish(p)
    PROVE  /\ DOMAIN ops' = Clients /\ \A q \in Clients \ {p} : ops'[q] = ops[q]
           /\ accountLock = p \/ accountLock' = accountLock
           /\ OpInv(p)'
<1>1. DOMAIN ops' = Clients /\ ops'[p] = Idle /\ \A q \in Clients \ {p} : ops'[q] = ops[q]
  BY DEF Finish, HmeInv, Shape
<1>2. OpInv(p)'
  BY <1>1 DEF OpInv, Idle, Reading, Locked, At, Confirming, Reserving
<1> QED
  BY <1>1, <1>2 DEF Finish

\* One that ends without having changed a table.
LEMMA QuietFinish ==
    ASSUME HmeInv, NEW p \in Clients, Finish(p), ~At(p, "stage"),
           UNCHANGED Tables, SessionOfIdentity'
    PROVE  HmeInv'
  BY Finished, QuietStep

\* A session that an operation under the account lock saves or deletes.
LEMMA SavedSession ==
    ASSUME HmeInv, UNCHANGED account,
           \/ UNCHANGED session \/ session' = None
           \/ \E login : saveSession(login) /\ login = account.email /\ account.type = "icloud"
    PROVE  SessionOfIdentity'
  BY DEF HmeInv, SessionOfIdentity, saveSession

\* An operation that has begun with Idle and a few fields of its own.
LEMMA Started ==
    ASSUME NEW pc, NEW i, NEW r, NEW l, NEW a
    PROVE  LET op == [Idle EXCEPT !.pc = pc, !.identity = i, !.record = r, !.login = l,
                                  !.address = a] IN
           /\ DOMAIN op = DOMAIN Idle /\ op.pc = pc /\ op.identity = i /\ op.record = r
           /\ op.login = l /\ op.address = a
  BY DEF Idle

-----------------------------------------------------------------------------
\* The invariant holds of an account just configured.
THEOREM HmeInitially == InitHme => HmeInv
<1> SUFFICES ASSUME InitHme PROVE HmeInv
  OBVIOUS
<1>1. account.type \in {"icloud", "custom"} /\ account.email = 1
  BY DEF InitHme
<1>2. PICK old \in SUBSET Addresses :
         /\ directory = [a \in Addresses |->
               [status |-> IF a \in old THEN "active" ELSE "free", target |-> "own"]]
         /\ missed = IF account.type = "custom" THEN Addresses ELSE old
  BY DEF InitHme
<1>3. aliases = [a \in Addresses |-> None] /\ cursor = TRUE /\ reserved = {}
         /\ ops = [p \in Clients |-> Idle]
  BY DEF InitHme
<1>4. Shape
  BY <1>1, <1>2, <1>3 DEF Shape
<1>5. Enabled(aliases) = {} /\ Pending(aliases) = {}
  BY <1>3 DEF Enabled, Pending
<1>6. MissedWereGiven /\ CustomHasNoReserved /\ EveryReserveTracked /\ CursorCoversPublished
  BY <1>2, <1>3, <1>5
     DEF MissedWereGiven, CustomHasNoReserved, EveryReserveTracked, CursorCoversPublished
<1>7. CapacityKept
  BY <1>5, FS_EmptySet, HmeAssumption DEF CapacityKept
<1>8. SessionOfIdentity
  <2>1. CASE account.type = "custom"
    BY <2>1 DEF InitHme, SessionOfIdentity
  <2>2. CASE account.type = "icloud"
    BY <1>1, <2>2 DEF InitHme, SessionOfIdentity
  <2> QED
    BY <1>1, <2>1, <2>2
<1>9. ASSUME NEW p \in Clients PROVE OpInv(p)
  BY <1>3 DEF OpInv, Idle, Reading, Locked, At, Confirming, Reserving
<1> QED
  BY <1>4, <1>6, <1>7, <1>8, <1>9 DEF HmeInv

-----------------------------------------------------------------------------
(* Signing in, and the readers of the directory until they publish.         *)

\* An operation starts without the account lock.
LEMMA OpStarts ==
    ASSUME HmeInv, NEW p \in Clients, acquireOperation(p), UNCHANGED <<Tables, accountLock>>,
           SessionOfIdentity', NEW op, Continue(p, op), DOMAIN op = DOMAIN Idle,
           op.pc \notin Locked, op.pc \in Reading => op.login = op.identity.email
    PROVE  HmeInv'
<1>1. DOMAIN ops' = Clients /\ ops'[p] = op /\ \A q \in Clients \ {p} : ops'[q] = ops[q]
  BY DEF Continue, HmeInv, Shape
<1>2. OpInv(p)'
  BY <1>1 DEF OpInv, Locked, At, Confirming, Reserving
<1>3. ~At(p, "stage")
  BY DEF acquireOperation, At
<1> QED
  BY <1>1, <1>2, <1>3, QuietStep

\* Logging in and out: a session is stored for the configured account only.
LEMMA SignsIn ==
    ASSUME HmeInv, NEW p \in Clients,
           \/ StartAuth(p) \/ VerifyAuth(p) \/ ClearAuth(p)
           \/ \E answer \in SignInAnswers : SignInReturns(p, answer)
           \/ \E answer \in VerifyAnswers : VerifyReturns(p, answer)
           \/ expireSession(p) \/ forwardingError(p)
    PROVE  HmeInv'
<1> USE DEF appleVars, ghosts, Tables
<1>1. CASE StartAuth(p)
  <2> DEFINE op == [Idle EXCEPT !.pc = "signin", !.identity = identityOf(account)]
  <2>1. DOMAIN op = DOMAIN Idle /\ op.pc = "signin"
    BY DEF Idle
  <2> HIDE DEF op
  <2>2. Continue(p, op) /\ acquireOperation(p) /\ UNCHANGED <<Tables, accountLock, session>>
    BY <1>1 DEF StartAuth, op
  <2> QED
    BY <2>1, <2>2, OpStarts, SavedSession DEF Locked, Reading
<1>2. CASE VerifyAuth(p) /\ UNCHANGED ops
  <2>1. UNCHANGED <<Tables, accountLock, session, ops>>
    BY <1>2 DEF VerifyAuth
  <2> QED
    BY <2>1, SavedSession, OthersKept
       DEF HmeInv, Shape, EveryReserveTracked, At, MissedWereGiven, CustomHasNoReserved,
           CursorCoversPublished, CapacityKept
<1>3. CASE VerifyAuth(p) /\ ~UNCHANGED ops
  <2> DEFINE op == [Idle EXCEPT !.pc = "verify", !.identity = challenge.identity]
  <2>1. DOMAIN op = DOMAIN Idle /\ op.pc = "verify"
    BY DEF Idle
  <2> HIDE DEF op
  <2>2. Continue(p, op) /\ acquireOperation(p) /\ UNCHANGED <<Tables, accountLock, session>>
    BY <1>3 DEF VerifyAuth, op
  <2> QED
    BY <2>1, <2>2, OpStarts, SavedSession DEF Locked, Reading
<1>4. CASE ClearAuth(p)
  <2> DEFINE op == [Idle EXCEPT !.pc = "clear"]
  <2>1. DOMAIN op = DOMAIN Idle /\ op.pc = "clear"
    BY DEF Idle
  <2> HIDE DEF op
  <2>2. Continue(p, op) /\ acquireOperation(p) /\ UNCHANGED <<Tables, accountLock, session>>
    BY <1>4 DEF ClearAuth, op
  <2> QED
    BY <2>1, <2>2, OpStarts, SavedSession DEF Locked, Reading
<1>5. persistSession(p) /\ UNCHANGED account => SessionOfIdentity'
  BY SavedSession DEF persistSession, sameIdentity, identityOf
<1>6. CASE \E answer \in SignInAnswers : SignInReturns(p, answer)
  <2>1. Finish(p) /\ ~At(p, "stage") /\ UNCHANGED Tables
    BY <1>6 DEF SignInReturns, At
  <2>2. persistSession(p) \/ UNCHANGED session \/ session' = None
    BY <1>6 DEF SignInReturns, SignInAnswers, removeSessionForIdentity
  <2> QED
    BY <1>5, <2>1, <2>2, SavedSession, QuietFinish
<1>7. CASE \E answer \in VerifyAnswers : VerifyReturns(p, answer)
  <2>1. Finish(p) /\ ~At(p, "stage") /\ UNCHANGED Tables
    BY <1>7 DEF VerifyReturns, At
  <2>2. persistSession(p) \/ UNCHANGED session
    BY <1>7 DEF VerifyReturns
  <2> QED
    BY <1>5, <2>1, <2>2, SavedSession, QuietFinish
<1>8. CASE expireSession(p) \/ forwardingError(p)
  <2>1. Finish(p) /\ ~At(p, "stage") /\ UNCHANGED Tables
    BY <1>8 DEF expireSession, forwardingError, At
  <2>2. session' = None \/ UNCHANGED session
    BY <1>8 DEF expireSession, forwardingError
  <2> QED
    BY <2>1, <2>2, SavedSession, QuietFinish
<1> QED
  BY <1>1, <1>2, <1>3, <1>4, <1>6, <1>7, <1>8

\* A reader begins with the stored session, which is the account's.
LEMMA BeginsReading ==
    ASSUME HmeInv, NEW p \in Clients, NEW pc \in {"sync", "register", "forwarding"},
           NEW address, BeginReading(p, pc, address)
    PROVE  HmeInv'
<1> DEFINE op == [Idle EXCEPT !.pc = pc, !.identity = identityOf(account),
                              !.record = session.ciphertext, !.login = session.login,
                              !.address = address]
<1>1. DOMAIN op = DOMAIN Idle /\ op.pc = pc /\ op.identity = identityOf(account)
         /\ op.login = session.login
  BY Started
<1>2. session.login = account.email
  BY DEF BeginReading, HmeInv, SessionOfIdentity
<1> HIDE DEF op
<1>3. identityOf(account).email = account.email
  BY DEF identityOf
<1>4. Continue(p, op) /\ acquireOperation(p) /\ UNCHANGED <<Tables, accountLock, session>>
  BY DEF BeginReading, op, Tables, appleVars, ghosts
<1>5. op.login = op.identity.email /\ op.pc \notin Locked
  BY <1>1, <1>2, <1>3 DEF Locked
<1> QED
  BY <1>1, <1>4, <1>5, OpStarts, SavedSession DEF Tables

\* The next phase of an operation that holds no account lock.
LEMMA ReaderGoesOn ==
    ASSUME HmeInv, NEW p \in Clients, ops[p].pc \in Reading, NEW op, Continue(p, op),
           DOMAIN op = DOMAIN Idle, op.pc \notin Locked, op.login = ops[p].login,
           op.identity = ops[p].identity, UNCHANGED <<Tables, accountLock, session>>
    PROVE  HmeInv'
<1>1. DOMAIN ops' = Clients /\ ops'[p] = op /\ \A q \in Clients \ {p} : ops'[q] = ops[q]
  BY DEF Continue, HmeInv, Shape
<1>2. OpInv(p)'
  BY <1>1 DEF HmeInv, OpInv, Locked, At, Confirming, Reserving
<1>3. ~At(p, "stage")
  BY DEF Reading, At
<1> QED
  BY <1>1, <1>2, <1>3, QuietStep, SavedSession DEF Tables

\* A directory read leaves everything but its operation as it was.
LEMMA ReadsDirectory ==
    ASSUME HmeInv, NEW p \in Clients, ListAliases(p) \/ AbortStale(p)
    PROVE  HmeInv'
<1> USE DEF appleVars, ghosts, Tables
<1>1. UNCHANGED <<Tables, session>> /\ ops[p].pc \in Reading /\ ~At(p, "stage")
  BY DEF ListAliases, AbortStale, Publishing, Reading, At
<1>2. CASE Finish(p)
  BY <1>1, <1>2, QuietFinish, SavedSession
<1>2a. DOMAIN ops[p] = DOMAIN Idle
  BY DEF HmeInv, OpInv
<1>3. CASE ListAliases(p) /\ ~Finish(p)
  <2> DEFINE expires == IF ops[p].pc = "sync" THEN "expire" ELSE "expire own"
             op1 == [ops[p] EXCEPT !.pc = expires]
             op2 == [ops[p] EXCEPT !.pc = Publishing[ops[p].pc], !.view = View]
  <2>1. UNCHANGED accountLock /\ (Continue(p, op1) \/ Continue(p, op2))
    BY <1>3 DEF ListAliases
  <2>2. expires \notin Locked /\ Publishing[ops[p].pc] \notin Locked
    <3>1. ops[p].pc \in {"sync", "register", "forwarding"}
      BY <1>3 DEF ListAliases, Publishing
    <3>2. /\ Publishing["sync"] = "publish" /\ Publishing["register"] = "create"
          /\ Publishing["forwarding"] = "select"
      BY DEF Publishing
    <3> QED
      BY <3>1, <3>2 DEF Locked
  <2>3. DOMAIN op1 = DOMAIN Idle /\ op1.pc = expires /\ op1.login = ops[p].login
           /\ op1.identity = ops[p].identity
    BY <1>2a DEF Idle
  <2>4. DOMAIN op2 = DOMAIN Idle /\ op2.pc = Publishing[ops[p].pc] /\ op2.login = ops[p].login
           /\ op2.identity = ops[p].identity
    BY <1>2a DEF Idle
  <2> HIDE DEF Tables, expires, op1, op2
  <2> QED
    BY <1>1, <2>1, <2>2, <2>3, <2>4, ReaderGoesOn
<1> QED
  BY <1>2, <1>3 DEF AbortStale

-----------------------------------------------------------------------------
(* Operations that change rows.  They hold the account lock or find it free. *)

LEMMA TablesChange ==
    ASSUME HmeInv, NEW p \in Clients,
           DOMAIN ops' = Clients, \A q \in Clients \ {p} : ops'[q] = ops[q],
           accountLock \in {None, p}, OpInv(p)', SessionOfIdentity',
           UNCHANGED <<account, directory, missed, reserved>>,
           aliases' \in [Addresses -> {None} \cup Rows],
           cursor' \in BOOLEAN, cursor' => cursor, excused \subseteq excused',
           \A a \in Addresses : aliases[a] # None => aliases'[a] # None \/ a \in excused',
           At(p, "stage") => aliases'[ops[p].address] # None \/ ops[p].address \in excused',
           cursor' => Enabled(aliases') \cap missed = {},
           account.type = "icloud" => Cardinality(Candidates(aliases')) <= MaxEnabled
    PROVE  HmeInv'
<1>1. Shape'
  BY DEF HmeInv, Shape
<1>2. ASSUME NEW q \in Clients PROVE OpInv(q)'
  BY OthersKept, HmeAssumption DEF HmeInv
<1>3. EveryReserveTracked'
  <2> SUFFICES ASSUME NEW a \in reserved
               PROVE  \/ directory[a].status = "gone" \/ aliases'[a] # None \/ a \in excused'
                      \/ \E q \in Clients : At(q, "stage")' /\ ops'[q].address = a
    BY DEF EveryReserveTracked
  <2>1. CASE \E q \in Clients : At(q, "stage") /\ ops[q].address = a
    BY <2>1 DEF At
  <2>2. a \in Addresses
    BY DEF HmeInv, Shape
  <2> QED
    BY <2>1, <2>2 DEF HmeInv, EveryReserveTracked
<1>4. MissedWereGiven' /\ CustomHasNoReserved' /\ CursorCoversPublished' /\ CapacityKept'
  BY DEF HmeInv, MissedWereGiven, CustomHasNoReserved, CursorCoversPublished, CapacityKept,
         Candidates
<1> QED
  BY <1>1, <1>2, <1>3, <1>4 DEF HmeInv

\* Whoever finds a free account lock and the account it read acts for that account.
LEMMA CurrentAccount ==
    ASSUME HmeInv, NEW p \in Clients, ops[p].pc \in Reading, StillCurrent(p)
    PROVE  account.type = "icloud" /\ ops[p].login = account.email
<1>1. ops[p].login = ops[p].identity.email /\ ops[p].identity = identityOf(account)
         /\ identityOf(account).type = "icloud"
  BY DEF HmeInv, OpInv, StillCurrent, sameIdentity
<1> QED
  BY <1>1 DEF identityOf

\* Rows on which reconciliation changes Apple's mark.
LEMMA MarkedRow ==
    ASSUME NEW row \in Rows
    PROVE  /\ [row EXCEPT !.mark = ""] \in Rows
           /\ [row EXCEPT !.mark = ""].enabled = row.enabled
           /\ [row EXCEPT !.mark = ""].mark = ""
           /\ [row EXCEPT !.enabled = FALSE, !.mark = "inactive"] \in Rows
           /\ ~[row EXCEPT !.enabled = FALSE, !.mark = "inactive"].enabled
           /\ [row EXCEPT !.enabled = FALSE, !.mark = "inactive"].mark = "inactive"
  BY DEF Rows

\* Reconciliation enables nothing and makes nothing pending.
LEMMA Reconciled ==
    ASSUME NEW rows \in [Addresses -> {None} \cup Rows], NEW view
    PROVE  LET kept == reconcileAppleAliasesTx(rows, view) IN
           /\ kept \in [Addresses -> {None} \cup Rows]
           /\ Enabled(kept) \subseteq Enabled(rows) /\ Pending(kept) \subseteq Pending(rows)
           /\ \A a \in Addresses : rows[a] = None => kept[a] = None
<1> DEFINE kept == reconcileAppleAliasesTx(rows, view)
<1>1. ASSUME NEW a \in Addresses
      PROVE  \/ kept[a] = None
             \/ rows[a] \in Rows /\ kept[a] \in Rows /\ (kept[a].enabled => rows[a].enabled)
                  /\ (kept[a].mark = "pending" => rows[a].mark = "pending")
  <2>1. CASE kept[a] = None
    BY <2>1
  <2>2. CASE kept[a] # None /\ kept[a] = rows[a]
    BY <2>2
  <2>3. CASE kept[a] # None /\ kept[a] = [rows[a] EXCEPT !.mark = ""]
    <3>1. rows[a] \in Rows
      BY <2>3 DEF reconcileAppleAliasesTx
    <3> HIDE DEF kept
    <3> QED
      BY <2>3, <3>1, MarkedRow
  <2>4. CASE kept[a] # None
               /\ kept[a] = [rows[a] EXCEPT !.enabled = FALSE, !.mark = "inactive"]
    <3>1. rows[a] \in Rows
      BY <2>4 DEF reconcileAppleAliasesTx
    <3> DEFINE new == [rows[a] EXCEPT !.enabled = FALSE, !.mark = "inactive"]
    <3>2. new \in Rows /\ ~new.enabled /\ new.mark = "inactive"
      BY <3>1, MarkedRow
    <3>3. kept[a] = new
      BY <2>4
    <3> HIDE DEF kept, new
    <3> QED
      BY <3>1, <3>2, <3>3
  <2> QED
    BY <2>1, <2>2, <2>3, <2>4 DEF reconcileAppleAliasesTx
<1>2. \A a \in Addresses : rows[a] = None => kept[a] = None
  BY DEF reconcileAppleAliasesTx
<1>3. kept = [a \in Addresses |-> kept[a]]
  BY DEF reconcileAppleAliasesTx
<1>4. kept \in [Addresses -> {None} \cup Rows]
  BY <1>1, <1>3
<1>5. Enabled(kept) \subseteq Enabled(rows) /\ Pending(kept) \subseteq Pending(rows)
  BY <1>1, HmeAssumption DEF Enabled, Pending
<1> QED
  BY <1>2, <1>4, <1>5

\* An import removes only what the directory omits, drops the cursor when it
\* enables an address, and enables one only into a free place.
LEMMA Imported ==
    ASSUME Shape, CapacityKept, NEW p \in Clients, importAliases(p)
    PROVE  /\ aliases' \in [Addresses -> {None} \cup Rows]
           /\ cursor' \in BOOLEAN /\ (cursor' => cursor) /\ excused \subseteq excused'
           /\ \A a \in Addresses : aliases[a] # None => aliases'[a] # None \/ a \in excused'
           /\ cursor' => Enabled(aliases') \subseteq Enabled(aliases)
           /\ account.type = "icloud" => Cardinality(Candidates(aliases')) <= MaxEnabled
<1> DEFINE view == ops[p].view
           kept == reconcileAppleAliasesTx(aliases, view)
           fresh == NewCandidates(filterAliases(view))
           live == {a \in fresh : view.dir[a].status = "active"}
<1>0. /\ kept \in [Addresses -> {None} \cup Rows]
      /\ Enabled(kept) \subseteq Enabled(aliases) /\ Pending(kept) \subseteq Pending(aliases)
      /\ \A a \in Addresses : aliases[a] = None => kept[a] = None
  BY Reconciled DEF Shape
<1>1. PICK on \in SUBSET live :
         /\ \A a \in on : HasCapacity([b \in Addresses |->
                             IF b \in on \ {a} THEN Row(TRUE, "") ELSE kept[b]])
         /\ aliases' = [a \in Addresses |->
               IF a \in fresh THEN Row(a \in on, IF a \in live THEN "" ELSE "inactive")
               ELSE kept[a]]
         /\ cursor' = (cursor /\ on = {})
         /\ excused' = excused \cup {a \in Addresses : aliases[a] # None /\ kept[a] = None}
  BY DEF importAliases
<1>2. fresh \subseteq Addresses /\ on \subseteq fresh /\ \A a \in fresh : aliases[a] = None
  BY DEF NewCandidates, filterAliases, Listed
<1> HIDE DEF kept, fresh, live
<1>3. \A a \in fresh : /\ aliases'[a] \in Rows /\ aliases'[a] # None
                       /\ aliases'[a].enabled = (a \in on) /\ aliases'[a].mark # "pending"
  <2> SUFFICES ASSUME NEW a \in fresh
               PROVE  /\ aliases'[a] \in Rows /\ aliases'[a] # None
                      /\ aliases'[a].enabled = (a \in on) /\ aliases'[a].mark # "pending"
    OBVIOUS
  <2>1. aliases'[a] = Row(a \in on, IF a \in live THEN "" ELSE "inactive")
    BY <1>1, <1>2
  <2>2. (a \in on) \in BOOLEAN /\ (IF a \in live THEN "" ELSE "inactive") \in {"", "inactive"}
    OBVIOUS
  <2> QED
    BY <2>1, <2>2, RowShape
<1>4. \A a \in Addresses \ fresh : aliases'[a] = kept[a]
  BY <1>1
<1>5. aliases' \in [Addresses -> {None} \cup Rows]
  <2>1. aliases' = [a \in Addresses |-> aliases'[a]]
    BY <1>1
  <2>2. \A a \in Addresses : aliases'[a] \in {None} \cup Rows
    BY <1>0, <1>3, <1>4
  <2> QED
    BY <2>1, <2>2
<1>6. Enabled(aliases') \subseteq Enabled(kept) \cup on /\ Pending(aliases') \subseteq Pending(kept)
  BY <1>2, <1>3, <1>4 DEF Enabled, Pending
<1>7. CASE on = {}
  <2>1. Candidates(aliases') \subseteq Candidates(aliases)
    BY <1>0, <1>6, <1>7 DEF Candidates
  <2>2. account.type = "icloud" => Cardinality(Candidates(aliases')) <= MaxEnabled
    BY <2>1, FewerCandidates DEF CapacityKept, Candidates
  <2> QED
    BY <1>0, <1>1, <1>2, <1>3, <1>4, <1>5, <1>6, <1>7, <2>2 DEF Shape
<1>8. CASE on # {}
  <2>1. PICK a \in on : TRUE
    BY <1>8
  <2> DEFINE rows == [b \in Addresses |-> IF b \in on \ {a} THEN Row(TRUE, "") ELSE kept[b]]
  <2>2. HasCapacity(rows)
    BY <1>1, <2>1
  <2>3. \A b \in Addresses : rows[b] = IF b \in on \ {a} THEN Row(TRUE, "") ELSE kept[b]
    OBVIOUS
  <2> HIDE DEF rows
  <2>4. \A b \in on \ {a} : b \in Enabled(rows)
    BY <1>2, <2>3, RowShape DEF Enabled
  <2>5. \A b \in Addresses \ on : rows[b] = kept[b]
    BY <2>3
  <2>6. rows[a] = kept[a]
    BY <1>2, <2>1, <2>3
  <2>7. Candidates(aliases') \subseteq Candidates(rows) \cup {a}
    <3> SUFFICES ASSUME NEW b \in Candidates(aliases'), b # a PROVE b \in Candidates(rows)
      OBVIOUS
    <3>1. CASE b \in on
      BY <2>4, <3>1 DEF Candidates
    <3>2. CASE b \notin on
      BY <1>6, <2>5, <3>2 DEF Candidates, Enabled, Pending
    <3> QED
      BY <3>1, <3>2
  <2>8. account.type = "icloud" => Cardinality(Candidates(rows)) < MaxEnabled
    BY <2>2 DEF HasCapacity, Candidates
  <2>9. account.type = "icloud" => Cardinality(Candidates(aliases')) <= MaxEnabled
    BY <2>7, <2>8, CandidatesFinite, OneMoreCandidate
  <2> QED
    BY <1>0, <1>1, <1>2, <1>3, <1>4, <1>5, <1>8, <2>9 DEF Shape
<1> QED
  BY <1>7, <1>8

\* Publishing a directory read for the present account.
LEMMA PublishesDirectory ==
    ASSUME HmeInv, NEW p \in Clients, PublishDirectory(p)
    PROVE  HmeInv'
<1> USE DEF appleVars
<1>1. ops[p].pc \in Reading /\ ~At(p, "stage") /\ StillCurrent(p) /\ Finish(p)
         /\ accountLock = None /\ saveSession(ops[p].login)
         /\ UNCHANGED <<account, directory, missed, reserved>>
  BY DEF PublishDirectory, Reading, At
<1>2. SessionOfIdentity'
  BY <1>1, CurrentAccount, SavedSession
<1>3. CASE importAliases(p)
  <2>1. Shape /\ CapacityKept /\ CursorCoversPublished
    BY DEF HmeInv
  <2>2. cursor' => Enabled(aliases') \cap missed = {}
    BY <1>3, <2>1, Imported DEF CursorCoversPublished
  <2> QED
    BY <1>1, <1>2, <1>3, <2>1, <2>2, Imported, Finished, TablesChange
<1>4. CASE UNCHANGED <<aliases, cursor, excused>>
  BY <1>1, <1>2, <1>4, QuietFinish DEF Tables
<1> QED
  BY <1>3, <1>4 DEF PublishDirectory

\* A created row takes a free place and drops the cursor.
LEMMA CreatesRow ==
    ASSUME Shape, CapacityKept, CursorCoversPublished, NEW a \in Addresses, CreateAliasRow(a)
    PROVE  /\ aliases' \in [Addresses -> {None} \cup Rows]
           /\ cursor' \in BOOLEAN /\ (cursor' => cursor)
           /\ \A b \in Addresses : aliases[b] # None => aliases'[b] # None
           /\ cursor' => Enabled(aliases') \cap missed = {}
           /\ account.type = "icloud" => Cardinality(Candidates(aliases')) <= MaxEnabled
<1>1. CASE UNCHANGED <<aliases, cursor>>
  BY <1>1 DEF Shape, CapacityKept, CursorCoversPublished, Candidates
<1>2. CASE HasCapacity(aliases) /\ aliases' = [aliases EXCEPT ![a] = Row(TRUE, "")]
             /\ cursor' = FALSE
  <2>1. /\ aliases' \in [Addresses -> {None} \cup Rows]
        /\ Enabled(aliases') = Enabled(aliases) \cup {a}
        /\ Pending(aliases') = Pending(aliases) \ {a}
        /\ \A b \in Addresses : aliases[b] # None => aliases'[b] # None
    BY <1>2, EnabledRow DEF Shape
  <2>2. Candidates(aliases') \subseteq Candidates(aliases) \cup {a}
    BY <2>1 DEF Candidates
  <2>3. account.type = "icloud" => Cardinality(Candidates(aliases)) < MaxEnabled
    BY <1>2 DEF HasCapacity, Candidates
  <2> QED
    BY <1>2, <2>1, <2>2, <2>3, CandidatesFinite, OneMoreCandidate
<1> QED
  BY <1>1, <1>2 DEF CreateAliasRow

\* Registering one address of the directory.
LEMMA PublishesRegistration ==
    ASSUME HmeInv, NEW p \in Clients, PublishRegistration(p)
    PROVE  HmeInv'
<1> DEFINE a == ops[p].address
<1> USE DEF appleVars, ghosts
<1>1. ops[p].pc \in Reading /\ ~At(p, "stage") /\ StillCurrent(p) /\ Finish(p)
         /\ accountLock = None /\ UNCHANGED <<account, directory, missed, reserved, excused>>
  BY DEF PublishRegistration, Reading, At
<1>2. CASE saveSession(ops[p].login) /\ CreateAliasRow(a) /\ a \in filterAliases(ops[p].view)
  <2>1. SessionOfIdentity'
    BY <1>1, <1>2, CurrentAccount, SavedSession
  <2>2. a \in Addresses
    BY <1>2 DEF filterAliases, Listed
  <2>3. Shape /\ CapacityKept /\ CursorCoversPublished
    BY DEF HmeInv
  <2> QED
    BY <1>1, <1>2, <2>1, <2>2, <2>3, CreatesRow, Finished, TablesChange
<1>3. CASE UNCHANGED <<session, aliases, cursor>>
  BY <1>1, <1>3, QuietFinish, SavedSession DEF Tables
<1> QED
  BY <1>2, <1>3 DEF PublishRegistration

-----------------------------------------------------------------------------
(* Operations under the account lock.                                       *)

\* An operation that enters or keeps the account lock without changing a table.
LEMMA LockedGoesOn ==
    ASSUME HmeInv, NEW p \in Clients, ~At(p, "stage"), NEW op, Continue(p, op),
           DOMAIN op = DOMAIN Idle, op.pc \in Locked \ {"stage"},
           accountLock \in {None, p}, accountLock' = p,
           account.type = "icloud", op.login = account.email,
           Confirming(op) => op.address \in Pending(aliases),
           Reserving(op) => Pending(aliases) = {} /\ Cardinality(Enabled(aliases)) < MaxEnabled,
           op.pc = "confirm" =>
               At(p, "confirm") /\ op.sure = ops[p].sure /\ op.address = ops[p].address
                 /\ op.view = ops[p].view,
           UNCHANGED Tables, SessionOfIdentity'
    PROVE  HmeInv'
<1>1. DOMAIN ops' = Clients /\ ops'[p] = op /\ \A q \in Clients \ {p} : ops'[q] = ops[q]
  BY DEF Continue, HmeInv, Shape
<1>2. op.pc = "confirm" /\ Fresh(p)' /\ cursor => op.address \notin missed
  BY <1>1 DEF HmeInv, OpInv, Fresh, At, Listed, Tables
<1>3. op.pc \notin Reading
  BY DEF Locked, Reading
<1>4. OpInv(p)'
  BY <1>1, <1>2, <1>3 DEF OpInv, At, Tables, Confirming, Reserving
<1> QED
  BY <1>1, <1>4, QuietStep

\* What an operation under the account lock knows.
LEMMA LockedKnows ==
    ASSUME HmeInv, NEW p \in Clients, ops[p].pc \in Locked
    PROVE  accountLock = p /\ account.type = "icloud" /\ ops[p].login = account.email
  BY DEF HmeInv, OpInv

\* A forwarding change acts for the account whose lock it holds.
LEMMA SelectsForwarding ==
    ASSUME HmeInv, NEW p \in Clients, UpdateForwardTo(p) \/ ConfirmForwardTo(p)
    PROVE  HmeInv'
<1> USE DEF appleVars, ghosts, Tables
<1>1. CASE ConfirmForwardTo(p)
  <2>1. ops[p].pc \in Locked /\ ~At(p, "stage") /\ Finish(p) /\ UNCHANGED Tables
           /\ (session' = None \/ saveSession(ops[p].login))
    BY <1>1 DEF ConfirmForwardTo, Locked, At
  <2> QED
    BY <2>1, LockedKnows, SavedSession, QuietFinish
<1>2. CASE UpdateForwardTo(p)
  <2>1. ops[p].pc \in Reading /\ ~At(p, "stage") /\ StillCurrent(p) /\ accountLock = None
           /\ UNCHANGED Tables /\ (session' = None \/ saveSession(ops[p].login))
    BY <1>2 DEF UpdateForwardTo, Reading, At
  <2>2. account.type = "icloud" /\ ops[p].login = account.email
    BY <2>1, CurrentAccount
  <2>3. SessionOfIdentity'
    BY <2>1, <2>2, SavedSession
  <2>4. CASE Finish(p)
    BY <2>1, <2>3, <2>4, QuietFinish
  <2>5. CASE ~Finish(p)
    <3> DEFINE op == [ops[p] EXCEPT !.pc = "confirm select"]
    <3>1. Continue(p, op) /\ accountLock' = p
      BY <1>2, <2>5 DEF UpdateForwardTo
    <3>2. DOMAIN op = DOMAIN Idle /\ op.pc = "confirm select" /\ op.login = ops[p].login
      BY DEF HmeInv, OpInv, Idle
    <3> HIDE DEF op, Tables
    <3>3. op.pc \in Locked \ {"stage"} /\ ~Confirming(op) /\ ~Reserving(op)
      BY <3>2 DEF Locked, Confirming, Reserving
    <3> QED
      BY <2>1, <2>2, <2>3, <3>1, <3>2, <3>3, LockedGoesOn
  <2> QED
    BY <2>4, <2>5
<1> QED
  BY <1>1, <1>2

\* Creation begins with a candidate, or with none and a free place.
LEMMA BeginsCreation ==
    ASSUME HmeInv, NEW p \in Clients, CreateAutoAlias(p) \/ CheckAccount(p)
    PROVE  HmeInv'
<1> USE DEF appleVars, ghosts, Tables
<1>1. CASE CreateAutoAlias(p)
  <2> DEFINE op == [Idle EXCEPT !.pc = "account"]
  <2>1. DOMAIN op = DOMAIN Idle /\ op.pc = "account"
    BY DEF Idle
  <2> HIDE DEF op
  <2>2. Continue(p, op) /\ acquireOperation(p) /\ UNCHANGED <<Tables, accountLock, session>>
    BY <1>1 DEF CreateAutoAlias, op
  <2> QED
    BY <2>1, <2>2, OpStarts, SavedSession DEF Locked, Reading
<1>2. CASE CheckAccount(p) /\ Finish(p)
  BY <1>2, QuietFinish, SavedSession DEF CheckAccount, At
<1>3. CASE CheckAccount(p) /\ ~Finish(p)
  <2> DEFINE op == [Idle EXCEPT !.pc = "preflight", !.identity = identityOf(account),
                        !.record = session.ciphertext, !.login = session.login,
                        !.address = PendingConfirmation]
  <2>1. Continue(p, op) /\ accountLock' = p /\ session # None /\ accountLock = None
           /\ (PendingConfirmation = None => Cardinality(Enabled(aliases)) < MaxEnabled)
           /\ UNCHANGED <<Tables, session>> /\ ~At(p, "stage")
    BY <1>3 DEF CheckAccount, At
  <2>2. DOMAIN op = DOMAIN Idle /\ op.pc = "preflight" /\ op.login = session.login
           /\ op.address = PendingConfirmation
    BY Started
  <2> HIDE DEF op, Tables
  <2>3. account.type = "icloud" /\ op.login = account.email
    BY <2>1, <2>2 DEF HmeInv, SessionOfIdentity
  <2>4. PendingConfirmation # None => PendingConfirmation \in Pending(aliases)
    BY DEF PendingConfirmation
  <2>5. PendingConfirmation = None => Pending(aliases) = {}
    BY HmeAssumption DEF PendingConfirmation, Pending
  <2>6. op.pc \in Locked \ {"stage"} /\ op.pc # "confirm"
    BY <2>2 DEF Locked
  <2>7. SessionOfIdentity'
    BY <2>1, SavedSession DEF Tables
  <2>8. /\ Confirming(op) => op.address \in Pending(aliases)
        /\ Reserving(op) => Pending(aliases) = {} /\ Cardinality(Enabled(aliases)) < MaxEnabled
    BY <2>1, <2>2, <2>4, <2>5 DEF Confirming, Reserving
  <2> QED
    BY <2>1, <2>2, <2>3, <2>6, <2>7, <2>8, LockedGoesOn
<1> QED
  BY <1>1, <1>2, <1>3

\* The reads before a reserve leave the free place free.
LEMMA PreparesReserve ==
    ASSUME HmeInv, NEW p \in Clients, Preflight(p) \/ RepairForwarding(p)
    PROVE  HmeInv'
<1> USE DEF appleVars, ghosts, Tables
<1>1. ops[p].pc \in Locked /\ ~At(p, "stage") /\ Reserving(ops[p]) /\ UNCHANGED Tables
         /\ (UNCHANGED session \/ session' = None \/ saveSession(ops[p].login))
  BY DEF Preflight, RepairForwarding, Locked, At, Reserving, expireAutoSession
<1>2. accountLock = p /\ account.type = "icloud" /\ ops[p].login = account.email
  BY <1>1, LockedKnows
<1>3. SessionOfIdentity'
  BY <1>1, <1>2, SavedSession
<1>4. CASE Finish(p)
  BY <1>1, <1>3, <1>4, QuietFinish
<1>5. CASE ~Finish(p)
  <2> DEFINE op1 == [ops[p] EXCEPT !.view = View,
                                   !.pc = IF selected = "none" THEN "repair" ELSE "reserve"]
             op2 == [ops[p] EXCEPT !.pc = "reserve", !.view = [View EXCEPT !.sel = "own"]]
  <2>1. (Continue(p, op1) \/ Continue(p, op2)) /\ UNCHANGED accountLock
    BY <1>5 DEF Preflight, RepairForwarding, expireAutoSession
  <2>2. DOMAIN ops[p] = DOMAIN Idle
    BY DEF HmeInv, OpInv
  <2>3. DOMAIN op1 = DOMAIN Idle /\ op1.pc \in {"repair", "reserve"} /\ op1.login = ops[p].login
    BY <2>2 DEF Idle
  <2>4. DOMAIN op2 = DOMAIN Idle /\ op2.pc = "reserve" /\ op2.login = ops[p].login
    BY <2>2 DEF Idle
  <2> HIDE DEF op1, op2, Tables
  <2>5. Pending(aliases) = {} /\ Cardinality(Enabled(aliases)) < MaxEnabled
    BY <1>1 DEF HmeInv, OpInv
  <2>6. /\ op1.pc \in Locked \ {"stage"} /\ op1.pc # "confirm" /\ ~Confirming(op1)
        /\ op2.pc \in Locked \ {"stage"} /\ op2.pc # "confirm" /\ ~Confirming(op2)
    BY <2>3, <2>4 DEF Locked, Confirming
  <2> QED
    BY <1>1, <1>2, <1>3, <2>1, <2>3, <2>4, <2>5, <2>6, LockedGoesOn
<1> QED
  BY <1>4, <1>5

\* The address a reserve created is on its way to a row, and mail for one that
\* was born here has not been passed over.
LEMMA Reserves ==
    ASSUME HmeInv, NEW p \in Clients, CreateAlias(p)
    PROVE  HmeInv'
<1> USE DEF ghosts
<1>0. At(p, "reserve") /\ ~At(p, "stage") /\ ops[p].pc \in Locked /\ Reserving(ops[p])
         /\ UNCHANGED <<account, aliases, cursor, missed, excused>>
  BY DEF CreateAlias, At, Locked, Reserving
<1>1. accountLock = p /\ account.type = "icloud" /\ ops[p].login = account.email
         /\ Pending(aliases) = {} /\ Cardinality(Enabled(aliases)) < MaxEnabled
         /\ DOMAIN ops[p] = DOMAIN Idle
  BY <1>0, LockedKnows DEF HmeInv, OpInv
<1>2. SessionOfIdentity'
  BY <1>0, <1>1, SavedSession DEF CreateAlias
<1>3. CASE Finish(p) /\ UNCHANGED <<directory, reserved>>
  BY <1>0, <1>2, <1>3, QuietFinish DEF Tables
<1>4. ASSUME NEW a \in Addresses, NEW sure \in BOOLEAN, Reserve(a, sure, ops[p].view.dir),
             Continue(p, [ops[p] EXCEPT !.pc = "stage", !.address = a, !.sure = sure]),
             UNCHANGED <<accountLock>>
      PROVE  HmeInv'
  <2> DEFINE op == [ops[p] EXCEPT !.pc = "stage", !.address = a, !.sure = sure]
  <2>1. DOMAIN op = DOMAIN Idle /\ op.pc = "stage" /\ op.address = a /\ op.sure = sure
           /\ op.login = ops[p].login /\ op.view = ops[p].view
    BY <1>1 DEF Idle
  <2>2. DOMAIN ops' = Clients /\ ops'[p] = op /\ \A q \in Clients \ {p} : ops'[q] = ops[q]
    BY <1>4 DEF Continue, HmeInv, Shape
  <2> HIDE DEF op
  <2>3. /\ DOMAIN directory' = Addresses
        /\ \A b \in Addresses :
              /\ DOMAIN directory'[b] = {"status", "target"}
              /\ directory[b].status = "gone" => directory'[b].status = "gone"
              /\ directory[b].status # "free" => directory'[b].status # "free"
        /\ reserved' \subseteq reserved \cup {a}
    BY <1>4 DEF Reserve, AppleReserves, HmeInv, Shape
  <2>4. Fresh(p)' => directory[a].status = "free"
    BY <1>4, <2>1, <2>2 DEF Fresh, Reserve, AppleReserves, Listed
  <2>5. OpInv(p)'
    BY <1>0, <1>1, <2>1, <2>2, <2>4, <1>4
       DEF OpInv, HmeInv, MissedWereGiven, At, Reading, Confirming, Locked
  <2>6. ASSUME NEW q \in Clients PROVE OpInv(q)'
    BY <1>1, <2>2, <2>5, OthersKept DEF HmeInv
  <2>7. Shape'
    BY <1>0, <2>2, <2>3 DEF HmeInv, Shape
  <2>8. EveryReserveTracked'
    <3> SUFFICES ASSUME NEW b \in reserved'
                 PROVE  \/ directory'[b].status = "gone" \/ aliases[b] # None \/ b \in excused
                        \/ \E q \in Clients : At(q, "stage")' /\ ops'[q].address = b
      BY <1>0 DEF EveryReserveTracked
    <3>1. CASE b = a
      BY <2>1, <2>2, <3>1 DEF At
    <3>2. CASE b # a
      <4>1. b \in reserved /\ b \in Addresses
        BY <2>3, <3>2 DEF HmeInv, Shape
      <4>2. CASE \E q \in Clients : At(q, "stage") /\ ops[q].address = b
        BY <1>0, <2>2, <4>2 DEF At
      <4> QED
        BY <2>3, <4>1, <4>2 DEF HmeInv, EveryReserveTracked
    <3> QED
      BY <3>1, <3>2
  <2>9. MissedWereGiven' /\ CustomHasNoReserved' /\ CursorCoversPublished' /\ CapacityKept'
    BY <1>0, <1>1, <2>3
       DEF HmeInv, Shape, MissedWereGiven, CustomHasNoReserved, CursorCoversPublished, CapacityKept
  <2> QED
    BY <1>2, <2>6, <2>7, <2>8, <2>9 DEF HmeInv
<1> QED
  BY <1>3, <1>4 DEF CreateAlias

\* A pending address that is published keeps the place it has.
LEMMA Confirms ==
    ASSUME Shape, CapacityKept, CursorCoversPublished, account.type = "icloud",
           NEW a \in Pending(aliases), NEW view, NEW fresh \in BOOLEAN,
           confirmPendingAlias(a, view, fresh), cursor /\ fresh => a \notin missed
    PROVE  /\ aliases' \in [Addresses -> {None} \cup Rows]
           /\ cursor' \in BOOLEAN /\ (cursor' => cursor)
           /\ \A b \in Addresses : aliases[b] # None => aliases'[b] # None
           /\ cursor' => Enabled(aliases') \cap missed = {}
           /\ Cardinality(Candidates(aliases')) <= MaxEnabled
<1>1. CASE UNCHANGED <<aliases, cursor>>
  BY <1>1 DEF Shape, CapacityKept, CursorCoversPublished, Candidates
<1>2. CASE aliases' = [aliases EXCEPT ![a] = Row(TRUE, "")] /\ cursor' = (cursor /\ fresh)
  <2>1. a \in Addresses
    BY DEF Pending
  <2>2. /\ aliases' \in [Addresses -> {None} \cup Rows]
        /\ Enabled(aliases') = Enabled(aliases) \cup {a}
        /\ Pending(aliases') = Pending(aliases) \ {a}
        /\ \A b \in Addresses : aliases[b] # None => aliases'[b] # None
    BY <1>2, <2>1, EnabledRow DEF Shape
  <2>3. Candidates(aliases') \subseteq Candidates(aliases)
    BY <2>2 DEF Candidates
  <2>4. Cardinality(Candidates(aliases')) <= MaxEnabled
    BY <2>3, FewerCandidates DEF CapacityKept, Candidates
  <2>5. cursor' => Enabled(aliases') \cap missed = {}
    BY <1>2, <2>2 DEF CursorCoversPublished
  <2> QED
    BY <1>2, <2>2, <2>4, <2>5 DEF Shape
<1> QED
  BY <1>1, <1>2 DEF confirmPendingAlias, confirmPendingAutoAlias

\* The confirmation, or the retirement, of an older candidate.
LEMMA Reconciles ==
    ASSUME HmeInv, NEW p \in Clients, Reconcile(p)
    PROVE  HmeInv'
<1> DEFINE a == ops[p].address
<1> USE DEF appleVars
<1>1. ops[p].pc \in Locked /\ ~At(p, "stage") /\ Confirming(ops[p]) /\ Finish(p)
         /\ UNCHANGED <<account, directory, missed, reserved>>
         /\ (UNCHANGED session \/ session' = None \/ saveSession(ops[p].login))
  BY DEF Reconcile, Locked, At, Confirming, expireAutoSession
<1>2. accountLock = p /\ account.type = "icloud" /\ ops[p].login = account.email
         /\ a \in Pending(aliases)
  BY <1>1, LockedKnows DEF HmeInv, OpInv
<1>3. SessionOfIdentity'
  BY <1>1, <1>2, SavedSession
<1>4. CASE UNCHANGED <<aliases, cursor, excused>>
  BY <1>1, <1>3, <1>4, QuietFinish DEF Tables
<1>5. Shape /\ CapacityKept /\ CursorCoversPublished /\ a \in Addresses
  BY <1>2 DEF HmeInv, Pending
<1>6. CASE confirmPendingAlias(a, View, FALSE) /\ UNCHANGED excused
  <2>1. /\ aliases' \in [Addresses -> {None} \cup Rows]
        /\ cursor' \in BOOLEAN /\ (cursor' => cursor)
        /\ \A b \in Addresses : aliases[b] # None => aliases'[b] # None
        /\ cursor' => Enabled(aliases') \cap missed = {}
        /\ Cardinality(Candidates(aliases')) <= MaxEnabled
    BY <1>2, <1>5, <1>6, Confirms
  <2> QED
    BY <1>1, <1>2, <1>3, <1>6, <2>1, Finished, TablesChange
<1>7. CASE discardMissingAutoAlias(a) /\ UNCHANGED cursor
  <2>1. CASE UNCHANGED <<aliases, excused>>
    BY <1>4, <1>7, <2>1
  <2>2. CASE aliases' = [aliases EXCEPT ![a] = None] /\ excused' = excused \cup {a}
    <3>1. /\ aliases' \in [Addresses -> {None} \cup Rows]
          /\ Enabled(aliases') \subseteq Enabled(aliases)
          /\ Pending(aliases') \subseteq Pending(aliases)
          /\ \A b \in Addresses \ {a} : aliases'[b] = aliases[b]
      BY <1>5, <2>2, RemovedRow DEF Shape
    <3>2. Candidates(aliases') \subseteq Candidates(aliases)
      BY <3>1 DEF Candidates
    <3>3. Cardinality(Candidates(aliases')) <= MaxEnabled
      BY <1>2, <1>5, <3>2, FewerCandidates DEF CapacityKept, Candidates
    <3>4. cursor' => Enabled(aliases') \cap missed = {}
      BY <1>5, <1>7, <3>1 DEF CursorCoversPublished
    <3>5. \A b \in Addresses : aliases[b] # None => aliases'[b] # None \/ b \in excused'
      BY <2>2, <3>1
    <3>6. cursor' \in BOOLEAN /\ (cursor' => cursor) /\ excused \subseteq excused'
      BY <1>5, <1>7, <2>2 DEF Shape
    <3> QED
      BY <1>1, <1>2, <1>3, <3>1, <3>3, <3>4, <3>5, <3>6, Finished, TablesChange
  <2> QED
    BY <1>2, <1>7, <2>1, <2>2 DEF discardMissingAutoAlias, DiscardPendingAutoAlias
<1> QED
  BY <1>4, <1>6, <1>7 DEF Reconcile

\* Staging takes the place that the check before the reserve found free.
LEMMA Stages ==
    ASSUME HmeInv, NEW p \in Clients, StageCandidate(p)
    PROVE  HmeInv'
<1> DEFINE a == ops[p].address
<1> USE DEF appleVars
<1>1. ops[p].pc \in Locked /\ At(p, "stage") /\ Reserving(ops[p])
         /\ UNCHANGED <<account, cursor, directory, missed, reserved>>
         /\ (UNCHANGED session \/ session' = None \/ saveSession(ops[p].login))
  BY DEF StageCandidate, Locked, At, Reserving, expireAutoSession
<1>2. accountLock = p /\ account.type = "icloud" /\ ops[p].login = account.email
         /\ a \in Addresses /\ DOMAIN ops[p] = DOMAIN Idle
         /\ Pending(aliases) = {} /\ Cardinality(Enabled(aliases)) < MaxEnabled
         /\ (Fresh(p) /\ cursor => a \notin missed)
  BY <1>1, LockedKnows DEF HmeInv, OpInv, At
<1>3. SessionOfIdentity'
  BY <1>1, <1>2, SavedSession
<1>4. Shape /\ CapacityKept /\ CursorCoversPublished
  BY DEF HmeInv
<1>5. CASE Finish(p) /\ UNCHANGED aliases /\ excused' = excused \cup {a}
  BY <1>1, <1>2, <1>3, <1>4, <1>5, Finished, TablesChange
     DEF Shape, CapacityKept, CursorCoversPublished, Candidates
<1>6. CASE createAutoAliasCandidate(a) /\ UNCHANGED excused
  <2>1. /\ aliases' \in [Addresses -> {None} \cup Rows]
        /\ Enabled(aliases') = Enabled(aliases)
        /\ Pending(aliases') = Pending(aliases) \cup {a}
        /\ \A b \in Addresses : aliases[b] # None => aliases'[b] # None
        /\ aliases'[a] # None
    <3>1. aliases[a] = None /\ aliases' = [aliases EXCEPT ![a] = Row(FALSE, "pending")]
             /\ aliases \in [Addresses -> {None} \cup Rows]
      BY <1>4, <1>6 DEF createAutoAliasCandidate, Shape
    <3> HIDE DEF a
    <3> QED
      BY <1>2, <3>1, CandidateRow
  <2>2. Candidates(aliases') \subseteq Enabled(aliases) \cup {a}
    BY <1>2, <2>1 DEF Candidates
  <2>3. Cardinality(Candidates(aliases')) <= MaxEnabled
    BY <1>2, <2>2, CandidatesFinite, OneMoreCandidate
  <2>4. cursor' \in BOOLEAN /\ (cursor' => cursor) /\ excused \subseteq excused'
           /\ (cursor' => Enabled(aliases') \cap missed = {})
    BY <1>1, <1>4, <1>6, <2>1 DEF Shape, CursorCoversPublished
  <2>5. CASE Finish(p)
    BY <1>1, <1>2, <1>3, <2>1, <2>3, <2>4, <2>5, Finished, TablesChange
  <2>6. CASE Continue(p, [ops[p] EXCEPT !.pc = "confirm"]) /\ UNCHANGED accountLock
    <3> DEFINE op == [ops[p] EXCEPT !.pc = "confirm"]
    <3>1. DOMAIN op = DOMAIN Idle /\ op.pc = "confirm" /\ op.address = a /\ op.sure = ops[p].sure
             /\ op.login = ops[p].login /\ op.view = ops[p].view
      BY <1>2 DEF Idle
    <3>2. DOMAIN ops' = Clients /\ ops'[p] = op /\ \A q \in Clients \ {p} : ops'[q] = ops[q]
      BY <1>4, <2>6 DEF Continue, Shape
    <3> HIDE DEF op
    <3>3. Fresh(p)' = Fresh(p)
      BY <3>1, <3>2 DEF Fresh, Listed
    <3>4. OpInv(p)'
      BY <1>1, <1>2, <2>1, <2>6, <3>1, <3>2, <3>3
         DEF OpInv, At, Reading, Confirming, Reserving
    <3> QED
      BY <1>1, <1>2, <1>3, <2>1, <2>3, <2>4, <3>2, <3>4, TablesChange
  <2> QED
    BY <1>6, <2>5, <2>6 DEF StageCandidate, expireAutoSession, createAutoAliasCandidate
<1> QED
  BY <1>5, <1>6 DEF StageCandidate

\* Only a confirmation of an address born in this operation keeps the cursor.
LEMMA ConfirmsCandidate ==
    ASSUME HmeInv, NEW p \in Clients, ConfirmCandidate(p)
    PROVE  HmeInv'
<1> DEFINE a == ops[p].address
           view == [View EXCEPT !.sel = ops[p].view.sel]
<1> USE DEF appleVars, ghosts
<1>1. ops[p].pc \in Locked /\ At(p, "confirm") /\ ~At(p, "stage") /\ Confirming(ops[p])
         /\ UNCHANGED <<account, directory, missed, reserved, excused>>
         /\ (UNCHANGED session \/ session' = None \/ saveSession(ops[p].login))
  BY DEF ConfirmCandidate, Locked, At, Confirming, expireAutoSession
<1>2. accountLock = p /\ account.type = "icloud" /\ ops[p].login = account.email
         /\ a \in Pending(aliases) /\ DOMAIN ops[p] = DOMAIN Idle
         /\ (Fresh(p) /\ cursor => a \notin missed)
  BY <1>1, LockedKnows DEF HmeInv, OpInv, At
<1>3. SessionOfIdentity'
  BY <1>1, <1>2, SavedSession
<1>4. Shape /\ CapacityKept /\ CursorCoversPublished
  BY DEF HmeInv
<1>5. CASE Finish(p) /\ UNCHANGED <<aliases, cursor>>
  BY <1>1, <1>3, <1>5, QuietFinish DEF Tables
<1>6. CASE Finish(p) /\ confirmPendingAlias(a, view, Fresh(p))
  <2>1. PICK fresh \in BOOLEAN : fresh = Fresh(p)
    BY DEF Fresh
  <2> HIDE DEF view
  <2>2. confirmPendingAlias(a, view, fresh) /\ (cursor /\ fresh => a \notin missed)
    BY <1>2, <1>6, <2>1
  <2>3. /\ aliases' \in [Addresses -> {None} \cup Rows]
        /\ cursor' \in BOOLEAN /\ (cursor' => cursor)
        /\ \A b \in Addresses : aliases[b] # None => aliases'[b] # None
        /\ cursor' => Enabled(aliases') \cap missed = {}
        /\ Cardinality(Candidates(aliases')) <= MaxEnabled
    BY <1>2, <1>4, <2>2, Confirms
  <2> QED
    BY <1>1, <1>2, <1>3, <1>6, <2>3, Finished, TablesChange
<1>7. CASE Continue(p, [ops[p] EXCEPT !.reads = @ + 1])
             /\ UNCHANGED <<accountLock, aliases, cursor>>
  <2> DEFINE op == [ops[p] EXCEPT !.reads = @ + 1]
  <2>1. DOMAIN op = DOMAIN Idle /\ op.pc = "confirm" /\ op.address = a /\ op.sure = ops[p].sure
           /\ op.login = ops[p].login /\ op.view = ops[p].view
    BY <1>1, <1>2 DEF Idle, At
  <2>2. Continue(p, op)
    BY <1>7
  <2> HIDE DEF op
  <2>3. op.pc \in Locked \ {"stage"} /\ ~Reserving(op)
    BY <2>1 DEF Locked, Reserving
  <2>4. UNCHANGED Tables /\ accountLock' = p
    BY <1>1, <1>2, <1>7 DEF Tables
  <2> QED
    BY <1>1, <1>2, <1>3, <2>1, <2>2, <2>3, <2>4, LockedGoesOn
<1> QED
  BY <1>5, <1>6, <1>7 DEF ConfirmCandidate, expireAutoSession

-----------------------------------------------------------------------------
(* Everyone else.                                                           *)

\* What happens while nobody holds the account lock.
LEMMA UnlockedChange ==
    ASSUME HmeInv, accountLock = None, UNCHANGED ops, Shape', SessionOfIdentity',
           MissedWereGiven', CustomHasNoReserved', CursorCoversPublished', CapacityKept',
           UNCHANGED reserved,
           \A a \in reserved : \/ directory[a].status = "gone" => directory'[a].status = "gone"
                               \/ aliases'[a] # None \/ a \in excused',
           \A a \in reserved : aliases[a] # None =>
              aliases'[a] # None \/ directory'[a].status = "gone" \/ a \in excused',
           excused \subseteq excused'
    PROVE  HmeInv'
<1>1. ASSUME NEW p \in Clients PROVE OpInv(p)' /\ ~At(p, "stage")
  BY OthersKept, HmeAssumption DEF HmeInv, OpInv, Locked, At
<1>2. EveryReserveTracked'
  BY <1>1 DEF HmeInv, EveryReserveTracked
<1> QED
  BY <1>1, <1>2 DEF HmeInv

\* An alias is enabled into a free place, with its cursor dropped.
LEMMA SwitchesAlias ==
    ASSUME HmeInv, NEW a \in Addresses, adminAPIUpdateAlias(a)
    PROVE  HmeInv'
<1> USE DEF appleVars, ghosts
<1>1. /\ accountLock = None /\ aliases[a] # None /\ updateAliasState(a)
      /\ UNCHANGED <<account, session, directory, ops, missed, reserved, excused>>
  BY DEF adminAPIUpdateAlias, updateAliasState
<1>2. Shape /\ CapacityKept /\ CursorCoversPublished
  BY DEF HmeInv
<1>3. SessionOfIdentity'
  BY <1>1, SavedSession
<1>4. /\ aliases' \in [Addresses -> {None} \cup Rows] /\ cursor' \in BOOLEAN
      /\ cursor' => cursor /\ Enabled(aliases') \subseteq Enabled(aliases)
      /\ \A b \in Addresses : aliases[b] # None => aliases'[b] # None
      /\ account.type = "icloud" => Cardinality(Candidates(aliases')) <= MaxEnabled
  <2>1. CASE aliases' = [aliases EXCEPT ![a].enabled = FALSE] /\ UNCHANGED cursor
    <3>1. aliases[a] \in Rows
      BY <1>1, <1>2 DEF Shape
    <3>2. /\ [aliases[a] EXCEPT !.enabled = FALSE] \in Rows
          /\ ~[aliases[a] EXCEPT !.enabled = FALSE].enabled
          /\ [aliases[a] EXCEPT !.enabled = FALSE].mark = aliases[a].mark
      BY <3>1 DEF Rows
    <3>3. /\ aliases' \in [Addresses -> {None} \cup Rows]
          /\ aliases'[a] = [aliases[a] EXCEPT !.enabled = FALSE]
          /\ \A b \in Addresses \ {a} : aliases'[b] = aliases[b]
      BY <1>2, <2>1, <3>2 DEF Shape
    <3>4. /\ Enabled(aliases') \subseteq Enabled(aliases)
          /\ Pending(aliases') \subseteq Pending(aliases)
      BY <1>1, <3>2, <3>3 DEF Enabled, Pending
    <3>5. \A b \in Addresses : aliases[b] # None => aliases'[b] # None
      BY <3>2, <3>3, HmeAssumption
    <3>6. account.type = "icloud" => Cardinality(Candidates(aliases')) <= MaxEnabled
      BY <1>2, <3>4, FewerCandidates DEF CapacityKept, Candidates
    <3> QED
      BY <1>2, <2>1, <3>3, <3>4, <3>5, <3>6 DEF Shape
  <2>2. CASE HasCapacity(aliases) /\ aliases' = [aliases EXCEPT ![a] = Row(TRUE, "")]
               /\ cursor' = FALSE
    <3>1. /\ aliases' \in [Addresses -> {None} \cup Rows]
          /\ Enabled(aliases') = Enabled(aliases) \cup {a}
          /\ Pending(aliases') = Pending(aliases) \ {a}
          /\ \A b \in Addresses : aliases[b] # None => aliases'[b] # None
      BY <1>2, <2>2, EnabledRow DEF Shape
    <3>2. Candidates(aliases') \subseteq Candidates(aliases) \cup {a}
      BY <3>1 DEF Candidates
    <3>3. account.type = "icloud" => Cardinality(Candidates(aliases)) < MaxEnabled
      BY <2>2 DEF HasCapacity, Candidates
    <3> QED
      BY <2>2, <3>1, <3>2, <3>3, CandidatesFinite, OneMoreCandidate
  <2> QED
    BY <1>1, <2>1, <2>2 DEF updateAliasState
<1>5. CursorCoversPublished' /\ CapacityKept'
  BY <1>1, <1>2, <1>4 DEF CursorCoversPublished, CapacityKept, Candidates
<1>6. Shape' /\ MissedWereGiven' /\ CustomHasNoReserved'
  BY <1>1, <1>4 DEF HmeInv, Shape, MissedWereGiven, CustomHasNoReserved
<1>7. reserved \subseteq Addresses
  BY <1>2 DEF Shape
<1> QED
  BY <1>1, <1>3, <1>4, <1>5, <1>6, <1>7, UnlockedChange

\* A deleted row is gone at Apple, or the directory omits it.
LEMMA DeletesAlias ==
    ASSUME HmeInv, NEW a \in Addresses, DeleteAlias(a)
    PROVE  HmeInv'
<1> USE DEF appleVars
<1>1. /\ accountLock = None /\ account.type = "icloud" /\ session # None
      /\ UNCHANGED <<account, cursor, ops, missed, reserved>>
      /\ saveSession(session.login) \/ session' = None
  BY DEF DeleteAlias
<1>2. Shape /\ CapacityKept /\ CursorCoversPublished
  BY DEF HmeInv
<1>3. SessionOfIdentity'
  <2>1. session.login = account.email
    BY <1>1 DEF HmeInv, SessionOfIdentity
  <2> QED
    BY <1>1, <2>1, SavedSession
<1>4. /\ DOMAIN directory' = Addresses
      /\ \A b \in Addresses :
            /\ DOMAIN directory'[b] = {"status", "target"}
            /\ directory[b].status = "gone" => directory'[b].status = "gone"
            /\ directory[b].status # "free" => directory'[b].status # "free"
  <2>1. ASSUME NEW status \in {"inactive", "gone"}, mutateAlias(a, status), a \in Listed(directory)
        PROVE  /\ DOMAIN directory' = Addresses
               /\ \A b \in Addresses :
                     /\ DOMAIN directory'[b] = {"status", "target"}
                     /\ directory[b].status = "gone" => directory'[b].status = "gone"
                     /\ directory[b].status # "free" => directory'[b].status # "free"
    BY <1>2, <2>1 DEF mutateAlias, Shape, Listed
  <2>2. a \in filterAliases(View) => a \in Listed(directory)
    BY DEF filterAliases, View
  <2>3. CASE UNCHANGED directory
    BY <1>2, <2>3 DEF Shape
  <2> QED
    BY <2>1, <2>2, <2>3 DEF DeleteAlias
<1>5. UNCHANGED aliases \/ aliases' = [aliases EXCEPT ![a] = None]
  BY DEF DeleteAlias
<1>6. /\ aliases' \in [Addresses -> {None} \cup Rows]
      /\ Enabled(aliases') \subseteq Enabled(aliases)
      /\ Pending(aliases') \subseteq Pending(aliases)
      /\ \A b \in Addresses \ {a} : aliases'[b] = aliases[b]
  BY <1>2, <1>5, RemovedRow DEF Shape
<1>7. aliases'[a] # aliases[a] => a \in excused' \/ directory'[a].status = "gone"
  BY <1>2 DEF DeleteAlias, mutateAlias, Shape
<1>8. Candidates(aliases') \subseteq Candidates(aliases)
  BY <1>6 DEF Candidates
<1>9. CapacityKept' /\ CursorCoversPublished' /\ CustomHasNoReserved'
  <2>1. Cardinality(Candidates(aliases')) <= MaxEnabled
    BY <1>1, <1>2, <1>8, FewerCandidates DEF CapacityKept, Candidates
  <2> QED
    BY <1>1, <1>2, <1>6, <2>1
       DEF CapacityKept, CursorCoversPublished, CustomHasNoReserved, Candidates
<1>10. Shape' /\ MissedWereGiven'
  BY <1>1, <1>2, <1>4, <1>6 DEF HmeInv, Shape, MissedWereGiven
<1>11. reserved \subseteq Addresses /\ excused \subseteq excused'
  BY <1>2 DEF Shape, DeleteAlias
<1> QED
  BY <1>1, <1>3, <1>4, <1>6, <1>7, <1>9, <1>10, <1>11, UnlockedChange

\* A custom mailbox has neither a limit nor addresses that Apple keeps for us.
LEMMA CustomMailboxChanges ==
    ASSUME HmeInv,
           \/ \E a \in Addresses : registerManualAlias(a) \/ adminAPIDeleteCustomAlias(a)
           \/ \E batch \in SUBSET Addresses \ {{}} : adminAPICreateRandomAliases(batch)
    PROVE  HmeInv'
<1> USE DEF appleVars, ghosts
<1>1. /\ accountLock = None /\ account.type = "custom"
      /\ UNCHANGED <<account, session, directory, ops, missed, reserved, excused>>
  BY DEF registerManualAlias, adminAPIDeleteCustomAlias, adminAPICreateRandomAliases,
         CustomMailbox
<1>2. Shape /\ CapacityKept /\ CursorCoversPublished /\ CustomHasNoReserved
  BY DEF HmeInv
<1>3. aliases' \in [Addresses -> {None} \cup Rows] /\ cursor' \in BOOLEAN /\ CursorCoversPublished'
  <2>1. ASSUME NEW a \in Addresses, registerManualAlias(a)
        PROVE  aliases' \in [Addresses -> {None} \cup Rows] /\ cursor' \in BOOLEAN
                 /\ CursorCoversPublished'
    BY <1>1, <1>2, <2>1, CreatesRow DEF registerManualAlias, CursorCoversPublished
  <2>2. ASSUME NEW a \in Addresses, adminAPIDeleteCustomAlias(a)
        PROVE  aliases' \in [Addresses -> {None} \cup Rows] /\ cursor' \in BOOLEAN
                 /\ CursorCoversPublished'
    <3>1. aliases' = [aliases EXCEPT ![a] = None] /\ UNCHANGED cursor
      BY <2>2 DEF adminAPIDeleteCustomAlias
    <3> QED
      BY <1>1, <1>2, <3>1, RemovedRow DEF Shape, CursorCoversPublished
  <2>3. ASSUME NEW batch \in SUBSET Addresses, adminAPICreateRandomAliases(batch)
        PROVE  aliases' \in [Addresses -> {None} \cup Rows] /\ cursor' \in BOOLEAN
                 /\ CursorCoversPublished'
    <3>1. Row(TRUE, "") \in Rows
      BY RowShape
    <3> QED
      BY <1>2, <2>3, <3>1 DEF adminAPICreateRandomAliases, CursorCoversPublished, Shape
  <2> QED
    BY <2>1, <2>2, <2>3
<1>4. SessionOfIdentity'
  BY <1>1, SavedSession
<1>5. Shape' /\ MissedWereGiven' /\ CustomHasNoReserved' /\ CapacityKept'
  BY <1>1, <1>2, <1>3 DEF Shape, MissedWereGiven, CustomHasNoReserved, CapacityKept
<1> QED
  BY <1>1, <1>2, <1>3, <1>4, <1>5, UnlockedChange DEF CustomHasNoReserved

\* An account that changes its address or its type has no rows, and one that
\* becomes an iCloud account has no cursor.
LEMMA AccountChanges ==
    ASSUME HmeInv, adminAPIUpdateAccount
    PROVE  HmeInv'
<1> USE DEF appleVars, ghosts
<1>1. /\ accountLock = None
      /\ UNCHANGED <<directory, ops, missed, reserved, excused>>
  BY DEF adminAPIUpdateAccount
<1>2. PICK new \in [email : 1..2, user : 1..2, type : {"icloud", "custom"}, on : BOOLEAN] :
         /\ account.type = "custom" /\ new.type = "icloud" => new.email # account.email
         /\ UpdateAccount(new)
  BY DEF adminAPIUpdateAccount
<1> DEFINE moved == new.email # account.email \/ new.type # account.type
           reset == \/ new.email # account.email \/ new.user # account.user
                    \/ (new.on /\ ~account.on)
<1>3. /\ moved => \A a \in Addresses : aliases[a] = None
      /\ account' = new
      /\ session' = IF moved THEN None ELSE session
      /\ cursor' = (cursor /\ ~reset)
      /\ aliases' = [a \in Addresses |->
            IF reset /\ aliases[a] # None /\ aliases[a].mark = "inactive"
              THEN [aliases[a] EXCEPT !.mark = ""] ELSE aliases[a]]
  BY <1>2 DEF UpdateAccount
<1>4. new.type \in {"icloud", "custom"}
  BY <1>2
<1>5. Shape /\ CapacityKept /\ CursorCoversPublished /\ CustomHasNoReserved /\ MissedWereGiven
  BY DEF HmeInv
<1>6. SessionOfIdentity'
  BY <1>3 DEF HmeInv, SessionOfIdentity
<1>7. ASSUME NEW a \in Addresses
      PROVE  \/ aliases[a] = None /\ aliases'[a] = None
             \/ /\ aliases[a] \in Rows /\ aliases'[a] \in Rows
                /\ aliases'[a].enabled = aliases[a].enabled
                /\ aliases'[a].mark = "pending" <=> aliases[a].mark = "pending"
  <2>1. CASE aliases'[a] = aliases[a]
    BY <1>5, <2>1 DEF Shape
  <2>2. CASE aliases[a] \in Rows /\ aliases[a].mark = "inactive"
               /\ aliases'[a] = [aliases[a] EXCEPT !.mark = ""]
    BY <2>2, MarkedRow
  <2> QED
    BY <1>3, <1>5, <2>1, <2>2 DEF Shape
<1>8. aliases' \in [Addresses -> {None} \cup Rows]
  BY <1>3, <1>7
<1>9. Enabled(aliases') = Enabled(aliases) /\ Pending(aliases') = Pending(aliases)
  BY <1>7, HmeAssumption DEF Enabled, Pending
<1>10. CapacityKept'
  <2>1. CASE new.type = account.type
    BY <1>3, <1>5, <1>9, <2>1 DEF CapacityKept
  <2>2. CASE new.type # account.type
    <3>1. Enabled(aliases') = {} /\ Pending(aliases') = {}
      BY <1>3, <1>9, <2>2 DEF Enabled, Pending
    <3> QED
      BY <3>1, FS_EmptySet, HmeAssumption DEF CapacityKept
  <2> QED
    BY <2>1, <2>2
<1>11. CustomHasNoReserved'
  <2>1. CASE moved
    <3>1. \A p \in Clients : ~At(p, "stage")
      BY <1>1, HmeAssumption DEF HmeInv, OpInv, Locked, At
    <3> QED
      BY <1>1, <1>3, <1>5, <2>1, <3>1
         DEF HmeInv, EveryReserveTracked, CustomHasNoReserved, Shape
  <2>2. CASE ~moved
    BY <1>1, <1>3, <1>5, <2>2 DEF CustomHasNoReserved
  <2> QED
    BY <2>1, <2>2
<1>12. MissedWereGiven' /\ CursorCoversPublished' /\ Shape'
  BY <1>1, <1>2, <1>3, <1>4, <1>5, <1>8, <1>9
     DEF MissedWereGiven, CursorCoversPublished, Shape
<1>13. \A a \in reserved : aliases[a] # None => aliases'[a] # None
  BY <1>5, <1>7, HmeAssumption DEF Shape
<1> HIDE DEF moved, reset
<1> QED
  BY <1>1, <1>6, <1>10, <1>11, <1>12, <1>13, UnlockedChange

\* A scan of the whole mailbox forgets what was missed but for the addresses that
\* are not enabled.
LEMMA SyncsMailbox ==
    ASSUME HmeInv, SyncMailbox
    PROVE  HmeInv'
<1> DEFINE passed == {a \in Addresses : account.type = "custom" \/ directory[a].status # "free"}
                     \ Enabled(aliases)
<1> USE DEF appleVars
<1>1. /\ accountLock = None /\ cursor' = TRUE
      /\ missed' = IF cursor THEN missed \cup passed ELSE passed
      /\ UNCHANGED <<account, session, aliases, directory, ops, reserved, excused>>
  BY DEF SyncMailbox
<1>2. SessionOfIdentity'
  BY <1>1, SavedSession
<1>3. Shape' /\ MissedWereGiven' /\ CustomHasNoReserved' /\ CapacityKept'
  BY <1>1 DEF HmeInv, Shape, MissedWereGiven, CustomHasNoReserved, CapacityKept
<1>4. CursorCoversPublished'
  BY <1>1 DEF HmeInv, CursorCoversPublished
<1> HIDE DEF passed
<1> QED
  BY <1>1, <1>2, <1>3, <1>4, UnlockedChange

\* What time and the user do to the directory while an operation is under way.
LEMMA DirectoryChanges ==
    ASSUME HmeInv, TimePasses \/ UserActsAtApple \/ ChallengeExpires
    PROVE  HmeInv'
<1> USE DEF appleVars, ghosts
<1>1. UNCHANGED <<account, session, cursor, accountLock, ops, missed, reserved, excused>>
  BY DEF TimePasses, UserActsAtApple, ChallengeExpires
<1>2. Shape
  BY DEF HmeInv
<1>3. /\ DOMAIN directory' = Addresses
      /\ \A b \in Addresses :
            /\ DOMAIN directory'[b] = {"status", "target"}
            /\ directory[b].status = "gone" => directory'[b].status = "gone"
            /\ directory[b].status # "free" => directory'[b].status # "free"
  BY <1>2 DEF TimePasses, UserActsAtApple, ChallengeExpires, Shape, Listed
<1>4. /\ aliases' \in [Addresses -> {None} \cup Rows]
      /\ Enabled(aliases') = Enabled(aliases) /\ Pending(aliases') = Pending(aliases)
      /\ \A a \in Addresses : aliases[a] # None => aliases'[a] # None
  <2>1. CASE UNCHANGED aliases
    BY <1>2, <2>1 DEF Shape
  <2>2. ASSUME NEW a \in Pending(aliases), aliases' = [aliases EXCEPT ![a].late = TRUE]
        PROVE  /\ aliases' \in [Addresses -> {None} \cup Rows]
               /\ Enabled(aliases') = Enabled(aliases) /\ Pending(aliases') = Pending(aliases)
               /\ \A b \in Addresses : aliases[b] # None => aliases'[b] # None
    <3>1. a \in Addresses /\ aliases[a] \in Rows
      BY <1>2 DEF Pending, Shape
    <3>2. /\ [aliases[a] EXCEPT !.late = TRUE] \in Rows
          /\ [aliases[a] EXCEPT !.late = TRUE].enabled = aliases[a].enabled
          /\ [aliases[a] EXCEPT !.late = TRUE].mark = aliases[a].mark
      BY <3>1 DEF Rows
    <3>3. /\ aliases' \in [Addresses -> {None} \cup Rows]
          /\ aliases'[a] = [aliases[a] EXCEPT !.late = TRUE]
          /\ \A b \in Addresses \ {a} : aliases'[b] = aliases[b]
      BY <1>2, <2>2, <3>1, <3>2 DEF Shape
    <3>4. aliases[a] # None /\ aliases'[a] # None
      BY <3>1, <3>2, <3>3, HmeAssumption
    <3>5. \A b \in Addresses : /\ aliases[b] # None <=> aliases'[b] # None
                             /\ aliases'[b].enabled = aliases[b].enabled
                             /\ aliases'[b].mark = aliases[b].mark
      BY <3>2, <3>3, <3>4
    <3>6. Enabled(aliases') = Enabled(aliases) /\ Pending(aliases') = Pending(aliases)
      BY <3>5 DEF Enabled, Pending
    <3> QED
      BY <3>3, <3>5, <3>6
  <2> QED
    BY <2>1, <2>2 DEF TimePasses, UserActsAtApple, ChallengeExpires
<1>5. ASSUME NEW p \in Clients PROVE OpInv(p)'
  BY <1>1, <1>4 DEF HmeInv, OpInv, At, Fresh, Listed, Confirming, Reserving
<1>6. Shape'
  BY <1>1, <1>2, <1>3, <1>4 DEF Shape
<1>7. MissedWereGiven' /\ CustomHasNoReserved' /\ CursorCoversPublished' /\ CapacityKept'
         /\ SessionOfIdentity'
  BY <1>1, <1>2, <1>3, <1>4
     DEF HmeInv, MissedWereGiven, CustomHasNoReserved, CursorCoversPublished, CapacityKept,
         SessionOfIdentity, Shape
<1>8. EveryReserveTracked'
  BY <1>1, <1>2, <1>3, <1>4 DEF HmeInv, EveryReserveTracked, Shape, At
<1> QED
  BY <1>5, <1>6, <1>7, <1>8 DEF HmeInv

\* A crash ends every operation; what it was about to stage counts as lost.
LEMMA Crashes ==
    ASSUME HmeInv, CrashHme
    PROVE  HmeInv'
<1> USE DEF appleVars
<1>1. /\ ops' = [p \in Clients |-> Idle]
      /\ excused' = excused \cup {ops[p].address : p \in {q \in Clients : At(q, "stage")}}
      /\ UNCHANGED <<account, session, aliases, cursor, directory, missed, reserved>>
  BY DEF CrashHme
<1>2. ASSUME NEW p \in Clients PROVE OpInv(p)'
  BY <1>1 DEF OpInv, Idle, Reading, Locked, At, Confirming, Reserving
<1>3. EveryReserveTracked'
  BY <1>1 DEF HmeInv, EveryReserveTracked
<1>4. Shape' /\ MissedWereGiven' /\ CustomHasNoReserved' /\ CursorCoversPublished' /\ CapacityKept'
         /\ SessionOfIdentity'
  BY <1>1
     DEF HmeInv, MissedWereGiven, CustomHasNoReserved, CursorCoversPublished, CapacityKept,
         SessionOfIdentity, Shape
<1> QED
  BY <1>2, <1>3, <1>4 DEF HmeInv

\* A stuttering step changes nothing the invariant speaks of.
LEMMA HmeStutters ==
    ASSUME HmeInv, UNCHANGED hmeVars
    PROVE  HmeInv'
<1>1. ASSUME NEW p \in Clients PROVE OpInv(p)'
  BY DEF hmeVars, HmeInv, OpInv, At, Fresh, Listed, Confirming, Reserving
<1> QED
  BY <1>1
     DEF hmeVars, HmeInv, Shape, SessionOfIdentity, MissedWereGiven, CustomHasNoReserved,
         EveryReserveTracked, At, CursorCoversPublished, CapacityKept

-----------------------------------------------------------------------------
\* Every step of the service, of Apple, of the user or of an administrator keeps
\* the invariant.
THEOREM HmeInductive == HmeInv /\ [NextHme]_hmeVars => HmeInv'
<1> SUFFICES ASSUME HmeInv, [NextHme]_hmeVars PROVE HmeInv'
  OBVIOUS
<1>1. ASSUME NEW p \in Clients, Request(p) PROVE HmeInv'
  <2>1. SyncAliases(p) \/ (\E a \in Addresses : RegisterExistingAlias(p, a))
           \/ (\E t \in {None, "own", "other"} : forwardingSettings(p, t)) => HmeInv'
    BY BeginsReading DEF SyncAliases, RegisterExistingAlias, forwardingSettings
  <2> QED
    BY <1>1, <2>1, CustomMailboxChanges, SignsIn, BeginsCreation DEF Request
<1>2. ASSUME NEW p \in Clients, Step(p) PROVE HmeInv'
  BY <1>2, SignsIn, ReadsDirectory, PublishesDirectory, PublishesRegistration, SelectsForwarding,
     BeginsCreation, Reconciles, PreparesReserve, Reserves, Stages, ConfirmsCandidate DEF Step
<1>3. CASE Others
  BY <1>3, SwitchesAlias, DeletesAlias, CustomMailboxChanges, AccountChanges, SyncsMailbox,
     DirectoryChanges, Crashes DEF Others
<1>4. CASE UNCHANGED hmeVars
  BY <1>4, HmeStutters
<1> QED
  BY <1>1, <1>2, <1>3, <1>4 DEF NextHme

\* The invariant holds throughout every behaviour of the service.
THEOREM HmeInvariant == HmeSpec => []HmeInv
  BY HmeInitially, HmeInductive, PTL DEF HmeSpec

\* No address that CreateAutoAlias reserved is dropped silently, however its
\* answer, its session or its write failed and whatever others did meanwhile.
THEOREM EveryReserveTrackedHolds == HmeSpec => []EveryReserveTracked
<1>1. HmeInv => EveryReserveTracked
  BY DEF HmeInv
<1> QED
  BY <1>1, HmeInvariant, PTL

\* A stored Apple session is one of the configured account (persistSession, and
\* the checks under the account lock).
THEOREM SessionOfIdentityHolds == HmeSpec => []SessionOfIdentity
<1>1. HmeInv => SessionOfIdentity
  BY DEF HmeInv
<1> QED
  BY <1>1, HmeInvariant, PTL

\* No enabled alias lacks mail that arrived before it was enabled, although
\* ConfirmFreshAutoAlias keeps the cursor.
THEOREM CursorCoversPublishedHolds == HmeSpec => []CursorCoversPublished
<1>1. HmeInv => CursorCoversPublished
  BY DEF HmeInv
<1> QED
  BY <1>1, HmeInvariant, PTL

\* Imports, switches, registrations and candidates together keep the limit of
\* aliases, for any limit.
THEOREM CapacityKeptHolds == HmeSpec => []CapacityKept
<1>1. HmeInv => CapacityKept
  BY DEF HmeInv
<1> QED
  BY <1>1, HmeInvariant, PTL
=============================================================================
