------------------------- MODULE SyncSchedulerProofs -------------------------
(***************************************************************************)
(* Proofs about the sync scheduler, for every number of accounts, slots,   *)
(* retries and requests: its keyed locks and slots implement AccountMutex, *)
(* the status it shows is honest, and the database outlives every owner.   *)
(*                                                                         *)
(* For the locks every step is one of seven (StepKinds): a process joins   *)
(* the queue of its account, takes the token, finds the account free,      *)
(* gives up, releases, connects, or moves outside of them.  LockInv ties   *)
(* the references of a lock object to the processes between "lock" and     *)
(* "work", so that the last of them is the one that removes it.            *)
(***************************************************************************)
EXTENDS SyncScheduler, TLAPS, FiniteSetTheorems

Where == {"idle", "start", "try", "wait", "lock", "slot", "work", "finish"}
Inside == {"lock", "slot", "work"}
Refers(p) == at[p] \in Inside
Referrers(r, l) == {p \in Procs : r[p] = l}

LockType ==
    /\ locks \in [Accounts -> LockIds \cup {NoLock}]
    /\ refs \in [LockIds -> Nat]
    /\ token \in [LockIds -> BOOLEAN]
    /\ ref \in [Procs -> LockIds \cup {NoLock}]
    /\ at \in [Procs -> Where]

\* Whoever waits for or has an account refers to the object the map has for it.
RefersToAccount ==
    \A p \in Procs :
        /\ ref[p] # NoLock <=> Refers(p)
        /\ Refers(p) => AccountOf(p) \in Accounts /\ locks[AccountOf(p)] = ref[p]

\* An object is in the map for one account, and only while somebody refers to it.
MapHasReferenced ==
    /\ \A a, b \in Accounts : locks[a] # NoLock /\ locks[a] = locks[b] => a = b
    /\ \A a \in Accounts : locks[a] # NoLock => refs[locks[a]] # 0
    /\ \A l \in LockIds : refs[l] = Cardinality(Referrers(ref, l))

\* The token of an object is out while one process holds it.
OneHolder ==
    /\ \A p \in Holders : token[ref[p]]
    /\ \A p, q \in Holders : ref[p] = ref[q] => p = q

LockInv == LockType /\ RefersToAccount /\ MapHasReferenced /\ OneHolder

-----------------------------------------------------------------------------
(* What a step does to the locks.                                          *)
Leaves(p) == \E w \in Where \ Inside : Go(p, w)

EnqueueStep(p) ==
    /\ at[p] \in {"wait", "start"} /\ AccountOf(p) \in Accounts
    /\ Enqueue(p, AccountOf(p)) /\ Go(p, "lock") /\ UNCHANGED request
TakeStep(p) ==
    /\ at[p] = "lock"
    /\ TakeToken(p) /\ Go(p, IF p = Request THEN "work" ELSE "slot") /\ UNCHANGED request
TryStep(p) ==
    /\ at[p] = "try" /\ p # Request /\ AccountOf(p) \in Accounts /\ ~Busy(AccountOf(p))
    /\ TryAcquire(p, AccountOf(p)) /\ Go(p, "slot") /\ UNCHANGED request
GiveUpStep(p) ==
    /\ at[p] = "lock" /\ GiveUp(p) /\ Leaves(p)
    /\ p # Request => UNCHANGED request
ReleaseStep(p) ==
    /\ at[p] \in {"slot", "work"} /\ Release(p) /\ Leaves(p)
    /\ p # Request => UNCHANGED request
ConnectStep(p) ==
    /\ at[p] = "slot" /\ p # Request /\ SlotFree
    /\ Go(p, "work") /\ UNCHANGED <<lockVars, request>>
OutsideStep ==
    /\ UNCHANGED lockVars
    /\ at' \in [Procs -> Where]
    /\ \A p \in Procs : at'[p] = at[p] \/ (~Refers(p) /\ ~Refers(p)')
    /\ Refers(Request) => UNCHANGED request

LockStep ==
    \/ \E p \in Procs : EnqueueStep(p) \/ TakeStep(p) \/ TryStep(p) \/ GiveUpStep(p)
                        \/ ReleaseStep(p) \/ ConnectStep(p)
    \/ OutsideStep

-----------------------------------------------------------------------------
\* The account of a process is fixed but for the request's.
LEMMA AccountOfFixed ==
    ASSUME NEW p \in Procs, p # Request \/ UNCHANGED request
    PROVE  AccountOf(p)' = AccountOf(p)
  BY DEF AccountOf

\* There are as many objects as processes, so one that needs one finds one.
LEMMA NewLockIsFree ==
    ASSUME LockInv, NEW p \in Procs, ref[p] = NoLock
    PROVE  NewLock \in LockIds /\ refs[NewLock] = 0
<1> USE LockAssumption DEF LockInv, LockType
<1>1. ASSUME \A l \in LockIds : refs[l] # 0
      PROVE  FALSE
  <2> DEFINE S == {q \in Procs : ref[q] \in LockIds}
             f == [q \in S |-> ref[q]]
  <2>1. S \subseteq Procs \ {p}
    OBVIOUS
  <2>2. /\ IsFiniteSet(Procs \ {p}) /\ Cardinality(Procs \ {p}) = Cardinality(Procs) - 1
        /\ Cardinality(Procs) \in Nat
    BY LockSupply, FS_RemoveElement, FS_CardinalityType
  <2>3. IsFiniteSet(S) /\ Cardinality(S) <= Cardinality(Procs) - 1 /\ Cardinality(S) \in Nat
    BY <2>1, <2>2, FS_Subset, FS_CardinalityType
  <2>4. ASSUME NEW l \in LockIds PROVE \E q \in S : f[q] = l
    <3>1. Referrers(ref, l) # {}
      BY <1>1, FS_EmptySet DEF MapHasReferenced
    <3> QED
      BY <3>1 DEF Referrers
  <2>5. f \in Surjection(S, LockIds)
    BY <2>4 DEF Surjection
  <2>6. IsFiniteSet(LockIds) /\ Cardinality(LockIds) <= Cardinality(S)
    BY <2>3, <2>5, FS_Surjection
  <2>7. Cardinality(LockIds) \in Nat
    BY <2>6, FS_CardinalityType
  <2> QED
    BY <2>2, <2>3, <2>6, <2>7, LockSupply
<1> QED
  BY <1>1, Zenon DEF NewLock

\* A reference taken or dropped changes the count of its object by one.
LEMMA ReferenceTaken ==
    ASSUME LockInv, NEW p \in Procs, NEW l \in LockIds, ref[p] = NoLock,
           ref' = [ref EXCEPT ![p] = l]
    PROVE  /\ Cardinality(Referrers(ref', l)) = Cardinality(Referrers(ref, l)) + 1
           /\ \A k \in LockIds \ {l} : Referrers(ref', k) = Referrers(ref, k)
           /\ Cardinality(Referrers(ref, l)) \in Nat
<1> USE LockAssumption DEF LockInv, LockType, Referrers
<1>1. Referrers(ref', l) = Referrers(ref, l) \cup {p} /\ p \notin Referrers(ref, l)
  OBVIOUS
<1>2. IsFiniteSet(Referrers(ref, l))
  BY LockSupply, FS_Subset
<1>3. \A k \in LockIds \ {l} : Referrers(ref', k) = Referrers(ref, k)
  OBVIOUS
<1> HIDE DEF Referrers
<1> QED
  BY <1>1, <1>2, <1>3, FS_AddElement, FS_CardinalityType

LEMMA ReferenceDropped ==
    ASSUME LockInv, NEW p \in Procs, NEW l \in LockIds, ref[p] = l,
           ref' = [ref EXCEPT ![p] = NoLock]
    PROVE  /\ Cardinality(Referrers(ref', l)) = Cardinality(Referrers(ref, l)) - 1
           /\ \A k \in LockIds \ {l} : Referrers(ref', k) = Referrers(ref, k)
           /\ Cardinality(Referrers(ref, l)) \in Nat \ {0}
           /\ Cardinality(Referrers(ref, l)) = 1 => Referrers(ref, l) = {p}
<1> USE LockAssumption DEF LockInv, LockType, Referrers
<1>1. Referrers(ref', l) = Referrers(ref, l) \ {p} /\ p \in Referrers(ref, l)
  OBVIOUS
<1>2. IsFiniteSet(Referrers(ref, l))
  BY LockSupply, FS_Subset
<1>3. \A k \in LockIds \ {l} : Referrers(ref', k) = Referrers(ref, k)
  OBVIOUS
<1> HIDE DEF Referrers
<1>4. Cardinality(Referrers(ref, l)) \in Nat /\ Cardinality(Referrers(ref, l)) # 0
  BY <1>1, <1>2, FS_CardinalityType, FS_EmptySet
<1>5. Cardinality(Referrers(ref, l)) = 1 => Referrers(ref, l) = {p}
  BY <1>1, <1>2, FS_Singleton
<1>6. Cardinality(Referrers(ref', l)) = Cardinality(Referrers(ref, l)) - 1
  BY ZenonT(40), <1>1, <1>2, FS_RemoveElement
<1> QED
  BY <1>3, <1>4, <1>5, <1>6

-----------------------------------------------------------------------------
LEMMA EnqueueKeepsLocks ==
    ASSUME LockInv, NEW p \in Procs, EnqueueStep(p)
    PROVE  LockInv'
<1> USE LockAssumption
<1> DEFINE a == AccountOf(p)
           l == IF locks[a] = NoLock THEN NewLock ELSE locks[a]
<1>1. /\ a \in Accounts /\ at[p] \in {"wait", "start"}
      /\ locks' = [locks EXCEPT ![a] = l] /\ refs' = [refs EXCEPT ![l] = @ + 1]
      /\ ref' = [ref EXCEPT ![p] = l] /\ token' = token
      /\ at' = [at EXCEPT ![p] = "lock"] /\ request' = request
  BY DEF EnqueueStep, Enqueue, Go
<1>2. ref[p] = NoLock /\ ~Refers(p)
  BY <1>1 DEF LockInv, RefersToAccount, Refers, Inside
<1>3. /\ l \in LockIds
      /\ locks[a] = NoLock => refs[l] = 0
      /\ locks[a] # NoLock => l = locks[a]
  BY <1>1, <1>2, NewLockIsFree DEF LockInv, LockType
<1> HIDE DEF a, l
<1>4. LockType'
  BY <1>1, <1>3 DEF LockInv, LockType, Where
<1>5. \A q \in Procs : AccountOf(q)' = AccountOf(q)
  BY <1>1, AccountOfFixed
<1>6. \A b \in Accounts \ {a} : locks[b] # l
  BY <1>1, <1>3 DEF LockInv, MapHasReferenced
<1>7. RefersToAccount'
  <2>1. ASSUME NEW q \in Procs, q # p
        PROVE  /\ ref'[q] = ref[q] /\ Refers(q)' = Refers(q)
               /\ Refers(q) => locks'[AccountOf(q)] = locks[AccountOf(q)]
    <3>1. ref'[q] = ref[q] /\ Refers(q)' = Refers(q)
      BY <1>1, <2>1 DEF LockInv, LockType, Refers
    <3>2. ASSUME Refers(q), AccountOf(q) = a PROVE l = locks[a]
      BY <1>3, <3>2 DEF LockInv, RefersToAccount
    <3> QED
      BY <1>1, <3>1, <3>2 DEF LockInv, LockType, RefersToAccount
  <2>2. ref'[p] = l /\ Refers(p)' /\ locks'[a] = l
    BY <1>1 DEF LockInv, LockType, Refers, Inside
  <2> QED
    BY <1>1, <1>3, <1>5, <2>1, <2>2 DEF LockInv, RefersToAccount, a
<1>8. MapHasReferenced'
  <2>1. /\ Cardinality(Referrers(ref', l)) = Cardinality(Referrers(ref, l)) + 1
        /\ \A k \in LockIds \ {l} : Referrers(ref', k) = Referrers(ref, k)
        /\ Cardinality(Referrers(ref, l)) \in Nat
    BY <1>1, <1>2, <1>3, ReferenceTaken
  <2>2. \A k \in LockIds : refs'[k] = Cardinality(Referrers(ref', k))
    BY <1>1, <1>3, <2>1 DEF LockInv, LockType, MapHasReferenced
  <2>3. \A b \in Accounts : locks'[b] # NoLock => refs'[locks'[b]] # 0
    BY <1>1, <1>3, <1>6 DEF LockInv, LockType, MapHasReferenced
  <2>4. \A b, c \in Accounts : locks'[b] # NoLock /\ locks'[b] = locks'[c] => b = c
    BY <1>1, <1>6 DEF LockInv, LockType, MapHasReferenced
  <2> QED
    BY <2>2, <2>3, <2>4 DEF MapHasReferenced
<1>9. OneHolder'
  <2>1. Holders' = Holders /\ \A q \in Holders : ref'[q] = ref[q]
    BY <1>1 DEF Holders, LockInv, LockType
  <2> QED
    BY <1>1, <2>1 DEF LockInv, OneHolder
<1> QED
  BY <1>4, <1>7, <1>8, <1>9 DEF LockInv

LEMMA TakeKeepsLocks ==
    ASSUME LockInv, NEW p \in Procs, TakeStep(p)
    PROVE  LockInv'
<1> USE LockAssumption
<1> DEFINE w == IF p = Request THEN "work" ELSE "slot"
<1>1. /\ at[p] = "lock" /\ ~token[ref[p]] /\ token' = [token EXCEPT ![ref[p]] = TRUE]
      /\ UNCHANGED <<locks, refs, ref, request>> /\ at' = [at EXCEPT ![p] = w]
      /\ w \in {"slot", "work"}
  BY DEF TakeStep, TakeToken, Go
<1> HIDE DEF w
<1>2. Refers(p) /\ ref[p] \in LockIds
  BY <1>1 DEF LockInv, LockType, RefersToAccount, Refers, Inside
<1>3. LockType'
  BY <1>1, <1>2 DEF LockInv, LockType, Where
<1>4. RefersToAccount'
  <2>1. \A q \in Procs : AccountOf(q)' = AccountOf(q) /\ Refers(q)' = Refers(q)
    BY <1>1, AccountOfFixed DEF LockInv, LockType, Refers, Inside
  <2> QED
    BY <1>1, <2>1 DEF LockInv, RefersToAccount
<1>5. MapHasReferenced'
  BY <1>1 DEF LockInv, MapHasReferenced, Referrers
<1>6. OneHolder'
  <2>1. Holders' = Holders \cup {p}
    BY <1>1 DEF Holders, LockInv, LockType
  <2>2. \A q \in Holders : ref[q] # ref[p]
    BY <1>1 DEF LockInv, OneHolder
  <2>3. \A q \in Holders : ref[q] \in LockIds
    BY DEF LockInv, LockType, RefersToAccount, Holders, Refers, Inside
  <2> QED
    BY <1>1, <1>2, <2>1, <2>2, <2>3 DEF LockInv, LockType, OneHolder
<1> QED
  BY <1>3, <1>4, <1>5, <1>6 DEF LockInv

LEMMA TryKeepsLocks ==
    ASSUME LockInv, NEW p \in Procs, TryStep(p)
    PROVE  LockInv'
<1> USE LockAssumption
<1> DEFINE a == AccountOf(p)
           l == NewLock
<1>1. /\ a \in Accounts /\ at[p] = "try" /\ locks[a] = NoLock
      /\ locks' = [locks EXCEPT ![a] = l] /\ refs' = [refs EXCEPT ![l] = 1]
      /\ ref' = [ref EXCEPT ![p] = l] /\ token' = [token EXCEPT ![l] = TRUE]
      /\ at' = [at EXCEPT ![p] = "slot"] /\ request' = request
  BY DEF TryStep, TryAcquire, Busy, Go
<1>2. ref[p] = NoLock /\ ~Refers(p)
  BY <1>1 DEF LockInv, RefersToAccount, Refers, Inside
<1>3. l \in LockIds /\ refs[l] = 0
  BY <1>2, NewLockIsFree
<1> HIDE DEF a, l
<1>4. LockType'
  BY <1>1, <1>3 DEF LockInv, LockType, Where
<1>5. \A q \in Procs : AccountOf(q)' = AccountOf(q)
  BY <1>1, AccountOfFixed
<1>6. \A b \in Accounts : locks[b] # l
  BY <1>1, <1>3 DEF LockInv, MapHasReferenced
<1>7. \A q \in Procs : Refers(q) => AccountOf(q) # a /\ ref[q] # l
  BY <1>1, <1>6 DEF LockInv, RefersToAccount
<1>8. RefersToAccount'
  <2>1. \A q \in Procs \ {p} : ref'[q] = ref[q] /\ Refers(q)' = Refers(q)
    BY <1>1 DEF LockInv, LockType, Refers
  <2>2. ref'[p] = l /\ Refers(p)' /\ locks'[a] = l
    BY <1>1 DEF LockInv, LockType, Refers, Inside
  <2>3. \A q \in Procs \ {p} : Refers(q) => locks'[AccountOf(q)] = locks[AccountOf(q)]
    BY <1>1, <1>7 DEF LockInv, LockType, RefersToAccount
  <2> QED
    BY <1>1, <1>3, <1>5, <2>1, <2>2, <2>3 DEF LockInv, RefersToAccount, a
<1>9. MapHasReferenced'
  <2>1. /\ Cardinality(Referrers(ref', l)) = Cardinality(Referrers(ref, l)) + 1
        /\ \A k \in LockIds \ {l} : Referrers(ref', k) = Referrers(ref, k)
    BY <1>1, <1>2, <1>3, ReferenceTaken
  <2>2. \A k \in LockIds : refs'[k] = Cardinality(Referrers(ref', k))
    <3>1. Cardinality(Referrers(ref, l)) = 0 /\ refs'[l] = 1
      BY <1>1, <1>3 DEF LockInv, LockType, MapHasReferenced
    <3>2. \A k \in LockIds \ {l} : refs'[k] = refs[k]
      BY <1>1, <1>3 DEF LockInv, LockType
    <3> QED
      BY <2>1, <3>1, <3>2 DEF LockInv, MapHasReferenced
  <2>3. \A b \in Accounts : locks'[b] # NoLock => refs'[locks'[b]] # 0
    BY <1>1, <1>3, <1>6 DEF LockInv, LockType, MapHasReferenced
  <2>4. \A b, c \in Accounts : locks'[b] # NoLock /\ locks'[b] = locks'[c] => b = c
    BY <1>1, <1>6 DEF LockInv, LockType, MapHasReferenced
  <2> QED
    BY <2>2, <2>3, <2>4 DEF MapHasReferenced
<1>10. OneHolder'
  <2>1. Holders' = Holders \cup {p} /\ p \notin Holders
    BY <1>1 DEF Holders, LockInv, LockType
  <2>2. \A q \in Holders : ref'[q] = ref[q] /\ ref[q] # l /\ ref[q] \in LockIds
    BY <1>1, <1>7, <2>1 DEF Holders, Refers, Inside, LockInv, LockType, RefersToAccount
  <2>3. ref'[p] = l /\ token'[l]
    BY <1>1, <1>3 DEF LockInv, LockType
  <2> QED
    BY <1>1, <1>3, <2>1, <2>2, <2>3 DEF LockInv, LockType, OneHolder
<1> QED
  BY <1>4, <1>8, <1>9, <1>10 DEF LockInv

\* releaseAccountLock: the object leaves the map with its last reference, and no
\* other process loses what it refers to.
LEMMA UnrefKeepsMap ==
    ASSUME LockInv, NEW p \in Procs, Refers(p), Unref(p), Leaves(p),
           p # Request => UNCHANGED request, token' \in [LockIds -> BOOLEAN]
    PROVE  LockType' /\ RefersToAccount' /\ MapHasReferenced'
<1> USE LockAssumption
<1> DEFINE l == ref[p]
<1>1. PICK w \in Where \ Inside : at' = [at EXCEPT ![p] = w]
  BY DEF Leaves, Go
<1>2. /\ refs' = [refs EXCEPT ![l] = @ - 1] /\ ref' = [ref EXCEPT ![p] = NoLock]
      /\ locks' = [b \in Accounts |-> IF refs[l] = 1 /\ locks[b] = l THEN NoLock ELSE locks[b]]
  BY DEF Unref
<1>3. l \in LockIds
  BY DEF LockInv, LockType, RefersToAccount
<1> HIDE DEF l
<1>4. /\ Cardinality(Referrers(ref', l)) = Cardinality(Referrers(ref, l)) - 1
      /\ \A k \in LockIds \ {l} : Referrers(ref', k) = Referrers(ref, k)
      /\ Cardinality(Referrers(ref, l)) \in Nat \ {0}
      /\ Cardinality(Referrers(ref, l)) = 1 => Referrers(ref, l) = {p}
  BY <1>2, <1>3, ReferenceDropped DEF l
<1>5. refs[l] = Cardinality(Referrers(ref, l)) /\ refs[l] \in Nat \ {0}
  BY <1>3, <1>4 DEF LockInv, MapHasReferenced
<1>6. LockType'
  BY <1>1, <1>2, <1>3, <1>5 DEF LockInv, LockType
<1>7. \A q \in Procs \ {p} : ref'[q] = ref[q] /\ Refers(q)' = Refers(q)
  BY <1>1, <1>2 DEF LockInv, LockType, Refers
<1>8. ref'[p] = NoLock /\ ~Refers(p)'
  BY <1>1, <1>2 DEF LockInv, LockType, Refers
<1>9. ASSUME NEW q \in Procs \ {p}, Refers(q)
      PROVE  /\ AccountOf(q)' = AccountOf(q)
             /\ locks'[AccountOf(q)] = locks[AccountOf(q)]
  <2>1. AccountOf(q)' = AccountOf(q)
    BY <1>9, AccountOfFixed
  <2>2. refs[l] = 1 => ref[q] # l
    BY <1>4, <1>5 DEF Referrers
  <2> QED
    BY <1>2, <1>9, <2>1, <2>2 DEF LockInv, RefersToAccount
<1>10. RefersToAccount'
  BY <1>7, <1>8, <1>9 DEF LockInv, RefersToAccount
<1>11. MapHasReferenced'
  <2>1. \A k \in LockIds : refs'[k] = Cardinality(Referrers(ref', k))
    BY <1>2, <1>3, <1>4, <1>5 DEF LockInv, LockType, MapHasReferenced
  <2>2. \A b \in Accounts : locks'[b] # NoLock =>
           locks'[b] = locks[b] /\ (locks[b] = l => refs[l] # 1)
    BY <1>2
  <2>3. \A b \in Accounts : locks'[b] # NoLock => refs'[locks'[b]] # 0
    BY <1>2, <1>3, <1>5, <2>2 DEF LockInv, LockType, MapHasReferenced
  <2>4. \A b, c \in Accounts : locks'[b] # NoLock /\ locks'[b] = locks'[c] => b = c
    BY <2>2 DEF LockInv, MapHasReferenced
  <2> QED
    BY <2>1, <2>3, <2>4 DEF MapHasReferenced
<1> QED
  BY <1>6, <1>10, <1>11

LEMMA LeavingKeepsLocks ==
    ASSUME LockInv, NEW p \in Procs, GiveUpStep(p) \/ ReleaseStep(p)
    PROVE  LockInv'
<1> USE LockAssumption
<1>1. /\ Refers(p) /\ Unref(p) /\ Leaves(p) /\ (p # Request => UNCHANGED request)
      /\ token' \in [LockIds -> BOOLEAN]
  BY DEF GiveUpStep, ReleaseStep, GiveUp, Release, Refers, Inside, LockInv, LockType
<1>2. LockType' /\ RefersToAccount' /\ MapHasReferenced'
  BY <1>1, UnrefKeepsMap
<1>3. /\ Holders' = Holders \ {p}
      /\ \A q \in Holders' : ref'[q] = ref[q] /\ ref[q] \in LockIds
  BY <1>1 DEF Leaves, Go, Unref, Holders, Inside, Where, LockInv, LockType, RefersToAccount,
              Refers
<1>4. OneHolder'
  <2>1. CASE GiveUpStep(p)
    BY <1>3, <2>1 DEF GiveUpStep, GiveUp, LockInv, OneHolder
  <2>2. CASE ReleaseStep(p)
    <3>1. p \in Holders /\ token' = [token EXCEPT ![ref[p]] = FALSE]
      BY <2>2 DEF ReleaseStep, Release, Holders
    <3>2. \A q \in Holders' : ref[q] # ref[p]
      BY <1>3, <3>1 DEF LockInv, OneHolder
    <3> QED
      BY <1>3, <3>1, <3>2 DEF LockInv, LockType, OneHolder
  <2> QED
    BY <2>1, <2>2
<1> QED
  BY <1>2, <1>4 DEF LockInv

LEMMA OtherKeepsLocks ==
    ASSUME LockInv, OutsideStep \/ \E p \in Procs : ConnectStep(p)
    PROVE  LockInv'
<1>1. UNCHANGED lockVars /\ at' \in [Procs -> Where]
  BY DEF OutsideStep, ConnectStep, Go, LockInv, LockType, Where
<1>2. ASSUME NEW q \in Procs
      PROVE  /\ Refers(q)' = Refers(q) /\ (Refers(q) => AccountOf(q)' = AccountOf(q))
             /\ q \in Holders' <=> q \in Holders
  <2>1. CASE OutsideStep
    BY <2>1, AccountOfFixed DEF OutsideStep, Refers, Inside, Holders
  <2>2. CASE \E p \in Procs : ConnectStep(p)
    BY <2>2, AccountOfFixed DEF ConnectStep, Go, Refers, Inside, Holders, LockInv, LockType
  <2> QED
    BY <2>1, <2>2
<1>3. LockType' /\ MapHasReferenced'
  BY <1>1 DEF LockInv, LockType, MapHasReferenced, Referrers, lockVars
<1>4. RefersToAccount'
  BY <1>1, <1>2 DEF LockInv, RefersToAccount, lockVars
<1>5. Holders' = Holders
  BY <1>2 DEF Holders
<1>6. OneHolder'
  BY <1>1, <1>5 DEF LockInv, OneHolder, lockVars
<1> QED
  BY <1>3, <1>4, <1>6 DEF LockInv

\* The seven kinds of steps keep the locks in order.
LEMMA LocksKept == LockInv /\ LockStep => LockInv'
  BY EnqueueKeepsLocks, TakeKeepsLocks, TryKeepsLocks, LeavingKeepsLocks, OtherKeepsLocks
     DEF LockStep

-----------------------------------------------------------------------------
(* The loops, the manual jobs, the shutdown and the progress entries.      *)
RunType ==
    [pc : {"begin", "round", "retry", "drain", "ended"}, cont : SUBSET Accounts,
     retry : SUBSET Accounts, attempt : Nat, window : {"none", "open", "elapsed"}]
ManualType == [jobs : SUBSET Accounts, stopping : BOOLEAN, done : BOOLEAN]
MainType ==
    [pc : {"serving", "stopping", "waiting", "returned"}, cancelled : BOOLEAN,
     deadline : BOOLEAN, db : BOOLEAN, others : Nat]

LoopType ==
    /\ run \in RunType
    /\ result \in [pending : SUBSET Accounts, retryable : SUBSET Accounts]
    /\ progress \in [Accounts -> {"none", "auto", "manual"}]
    /\ status \in [Accounts -> {"pending", "success", "failed"}]
    /\ manual \in ManualType
    /\ main \in MainType
    /\ seen = [pc |-> seen.pc, deferred |-> seen.deferred, notified |-> seen.notified,
               listed |-> seen.listed]
    /\ ended \subseteq Loops

\* A goroutine exists only while the loop or the job that started it is waiting for it.
LoopInv ==
    /\ run.pc # "round" => \A a \in Accounts : at[Automatic(a)] = "idle"
    /\ run.pc \in {"retry", "drain", "ended"} => run.cont = {}
    /\ seen.pc # "process" => \A a \in Accounts : at[Seen(a)] = "idle"
    /\ \A a \in Accounts : at[Manual(a)] # "idle" <=> a \in manual.jobs
    /\ at[Request] # "idle" => request.account \in Accounts

\* The shutdown goes from BeginShutdown over the loops to the database, and a loop that
\* has returned saw it begin.
ShutdownInv ==
    /\ main.cancelled => manual.stopping
    /\ manual.stopping <=> main.pc # "serving"
    /\ run.pc \in {"drain", "ended"} => main.cancelled
    /\ "sync" \in ended => run.pc = "ended"
    /\ "seen" \in ended => seen.pc = "ended"
    /\ manual.done => manual.stopping /\ manual.jobs = {}
    /\ run.pc = "ended" => manual.done
    /\ ~main.db => main.pc = "returned" /\ ended = Loops /\ at[Request] = "idle"

\* A progress entry has an owner that will finish it.
ProgressInv ==
    \A a \in Accounts :
        /\ progress[a] = "auto" =>
              IF run.pc = "round" THEN at[Automatic(a)] # "idle" \/ a \in result.pending
                                  ELSE a \in run.cont
        /\ at[Automatic(a)] = "try" => progress[a] # "auto"
        /\ progress[a] = "manual" => a \in manual.jobs /\ at[Manual(a)] # "finish"

SchedInv == LockType /\ LoopType /\ LoopInv /\ ShutdownInv /\ ProgressInv

-----------------------------------------------------------------------------
\* The processes: three for each account, and the request.
LEMMA ProcFacts ==
    /\ Request \in Procs
    /\ \A a \in Accounts :
          /\ {Automatic(a), Manual(a), Seen(a)} \subseteq Procs \ {Request}
          /\ AccountOf(Automatic(a)) = a /\ AccountOf(Manual(a)) = a /\ AccountOf(Seen(a)) = a
    /\ \A a, b \in Accounts :
          /\ Automatic(a) # Manual(b) /\ Automatic(a) # Seen(b) /\ Manual(a) # Seen(b)
          /\ a # b => Automatic(a) # Automatic(b) /\ Manual(a) # Manual(b) /\ Seen(a) # Seen(b)
    /\ \A p \in Procs :
          p = Request \/ \E a \in Accounts : p = Automatic(a) \/ p = Manual(a) \/ p = Seen(a)
<1>1. ASSUME NEW a
      PROVE  /\ Automatic(a) # Request /\ Manual(a) # Request /\ Seen(a) # Request
             /\ Automatic(a)[2] = a /\ Manual(a)[2] = a /\ Seen(a)[2] = a
             /\ Automatic(a)[1] = "auto" /\ Manual(a)[1] = "manual" /\ Seen(a)[1] = "seen"
  BY DEF Automatic, Manual, Seen, Request
<1>2. \A a \in Accounts : {Automatic(a), Manual(a), Seen(a)} \subseteq Procs \ {Request}
  BY <1>1, ProcAssumption DEF AllProcs
<1>3. ASSUME NEW a \in Accounts, NEW b \in Accounts
      PROVE  /\ Automatic(a) # Manual(b) /\ Automatic(a) # Seen(b) /\ Manual(a) # Seen(b)
             /\ a # b => Automatic(a) # Automatic(b) /\ Manual(a) # Manual(b) /\ Seen(a) # Seen(b)
  BY <1>1
<1> QED
  BY <1>1, <1>2, <1>3, ProcAssumption DEF AllProcs, AccountOf

-----------------------------------------------------------------------------
\* Every step of the system is of one of the seven kinds.
LEMMA RunSteps ==
    ASSUME SchedInv, RunNext \/ WindowElapses
    PROVE  OutsideStep
<1>1. ASSUME StartRound PROVE OutsideStep
  <2>1. \A a \in Accounts : at[Automatic(a)] = "idle"
    BY <1>1 DEF StartRound, SchedInv, LoopInv
  <2>3. UNCHANGED <<lockVars, request>> /\ at' \in [Procs -> Where]
    BY <1>1 DEF StartRound, SchedInv, LockType, Where, lockVars
  <2>4. ASSUME NEW p \in Procs, at'[p] # at[p]
        PROVE  ~Refers(p) /\ ~Refers(p)'
    BY <1>1, <2>1, <2>4 DEF StartRound, Refers, Inside
  <2> QED
    BY <2>3, <2>4 DEF OutsideStep
<1>2. ASSUME ListFails \/ EndRound \/ RetryDelay \/ RetryCutShort \/ Drain \/ WindowElapses
      PROVE  OutsideStep
  <2>1. UNCHANGED <<lockVars, at, request>>
    BY <1>2 DEF ListFails, EndRound, RetryDelay, RetryCutShort, Drain, WindowElapses
  <2> QED
    BY <2>1 DEF OutsideStep, SchedInv, LockType, Refers, Inside
<1> QED
  BY <1>1, <1>2 DEF RunNext

LEMMA AutoSteps ==
    ASSUME SchedInv, NEW a \in Accounts, AutoNext(a)
    PROVE  LockStep
<1> DEFINE p == Automatic(a)
<1> USE DEF SchedInv
<1>1. p \in Procs /\ p # Request /\ AccountOf(p) = a
  BY ProcFacts
<1>2. CASE AutoTry(a)
  <2>1. CASE Busy(a)
    <3>1. UNCHANGED <<lockVars, request>> /\ at' = [at EXCEPT ![p] = "idle"] /\ at[p] = "try"
      BY <1>2, <2>1 DEF AutoTry, Go
    <3> QED
      BY <1>1, <3>1 DEF LockStep, OutsideStep, LockType, Where, Refers, Inside
  <2>2. CASE ~Busy(a)
    BY <1>1, <1>2, <2>2 DEF AutoTry, LockStep, TryStep
  <2> QED
    BY <2>1, <2>2
<1>3. CASE AutoWait(a)
  BY <1>1, <1>3 DEF AutoWait, LockStep, EnqueueStep
<1>4. CASE AutoLock(a)
  BY <1>1, <1>4 DEF AutoLock, LockStep, TakeStep
<1>5. CASE AutoGiveUp(a)
  BY <1>1, <1>5 DEF AutoGiveUp, LockStep, GiveUpStep, ReleaseStep, Leaves, Where, Inside
<1>6. CASE AutoSlot(a)
  BY <1>1, <1>6 DEF AutoSlot, LockStep, ReleaseStep, ConnectStep, Leaves, Where, Inside
<1>7. CASE \E o \in Outcomes : AutoWork(a, o)
  BY <1>1, <1>7 DEF AutoWork, LockStep, ReleaseStep, Leaves, Where, Inside
<1> QED
  BY <1>2, <1>3, <1>4, <1>5, <1>6, <1>7 DEF AutoNext

LEMMA ManualSteps ==
    ASSUME SchedInv, NEW a \in Accounts, ManualNext(a)
    PROVE  LockStep
<1> DEFINE p == Manual(a)
<1> USE DEF SchedInv
<1>1. p \in Procs /\ p # Request /\ AccountOf(p) = a
  BY ProcFacts
<1>2. CASE ManualWait(a)
  BY <1>1, <1>2 DEF ManualWait, LockStep, EnqueueStep
<1>3. CASE ManualLock(a)
  BY <1>1, <1>3 DEF ManualLock, LockStep, TakeStep
<1>4. CASE ManualGiveUp(a)
  BY <1>1, <1>4 DEF ManualGiveUp, LockStep, GiveUpStep, ReleaseStep, Leaves, Where, Inside
<1>5. CASE ManualSlot(a)
  BY <1>1, <1>5 DEF ManualSlot, LockStep, ConnectStep
<1>6. CASE \E o \in Outcomes : ManualWork(a, o)
  BY <1>1, <1>6 DEF ManualWork, LockStep, ReleaseStep, Leaves, Where, Inside
<1>7. CASE FinishManualJob(a)
  <2>1. UNCHANGED <<lockVars, request>> /\ at' = [at EXCEPT ![p] = "idle"] /\ at[p] = "finish"
    BY <1>7 DEF FinishManualJob, Go
  <2> QED
    BY <1>1, <2>1 DEF LockStep, OutsideStep, LockType, Where, Refers, Inside
<1> QED
  BY <1>2, <1>3, <1>4, <1>5, <1>6, <1>7 DEF ManualNext

LEMMA SeenSteps ==
    ASSUME SchedInv, NEW a \in Accounts, SeenNext(a)
    PROVE  LockStep
<1> DEFINE p == Seen(a)
<1>1. p \in Procs /\ p # Request /\ AccountOf(p) = a
  BY ProcFacts
<1>2. CASE SeenWait(a)
  BY <1>1, <1>2 DEF SeenWait, LockStep, EnqueueStep
<1>3. CASE SeenLock(a)
  BY <1>1, <1>3 DEF SeenLock, LockStep, TakeStep
<1>4. CASE SeenSlot(a)
  BY <1>1, <1>4 DEF SeenSlot, LockStep, ConnectStep
<1>5. CASE SeenFails(a)
  BY <1>1, <1>5 DEF SeenFails, LockStep, GiveUpStep, ReleaseStep, Leaves, Where, Inside
<1>6. CASE SeenWork(a)
  BY <1>1, <1>6 DEF SeenWork, LockStep, ReleaseStep, Leaves, Where, Inside
<1> QED
  BY <1>2, <1>3, <1>4, <1>5, <1>6 DEF SeenNext

LEMMA SeenLoopSteps ==
    ASSUME SchedInv, SeenLoop
    PROVE  OutsideStep
<1> USE DEF SchedInv
<1>1. CASE SeenScan
  <2>1. \A a \in Accounts : at[Seen(a)] = "idle"
    BY <1>1 DEF SeenScan, LoopInv
  <2>2. UNCHANGED <<lockVars, request>>
    BY <1>1 DEF SeenScan
  <2>3. PICK now \in SUBSET Accounts :
           at' = [p \in Procs |-> IF p \in {Seen(a) : a \in now} THEN "wait" ELSE at[p]]
    BY <1>1 DEF SeenScan
  <2> QED
    BY <2>1, <2>2, <2>3 DEF OutsideStep, LockType, Where, Refers, Inside
<1>2. CASE SeenProcessed \/ SeenEnds
  <2>1. UNCHANGED <<lockVars, at, request>>
    BY <1>2 DEF SeenProcessed, SeenEnds
  <2> QED
    BY <2>1 DEF OutsideStep, LockType, Refers, Inside
<1> QED
  BY <1>1, <1>2 DEF SeenLoop

LEMMA ServeSteps ==
    ASSUME SchedInv, ServeNext \/ Arrivals
    PROVE  LockStep
<1> USE DEF SchedInv
<1>1. Request \in Procs /\ AccountOf(Request) = request.account
      /\ (at[Request] # "idle" => request.account \in Accounts)
  BY ProcFacts DEF AccountOf, LoopInv
<1>2. CASE QueueAccountSync \/ recentMail \/ Arrivals
  <2>1. UNCHANGED lockVars /\ at[Request] \in {"idle", "start"}
    BY <1>2 DEF QueueAccountSync, recentMail, Arrivals, Accept
  <2>2. \A a \in Accounts : a \notin manual.jobs => at[Manual(a)] = "idle"
    BY DEF LoopInv
  <2>3. /\ at' \in [Procs -> Where] /\ at'[Request] \in {"idle", "start"}
        /\ \A p \in Procs \ {Request} :
              at'[p] = at[p] \/ (at[p] = "idle" /\ at'[p] = "wait")
    <3>1. CASE QueueAccountSync /\ MayQueue(request.account)
      BY <1>1, <2>2, <3>1, ProcFacts DEF QueueAccountSync, LockType, Where, MayQueue
    <3>2. CASE QueueAccountSync /\ ~MayQueue(request.account)
      BY <1>1, <3>2 DEF QueueAccountSync, Go, LockType, Where
    <3>3. CASE recentMail \/ Arrivals
      BY <1>1, <3>3 DEF recentMail, Arrivals, Accept, Go, LockType, Where
    <3> QED
      BY <1>2, <3>1, <3>2, <3>3
  <2> QED
    BY <1>1, <2>1, <2>3 DEF LockStep, OutsideStep, Refers, Inside
<1>3. CASE ConfigWait
  BY <1>1, <1>3 DEF ConfigWait, LockStep, EnqueueStep
<1>4. CASE ConfigLock
  BY <1>1, <1>4 DEF ConfigLock, LockStep, TakeStep
<1>5. CASE ConfigWork
  BY <1>1, <1>5 DEF ConfigWork, LockStep, ReleaseStep, Leaves, Where, Inside
<1>6. CASE ConfigGiveUp
  BY <1>1, <1>6 DEF ConfigGiveUp, LockStep, GiveUpStep, Leaves, Where, Inside
<1> QED
  BY <1>2, <1>3, <1>4, <1>5, <1>6 DEF ServeNext

LEMMA MainSteps ==
    ASSUME SchedInv,
           ShutdownNext \/ BeginShutdown \/ Deadline \/ OtherTakesSlot \/ OtherReturnsSlot
    PROVE  OutsideStep
<1>1. UNCHANGED <<lockVars, at, request>>
  BY DEF ShutdownNext, BeginShutdown, Deadline, OtherTakesSlot, OtherReturnsSlot,
         CancelWorkers, Return, CloseLate, Rest
<1> QED
  BY <1>1 DEF SchedInv, OutsideStep, LockType, Refers, Inside

LEMMA StepKinds == SchedInv /\ Next => LockStep
  BY RunSteps, AutoSteps, ManualSteps, SeenSteps, SeenLoopSteps, ServeSteps, MainSteps
     DEF Next, LockStep

-----------------------------------------------------------------------------
(* Each group of steps keeps the loops, jobs and progress entries in order. *)
OrderInv == LoopType /\ LoopInv /\ ShutdownInv /\ ProgressInv

\* Counters of records.
LEMMA RecordCounters ==
    /\ \A r \in RunType, c \in SUBSET Accounts, n \in Nat :
          [r EXCEPT !.pc = "begin", !.cont = c, !.retry = {}, !.attempt = n] \in RunType
    /\ \A m \in MainType, n \in Nat : [m EXCEPT !.others = n] \in MainType
<1>1. ASSUME NEW r \in RunType, NEW c \in SUBSET Accounts, NEW n \in Nat
      PROVE  [r EXCEPT !.pc = "begin", !.cont = c, !.retry = {}, !.attempt = n] \in RunType
  BY DEF RunType
<1>2. ASSUME NEW m \in MainType, NEW n \in Nat
      PROVE  [m EXCEPT !.others = n] \in MainType
  BY Zenon DEF MainType
<1> QED
  BY <1>1, <1>2

\* A sync that its context's end interrupted is recorded only outside of a shutdown and of
\* an elapsed window, where it cannot happen.
LEMMA RecordedStatus ==
    ASSUME SchedInv, NEW a \in Accounts, NEW o \in Outcomes, NEW over,
           SyncOutcome(a, o, over), over => manual.stopping \/ (Elapsed /\ ~Cancelled)
    PROVE  status' \in [Accounts -> {"pending", "success", "failed"}]
<1>1. status \in [Accounts -> {"pending", "success", "failed"}]
  BY DEF SchedInv, LoopType
<1>2. o = "interrupted" => manual.stopping \/ (Elapsed /\ ~Cancelled)
  BY DEF SyncOutcome
<1>3. Recorded(a, o) \in {"pending", "success", "failed"}
  BY <1>1, <1>2 DEF Recorded, Outcomes
<1> QED
  BY <1>1, <1>3 DEF SyncOutcome

LEMMA RunKeepsOrder ==
    ASSUME SchedInv, RunNext \/ WindowElapses
    PROVE  OrderInv'
<1> USE ProcFacts DEF SchedInv, LockType, Where, LoopType, RunType, ManualType, MainType
<1>1. CASE StartRound
  <2>1. LoopType'
    BY <1>1 DEF StartRound, FinishProgresses, Dropped, NoResult
  <2>2. LoopInv'
    BY <1>1 DEF StartRound, FinishProgresses, Dropped, NoResult, LoopInv
  <2>3. ShutdownInv'
    BY <1>1 DEF StartRound, FinishProgresses, Dropped, NoResult, ShutdownInv, LoopInv
  <2>4. ProgressInv'
    BY <1>1 DEF StartRound, FinishProgresses, Dropped, NoResult, ProgressInv, LoopInv
  <2> QED
    BY <2>1, <2>2, <2>3, <2>4 DEF OrderInv
<1>2. CASE ListFails
  <2>1. LoopType'
    BY <1>2 DEF ListFails, FinishProgresses, NoResult, Fault
  <2>2. LoopInv'
    BY <1>2 DEF ListFails, FinishProgresses, NoResult, Fault, LoopInv
  <2>3. ShutdownInv'
    BY <1>2 DEF ListFails, FinishProgresses, NoResult, Fault, ShutdownInv, LoopInv
  <2>4. ProgressInv'
    BY <1>2 DEF ListFails, FinishProgresses, NoResult, Fault, ProgressInv, LoopInv
  <2> QED
    BY <2>1, <2>2, <2>3, <2>4 DEF OrderInv
<1>3. CASE EndRound
  <2> DEFINE retry == run.retry \cup result.retryable
  <2>1. /\ run.pc = "round" /\ \A a \in Accounts : at[Automatic(a)] = "idle"
        /\ result' = NoResult
        /\ UNCHANGED <<at, status, manual, seen, main, ended, request>>
    BY <1>3 DEF EndRound, RoundOver
  <2>2. CASE Cancelled
    <3>1. /\ run' = LeaveRun
          /\ progress' = [a \in Accounts |-> IF progress[a] = "auto" THEN "none"
                                             ELSE progress[a]]
      BY <1>3, <2>2 DEF EndRound, FinishProgresses
    <3>2. LoopType'
      BY <2>1, <3>1 DEF LeaveRun, NoResult
    <3> QED
      BY <2>1, <2>2, <3>1, <3>2
         DEF LeaveRun, LoopInv, ShutdownInv, ProgressInv, OrderInv, Cancelled
  <2>3. CASE ~Cancelled
    <3>1. /\ run' = AfterRound
          /\ progress' = [a \in Accounts |-> IF /\ a \in IF Elapsed THEN result.pending ELSE {}
                                                /\ progress[a] = "auto"
                                             THEN "none" ELSE progress[a]]
      BY <1>3, <2>3 DEF EndRound, FinishProgresses
    <3>2. /\ run' \in RunType /\ run'.pc \in {"begin", "retry"}
          /\ run'.pc = "retry" => run'.cont = {}
          /\ run'.cont = IF result.pending # {} /\ ~Elapsed THEN result.pending ELSE {}
      <4>1. CASE result.pending # {} /\ ~Elapsed
        <5>1. run' = [run EXCEPT !.pc = "begin", !.cont = result.pending, !.retry = retry]
          BY <3>1, <4>1 DEF AfterRound
        <5> QED
          BY <4>1, <5>1
      <4>2. CASE run' = NextPoll /\ ~(result.pending # {} /\ ~Elapsed)
        BY <4>2 DEF NextPoll
      <4>3. CASE /\ run' = [run EXCEPT !.pc = "retry", !.cont = {}, !.retry = retry,
                                       !.window = "open"]
                 /\ ~(result.pending # {} /\ ~Elapsed)
        BY <4>3
      <4> QED
        BY <3>1, <4>1, <4>2, <4>3 DEF AfterRound
    <3>3. LoopType' /\ LoopInv' /\ ShutdownInv'
      <4>1. LoopType'
        BY <2>1, <3>1, <3>2 DEF NoResult
      <4>2. LoopInv' /\ ShutdownInv'
        BY <2>1, <3>2 DEF LoopInv, ShutdownInv
      <4> QED
        BY <4>1, <4>2
    <3>4. ProgressInv'
      <4>1. \A a \in Accounts : progress[a] = "auto" => a \in result.pending
        BY <2>1 DEF ProgressInv
      <4>2. \A a \in Accounts : progress'[a] = "auto" => a \in run'.cont
        BY <3>1, <3>2, <4>1
      <4>3. \A a \in Accounts : progress'[a] = "manual" => progress[a] = "manual"
        BY <3>1
      <4> QED
        BY <2>1, <3>2, <4>2, <4>3 DEF ProgressInv
    <3> QED
      BY <3>3, <3>4 DEF OrderInv
  <2> QED
    BY <2>2, <2>3
<1>4. CASE RetryDelay
  <2>1. LoopType'
    <3>1. run' \in RunType
      <4>1. run \in RunType /\ run.retry \in SUBSET Accounts /\ run.attempt + 1 \in Nat
        OBVIOUS
      <4> HIDE DEF RunType
      <4> QED
        BY <1>4, <4>1, RecordCounters DEF RetryDelay
    <3> QED
      BY <1>4, <3>1 DEF RetryDelay
  <2>2. LoopInv'
    BY <1>4 DEF RetryDelay, LoopInv
  <2>3. ShutdownInv'
    BY <1>4 DEF RetryDelay, ShutdownInv, LoopInv
  <2>4. ProgressInv'
    BY <1>4 DEF RetryDelay, ProgressInv, LoopInv
  <2> QED
    BY <2>1, <2>2, <2>3, <2>4 DEF OrderInv
<1>5. CASE RetryCutShort
  BY <1>5 DEF RetryCutShort, FinishProgresses, LeaveRun, NextPoll, Cancelled, Elapsed,
              OrderInv, LoopInv, ShutdownInv, ProgressInv
<1>6. CASE Drain
  <2>1. LoopType'
    BY <1>6 DEF Drain, ManualDrained, Loops
  <2>2. LoopInv'
    BY <1>6 DEF Drain, ManualDrained, Loops, LoopInv
  <2>3. ShutdownInv'
    BY <1>6 DEF Drain, ManualDrained, Loops, ShutdownInv, LoopInv
  <2>4. ProgressInv'
    BY <1>6 DEF Drain, ManualDrained, Loops, ProgressInv, LoopInv
  <2> QED
    BY <2>1, <2>2, <2>3, <2>4 DEF OrderInv
<1>7. CASE WindowElapses
  <2>1. LoopType'
    BY <1>7 DEF WindowElapses
  <2>2. LoopInv'
    BY <1>7 DEF WindowElapses, LoopInv
  <2>3. ShutdownInv'
    BY <1>7 DEF WindowElapses, ShutdownInv, LoopInv
  <2>4. ProgressInv'
    BY <1>7 DEF WindowElapses, ProgressInv, LoopInv
  <2> QED
    BY <2>1, <2>2, <2>3, <2>4 DEF OrderInv
<1> QED
  BY <1>1, <1>2, <1>3, <1>4, <1>5, <1>6, <1>7 DEF RunNext

LEMMA AutoKeepsOrder ==
    ASSUME SchedInv, NEW a \in Accounts, AutoNext(a)
    PROVE  OrderInv'
<1> USE ProcFacts DEF SchedInv, LockType, Where, LoopType, RunType, ManualType, MainType
<1>1. CASE AutoTry(a)
  BY <1>1 DEF AutoTry, Go, EnsureProgress, OrderInv, LoopInv, ShutdownInv, ProgressInv
<1>2. CASE AutoWait(a)
  BY <1>2 DEF AutoWait, Go, EnsureProgress, OrderInv, LoopInv, ShutdownInv, ProgressInv
<1>3. CASE AutoLock(a)
  BY <1>3 DEF AutoLock, Go, EnsureProgress, OrderInv, LoopInv, ShutdownInv, ProgressInv
<1>4. CASE AutoGiveUp(a)
  BY <1>4 DEF AutoGiveUp, Go, FinishProgress, OrderInv, LoopInv, ShutdownInv, ProgressInv
<1>5. CASE AutoSlot(a)
  <2>1. LoopType'
    BY <1>5 DEF AutoSlot, Go, FinishProgress, BeginProgress
  <2>2. LoopInv'
    BY <1>5 DEF AutoSlot, Go, FinishProgress, BeginProgress, LoopInv
  <2>3. ShutdownInv'
    BY <1>5 DEF AutoSlot, Go, FinishProgress, BeginProgress, ShutdownInv, LoopInv
  <2>4. ProgressInv'
    BY <1>5 DEF AutoSlot, Go, FinishProgress, BeginProgress, ProgressInv, LoopInv
  <2> QED
    BY <2>1, <2>2, <2>3, <2>4 DEF OrderInv
<1>6. CASE \E o \in Outcomes : AutoWork(a, o)
  <2>1. LoopType'
    <3>1. Cancelled => manual.stopping
      BY DEF ShutdownInv, Cancelled
    <3>2. status' \in [Accounts -> {"pending", "success", "failed"}]
      BY <1>6, <3>1, RecordedStatus DEF AutoWork
    <3>3. PICK o \in Outcomes : AutoWork(a, o)
      BY <1>6
    <3>4. result' \in [pending : SUBSET Accounts, retryable : SUBSET Accounts]
      BY <3>3 DEF AutoWork
    <3>5. progress' \in [Accounts -> {"none", "auto", "manual"}]
      BY <3>3 DEF AutoWork, FinishProgress
    <3> QED
      BY ZenonT(40), <3>2, <3>3, <3>4, <3>5 DEF AutoWork
  <2>2. LoopInv'
    BY <1>6 DEF AutoWork, Go, FinishProgress, LoopInv
  <2>3. ShutdownInv'
    BY <1>6 DEF AutoWork, Go, FinishProgress, ShutdownInv, LoopInv
  <2>4. ProgressInv'
    BY <1>6 DEF AutoWork, Go, FinishProgress, ProgressInv, LoopInv
  <2> QED
    BY <2>1, <2>2, <2>3, <2>4 DEF OrderInv
<1> QED
  BY <1>1, <1>2, <1>3, <1>4, <1>5, <1>6 DEF AutoNext

LEMMA ManualKeepsOrder ==
    ASSUME SchedInv, NEW a \in Accounts, ManualNext(a)
    PROVE  OrderInv'
<1> USE ProcFacts DEF SchedInv, LockType, Where, LoopType, RunType, ManualType, MainType
<1>1. CASE ManualWait(a)
  BY <1>1 DEF ManualWait, Go, EnsureProgress, OrderInv, LoopInv, ShutdownInv, ProgressInv
<1>2. CASE ManualLock(a)
  BY <1>2 DEF ManualLock, Go, OrderInv, LoopInv, ShutdownInv, ProgressInv
<1>3. CASE ManualGiveUp(a)
  BY <1>3 DEF ManualGiveUp, Go, FinishProgress, OrderInv, LoopInv, ShutdownInv, ProgressInv
<1>4. CASE ManualSlot(a)
  BY <1>4 DEF ManualSlot, Go, BeginProgress, OrderInv, LoopInv, ShutdownInv, ProgressInv
<1>5. CASE FinishManualJob(a)
  <2>1. LoopType'
    BY ZenonT(40), <1>5 DEF FinishManualJob, Go, ManualDone
  <2>2. LoopInv'
    BY <1>5 DEF FinishManualJob, Go, ManualDone, LoopInv
  <2>3. ShutdownInv'
    BY <1>5 DEF FinishManualJob, Go, ManualDone, ShutdownInv, LoopInv
  <2>4. ProgressInv'
    BY <1>5 DEF FinishManualJob, Go, ManualDone, ProgressInv, LoopInv
  <2> QED
    BY <2>1, <2>2, <2>3, <2>4 DEF OrderInv
<1>6. CASE \E o \in Outcomes : ManualWork(a, o)
  <2>1. LoopType'
    <3>1. Cancelled => manual.stopping
      BY DEF ShutdownInv, Cancelled
    <3>2. status' \in [Accounts -> {"pending", "success", "failed"}]
      BY <1>6, <3>1, RecordedStatus DEF ManualWork
    <3> QED
      BY <1>6, <3>2 DEF ManualWork, FinishProgress
  <2>2. LoopInv'
    BY <1>6 DEF ManualWork, Go, FinishProgress, LoopInv
  <2>3. ShutdownInv'
    BY <1>6 DEF ManualWork, Go, FinishProgress, ShutdownInv, LoopInv
  <2>4. ProgressInv'
    BY <1>6 DEF ManualWork, Go, FinishProgress, ProgressInv, LoopInv
  <2> QED
    BY <2>1, <2>2, <2>3, <2>4 DEF OrderInv
<1> QED
  BY <1>1, <1>2, <1>3, <1>4, <1>5, <1>6 DEF ManualNext

LEMMA SeenKeepsOrder ==
    ASSUME SchedInv, NEW a \in Accounts, SeenNext(a)
    PROVE  OrderInv'
<1> USE ProcFacts DEF SchedInv, LockType, Where, LoopType, RunType, ManualType, MainType
<1>1. CASE SeenWait(a)
  BY <1>1 DEF SeenWait, Go, OrderInv, LoopInv, ShutdownInv, ProgressInv
<1>2. CASE SeenLock(a)
  BY <1>2 DEF SeenLock, Go, OrderInv, LoopInv, ShutdownInv, ProgressInv
<1>3. CASE SeenSlot(a)
  BY <1>3 DEF SeenSlot, Go, OrderInv, LoopInv, ShutdownInv, ProgressInv
<1>4. CASE SeenFails(a)
  <2>1. LoopType'
    BY ZenonT(40), <1>4 DEF SeenFails, Go
  <2>2. LoopInv'
    BY <1>4 DEF SeenFails, Go, LoopInv
  <2>3. ShutdownInv'
    BY <1>4 DEF SeenFails, Go, ShutdownInv, LoopInv
  <2>4. ProgressInv'
    BY <1>4 DEF SeenFails, Go, ProgressInv, LoopInv
  <2> QED
    BY <2>1, <2>2, <2>3, <2>4 DEF OrderInv
<1>5. CASE SeenWork(a)
  BY <1>5 DEF SeenWork, Go, OrderInv, LoopInv, ShutdownInv, ProgressInv
<1> QED
  BY <1>1, <1>2, <1>3, <1>4, <1>5 DEF SeenNext

LEMMA SeenLoopKeepsOrder ==
    ASSUME SchedInv, SeenLoop
    PROVE  OrderInv'
<1> USE ProcFacts DEF SchedInv, LockType, Where, LoopType, RunType, ManualType, MainType
<1>1. CASE SeenScan
  <2>1. LoopType'
    BY ZenonT(40), <1>1 DEF SeenScan, Cancelled
  <2>2. LoopInv'
    BY <1>1 DEF SeenScan, Cancelled, LoopInv
  <2>3. ShutdownInv'
    BY <1>1 DEF SeenScan, Cancelled, ShutdownInv, LoopInv
  <2>4. ProgressInv'
    BY <1>1 DEF SeenScan, Cancelled, ProgressInv, LoopInv
  <2> QED
    BY <2>1, <2>2, <2>3, <2>4 DEF OrderInv
<1>2. CASE SeenProcessed
  <2>1. LoopType'
    BY ZenonT(40), <1>2 DEF SeenProcessed
  <2>2. LoopInv'
    BY <1>2 DEF SeenProcessed, LoopInv
  <2>3. ShutdownInv'
    BY <1>2 DEF SeenProcessed, ShutdownInv, LoopInv
  <2>4. ProgressInv'
    BY <1>2 DEF SeenProcessed, ProgressInv, LoopInv
  <2> QED
    BY <2>1, <2>2, <2>3, <2>4 DEF OrderInv
<1>3. CASE SeenEnds
  <2>1. LoopType'
    BY <1>3 DEF SeenEnds, Loops, Cancelled
  <2>2. LoopInv'
    BY <1>3 DEF SeenEnds, Loops, Cancelled, LoopInv
  <2>3. ShutdownInv'
    BY <1>3 DEF SeenEnds, Loops, Cancelled, ShutdownInv, LoopInv
  <2>4. ProgressInv'
    BY <1>3 DEF SeenEnds, Loops, Cancelled, ProgressInv, LoopInv
  <2> QED
    BY <2>1, <2>2, <2>3, <2>4 DEF OrderInv
<1> QED
  BY <1>1, <1>2, <1>3 DEF SeenLoop

LEMMA ServeKeepsOrder ==
    ASSUME SchedInv, ServeNext \/ Arrivals
    PROVE  OrderInv'
<1> USE ProcFacts DEF SchedInv, LockType, Where, LoopType, RunType, ManualType, MainType
<1>1. CASE QueueAccountSync
  <2> DEFINE a == request.account
  <2>1. a \in Accounts /\ at[Request] = "start" /\ main.db
    BY <1>1 DEF QueueAccountSync, LoopInv, ShutdownInv
  <2>2. UNCHANGED <<run, result, status, seen, main, ended>>
    BY <1>1 DEF QueueAccountSync
  <2>3. CASE MayQueue(a)
    <3>1. /\ manual' = [manual EXCEPT !.jobs = @ \cup {a}]
          /\ progress' = [progress EXCEPT ![a] = IF @ = "none" THEN "manual" ELSE @]
          /\ at' = [at EXCEPT ![Manual(a)] = "wait", ![Request] = "idle"]
          /\ ~manual.stopping /\ a \notin manual.jobs
      BY <1>1, <2>3 DEF QueueAccountSync, MayQueue, EnsureProgress
    <3>2. LoopType'
      <4>1. manual' \in ManualType
        BY <2>1, <3>1, Zenon
      <4> QED
        BY <2>1, <2>2, <3>1, <4>1
    <3>3. LoopInv'
      BY <2>1, <2>2, <3>1 DEF LoopInv
    <3>4. ShutdownInv'
      BY <2>1, <2>2, <3>1 DEF ShutdownInv
    <3>5. ProgressInv'
      BY <2>1, <2>2, <3>1 DEF ProgressInv, LoopInv
    <3> QED
      BY <3>2, <3>3, <3>4, <3>5 DEF OrderInv
  <2>4. CASE ~MayQueue(a)
    <3>1. UNCHANGED <<manual, progress>> /\ at' = [at EXCEPT ![Request] = "idle"]
      BY <1>1, <2>4 DEF QueueAccountSync, Go
    <3>2. LoopType' /\ LoopInv'
      BY <2>2, <3>1 DEF LoopInv
    <3>3. ShutdownInv' /\ ProgressInv'
      BY <2>1, <2>2, <3>1 DEF ShutdownInv, ProgressInv
    <3> QED
      BY <3>2, <3>3 DEF OrderInv
  <2> QED
    BY <2>3, <2>4
<1>2. CASE recentMail
  <2>1. LoopType'
    BY ZenonT(40), <1>2 DEF recentMail, Go, NoRequest
  <2>2. LoopInv'
    BY <1>2 DEF recentMail, Go, NoRequest, LoopInv
  <2>3. ShutdownInv'
    BY <1>2 DEF recentMail, Go, NoRequest, ShutdownInv, LoopInv
  <2>4. ProgressInv'
    BY <1>2 DEF recentMail, Go, NoRequest, ProgressInv, LoopInv
  <2> QED
    BY <2>1, <2>2, <2>3, <2>4 DEF OrderInv
<1>3. CASE ConfigWait
  BY <1>3 DEF ConfigWait, Go, OrderInv, LoopInv, ShutdownInv, ProgressInv
<1>4. CASE ConfigLock
  BY <1>4 DEF ConfigLock, Go, OrderInv, LoopInv, ShutdownInv, ProgressInv
<1>5. CASE ConfigWork
  BY <1>5 DEF ConfigWork, Go, NoRequest, OrderInv, LoopInv, ShutdownInv, ProgressInv
<1>6. CASE ConfigGiveUp
  BY <1>6 DEF ConfigGiveUp, Go, NoRequest, OrderInv, LoopInv, ShutdownInv, ProgressInv
<1>7. CASE Arrivals
  BY <1>7 DEF Arrivals, Accept, Go, OrderInv, LoopInv, ShutdownInv, ProgressInv
<1> QED
  BY <1>1, <1>2, <1>3, <1>4, <1>5, <1>6, <1>7 DEF ServeNext

LEMMA MainKeepsOrder ==
    ASSUME SchedInv, ShutdownNext \/ BeginShutdown \/ Deadline \/ OtherTakesSlot \/ OtherReturnsSlot
    PROVE  OrderInv'
<1> USE ProcFacts DEF SchedInv, LockType, Where, LoopType, RunType, ManualType, MainType
<1>1. CASE CancelWorkers
  <2>1. LoopType'
    BY <1>1 DEF CancelWorkers, Rest
  <2>2. LoopInv'
    BY <1>1 DEF CancelWorkers, Rest, LoopInv
  <2>3. ShutdownInv'
    BY <1>1 DEF CancelWorkers, Rest, ShutdownInv, LoopInv
  <2>4. ProgressInv'
    BY <1>1 DEF CancelWorkers, Rest, ProgressInv, LoopInv
  <2> QED
    BY <2>1, <2>2, <2>3, <2>4 DEF OrderInv
<1>2. CASE Return
  <2>1. LoopType'
    BY <1>2 DEF Return, Rest, RequestDone, BackgroundDone
  <2>2. LoopInv'
    BY <1>2 DEF Return, Rest, RequestDone, BackgroundDone, LoopInv
  <2>3. ShutdownInv'
    BY <1>2 DEF Return, Rest, RequestDone, BackgroundDone, ShutdownInv, LoopInv
  <2>4. ProgressInv'
    BY <1>2 DEF Return, Rest, RequestDone, BackgroundDone, ProgressInv, LoopInv
  <2> QED
    BY <2>1, <2>2, <2>3, <2>4 DEF OrderInv
<1>3. CASE CloseLate
  <2>1. LoopType'
    BY <1>3 DEF CloseLate, Rest, RequestDone, BackgroundDone
  <2>2. LoopInv'
    BY <1>3 DEF CloseLate, Rest, RequestDone, BackgroundDone, LoopInv
  <2>3. ShutdownInv'
    BY <1>3 DEF CloseLate, Rest, RequestDone, BackgroundDone, ShutdownInv, LoopInv
  <2>4. ProgressInv'
    BY <1>3 DEF CloseLate, Rest, RequestDone, BackgroundDone, ProgressInv, LoopInv
  <2> QED
    BY <2>1, <2>2, <2>3, <2>4 DEF OrderInv
<1>4. CASE BeginShutdown
  <2>1. LoopType'
    BY <1>4 DEF BeginShutdown, Rest, ManualDone
  <2>2. LoopInv'
    BY <1>4 DEF BeginShutdown, Rest, ManualDone, LoopInv
  <2>3. ShutdownInv'
    BY <1>4 DEF BeginShutdown, Rest, ManualDone, ShutdownInv, LoopInv
  <2>4. ProgressInv'
    BY <1>4 DEF BeginShutdown, Rest, ManualDone, ProgressInv, LoopInv
  <2> QED
    BY <2>1, <2>2, <2>3, <2>4 DEF OrderInv
<1>5. CASE Deadline
  <2>1. LoopType'
    BY <1>5 DEF Deadline, Rest
  <2>2. LoopInv'
    BY <1>5 DEF Deadline, Rest, LoopInv
  <2>3. ShutdownInv'
    BY <1>5 DEF Deadline, Rest, ShutdownInv, LoopInv
  <2>4. ProgressInv'
    BY <1>5 DEF Deadline, Rest, ProgressInv, LoopInv
  <2> QED
    BY <2>1, <2>2, <2>3, <2>4 DEF OrderInv
<1>6. CASE OtherTakesSlot
  <2>1. LoopType'
    <3>1. main' \in MainType
      <4>1. main \in MainType /\ main.others + 1 \in Nat
        BY SMT
      <4> HIDE DEF MainType
      <4> QED
        BY <1>6, <4>1, RecordCounters DEF OtherTakesSlot
    <3> QED
      BY <1>6, <3>1 DEF OtherTakesSlot, Rest
  <2>2. LoopInv'
    BY <1>6 DEF OtherTakesSlot, Rest, LoopInv
  <2>3. ShutdownInv'
    BY <1>6 DEF OtherTakesSlot, Rest, ShutdownInv, LoopInv
  <2>4. ProgressInv'
    BY <1>6 DEF OtherTakesSlot, Rest, ProgressInv, LoopInv
  <2> QED
    BY <2>1, <2>2, <2>3, <2>4 DEF OrderInv
<1>7. CASE OtherReturnsSlot
  <2>1. LoopType'
    <3>1. main' \in MainType
      <4>1. main \in MainType /\ main.others - 1 \in Nat
        BY <1>7 DEF OtherReturnsSlot
      <4> HIDE DEF MainType
      <4> QED
        BY <1>7, <4>1, RecordCounters DEF OtherReturnsSlot
    <3> QED
      BY <1>7, <3>1 DEF OtherReturnsSlot, Rest
  <2>2. LoopInv'
    BY <1>7 DEF OtherReturnsSlot, Rest, LoopInv
  <2>3. ShutdownInv'
    BY <1>7 DEF OtherReturnsSlot, Rest, ShutdownInv, LoopInv
  <2>4. ProgressInv'
    BY <1>7 DEF OtherReturnsSlot, Rest, ProgressInv, LoopInv
  <2> QED
    BY <2>1, <2>2, <2>3, <2>4 DEF OrderInv
<1> QED
  BY <1>1, <1>2, <1>3, <1>4, <1>5, <1>6, <1>7 DEF ShutdownNext
-----------------------------------------------------------------------------
LEMMA SchedulerInitially == Init => LockInv /\ SchedInv
<1> SUFFICES ASSUME Init PROVE LockInv /\ SchedInv
  OBVIOUS
<1> USE LockAssumption, ProcFacts DEF Init, LockInit
<1>1. LockType
  BY DEF LockType, Where
<1>2. RefersToAccount
  BY DEF RefersToAccount, Refers, Inside
<1>3. MapHasReferenced
  <2>1. ASSUME NEW l \in LockIds PROVE refs[l] = Cardinality(Referrers(ref, l))
    <3>1. Referrers(ref, l) = {}
      BY DEF Referrers
    <3> QED
      BY <3>1, FS_EmptySet
  <2> QED
    BY <2>1 DEF MapHasReferenced
<1>4. OneHolder
  BY DEF OneHolder, Holders
<1>5. LoopType
  <2>1. main \in MainType /\ manual \in ManualType
    BY Zenon DEF MainType, ManualType
  <2> QED
    BY <2>1 DEF LoopType, RunType, NoResult
<1>6. LoopInv /\ ProgressInv
  BY DEF LoopInv, ProgressInv
<1>7. ShutdownInv
  BY DEF ShutdownInv
<1> QED
  BY <1>1, <1>2, <1>3, <1>4, <1>5, <1>6, <1>7 DEF LockInv, SchedInv

LEMMA SchedulerPreserved == LockInv /\ SchedInv /\ [Next]_vars => (LockInv /\ SchedInv)'
<1> SUFFICES ASSUME LockInv, SchedInv, [Next]_vars PROVE (LockInv /\ SchedInv)'
  OBVIOUS
<1>1. CASE Next
  <2>1. LockInv'
    BY <1>1, StepKinds, LocksKept
  <2>2. OrderInv'
    BY <1>1, RunKeepsOrder, AutoKeepsOrder, ManualKeepsOrder, SeenKeepsOrder,
       SeenLoopKeepsOrder, ServeKeepsOrder, MainKeepsOrder DEF Next
  <2> QED
    BY <2>1, <2>2 DEF LockInv, SchedInv, OrderInv
<1>2. CASE UNCHANGED vars
  <2>1. OutsideStep
    BY <1>2 DEF vars, OutsideStep, SchedInv, LockType, Refers, Inside
  <2>2. LockInv'
    BY <2>1, LocksKept DEF LockStep
  <2>3. LoopType' /\ LoopInv' /\ ShutdownInv' /\ ProgressInv'
    BY <1>2 DEF vars, SchedInv, LoopType, LoopInv, ShutdownInv, ProgressInv
  <2> QED
    BY <2>2, <2>3 DEF LockInv, SchedInv
<1> QED
  BY <1>1, <1>2

LEMMA SchedulerInvariant == Spec => [](LockInv /\ SchedInv)
  BY SchedulerInitially, SchedulerPreserved, PTL DEF Spec

-----------------------------------------------------------------------------
(* The administrator is shown no progress of a sync that is over, and no   *)
(* failure that was an interruption (finishProgress, clearProgress,        *)
(* failureRecorder.record): ProgressInv has an owner for every entry, and  *)
(* the type of status has no interruption.                                 *)
THEOREM StatusHonestHolds == Spec => []StatusHonest
<1>1. SchedInv => StatusHonest
  BY DEF SchedInv, LoopType, ProgressInv, StatusHonest, NoStaleProgress,
         InterruptionNotRecorded
<1> QED
  BY <1>1, SchedulerInvariant, PTL

(* When main.run closes the database, neither the sync loop nor the seen   *)
(* worker, no automatic or manual sync and no request is left              *)
(* (shutdownHTTPAndWaitForBackground, waitForManualJobs, closeDBOnReturn), *)
(* also after a shutdown that ran into its deadline.                       *)
THEOREM DatabaseOutlivesOwnersHolds == Spec => []DatabaseOutlivesOwners
<1>1. SchedInv => DatabaseOutlivesOwners
  <2> SUFFICES ASSUME SchedInv, ~main.db
               PROVE  ended = Loops /\ \A p \in Procs : at[p] = "idle"
    BY DEF DatabaseOutlivesOwners
  <2>1. ended = Loops /\ at[Request] = "idle"
    BY DEF SchedInv, ShutdownInv
  <2>2. run.pc = "ended" /\ seen.pc = "ended" /\ manual.jobs = {}
    BY <2>1 DEF SchedInv, ShutdownInv, Loops
  <2>3. \A a \in Accounts :
           at[Automatic(a)] = "idle" /\ at[Manual(a)] = "idle" /\ at[Seen(a)] = "idle"
    BY <2>2 DEF SchedInv, LoopInv
  <2> QED
    BY <2>1, <2>3, ProcFacts
<1> QED
  BY <1>1, SchedulerInvariant, PTL

-----------------------------------------------------------------------------
\* The abstract owners are the holders, each with its own account.
LEMMA OwnersAreHolders ==
    /\ {o[1] : o \in {<<p, AccountOf(p)>> : p \in Holders}} = Holders
    /\ \A p : {o \in {<<q, AccountOf(q)>> : q \in Holders} : o[1] # p}
              = {<<q, AccountOf(q)>> : q \in Holders \ {p}}
<1> DEFINE pair(p) == <<p, AccountOf(p)>>
<1>1. \A p : pair(p)[1] = p
  OBVIOUS
<1> HIDE DEF pair
<1>2. {o[1] : o \in {pair(p) : p \in Holders}} = Holders
  BY <1>1
<1>3. ASSUME NEW p
      PROVE  {o \in {pair(q) : q \in Holders} : o[1] # p} = {pair(q) : q \in Holders \ {p}}
  BY <1>1
<1> QED
  BY <1>2, <1>3 DEF pair

\* Steps that move nobody into or out of an account.
LEMMA QuietStep ==
    ASSUME LockInv, LockStep, Holders' = Holders, Connected' = Connected,
           Request \in Holders => UNCHANGED request
    PROVE  UNCHANGED Mutex!vars
<1>1. \A p \in Holders : AccountOf(p)' = AccountOf(p)
  BY AccountOfFixed DEF Holders
<1>2. {<<p, AccountOf(p)'>> : p \in Holders'} = {<<p, AccountOf(p)>> : p \in Holders}
  BY <1>1
<1> QED
  BY <1>2 DEF Mutex!vars

\* A process takes an account nobody has.
LEMMA AcquireStep ==
    ASSUME LockInv, NEW p \in Procs, TakeStep(p) \/ TryStep(p)
    PROVE  \E a \in Accounts : Mutex!Acquire(p, a)
<1>1. PICK a \in Accounts : a = AccountOf(p) /\ request' = request
  BY DEF TakeStep, TryStep, LockInv, RefersToAccount, Refers, Inside
<1>2. /\ p \notin Holders /\ Holders' = Holders \cup {p} /\ Connected' = Connected
  BY DEF TakeStep, TryStep, Go, Holders, Connected, LockInv, LockType
<1>3. ASSUME NEW q \in Holders, AccountOf(q) = a
      PROVE  FALSE
  <2>1. locks[a] = ref[q] /\ ref[q] # NoLock /\ token[ref[q]]
    BY <1>3 DEF LockInv, RefersToAccount, OneHolder, Holders, Refers, Inside
  <2>2. CASE TakeStep(p)
    <3>1. ~token[ref[p]] /\ locks[a] = ref[p]
      BY <1>1, <2>2 DEF TakeStep, TakeToken, LockInv, RefersToAccount, Refers, Inside
    <3> QED
      BY <2>1, <3>1
  <2>3. CASE TryStep(p)
    BY <1>1, <2>1, <2>3 DEF TryStep, Busy
  <2> QED
    BY <2>2, <2>3
<1>4. \A q \in Procs : AccountOf(q)' = AccountOf(q)
  BY <1>1, AccountOfFixed
<1>5. {<<q, AccountOf(q)'>> : q \in Holders'}
      = {<<q, AccountOf(q)>> : q \in Holders} \cup {<<p, a>>}
  BY <1>1, <1>2, <1>4 DEF Holders
<1>6. \A o \in {<<q, AccountOf(q)>> : q \in Holders} : o[2] # a
  BY <1>3
<1>7. Mutex!Acquire(p, a)
  BY <1>2, <1>5, <1>6, OwnersAreHolders DEF Mutex!Acquire, Mutex!Owners
<1> QED
  BY <1>7

\* The instance counts as this module does.
LEMMA SameCardinality == \A S : Mutex!Cardinality(S) = Cardinality(S)
  BY Zenon DEF Cardinality, Mutex!Cardinality

\* An owner takes one of the slots that are left.
LEMMA SlotStep ==
    ASSUME LockInv, SchedInv, NEW p \in Procs, ConnectStep(p)
    PROVE  Mutex!Connect(p)
<1>1. /\ p \in Holders \ Connected /\ Holders' = Holders /\ Connected' = Connected \cup {p}
      /\ request' = request
  BY DEF ConnectStep, Go, Holders, Connected, LockInv, LockType
<1>2. Cardinality(Connected) < Slots
  <2>1. IsFiniteSet(Connected)
    BY LockSupply, FS_Subset DEF Connected
  <2>2. Cardinality(Connected) \in Nat /\ main.others \in Nat /\ Slots \in Nat
    BY <2>1, FS_CardinalityType, SchedulerAssumption DEF SchedInv, LoopType, MainType
  <2> QED
    BY <2>2 DEF ConnectStep, SlotFree
<1>3. {<<q, AccountOf(q)'>> : q \in Holders'} = {<<q, AccountOf(q)>> : q \in Holders}
  BY <1>1, AccountOfFixed DEF Holders
<1>4. Mutex!Owners = Holders
  BY OwnersAreHolders DEF Mutex!Owners
<1> QED
  BY <1>1, <1>2, <1>3, <1>4, SameCardinality DEF Mutex!Connect

\* An owner gives up its account, and its slot if it has one.
LEMMA LetGoStep ==
    ASSUME LockInv, NEW p \in Procs, ReleaseStep(p)
    PROVE  Mutex!Release(p)
<1>1. /\ p \in Holders /\ Holders' = Holders \ {p} /\ Connected' = Connected \ {p}
      /\ p # Request => UNCHANGED request
  BY DEF ReleaseStep, Leaves, Go, Holders, Connected, Where, Inside, LockInv, LockType
<1>2. \A q \in Holders \ {p} : AccountOf(q)' = AccountOf(q)
  BY <1>1, AccountOfFixed DEF Holders
<1>3. {<<q, AccountOf(q)'>> : q \in Holders'} = {<<q, AccountOf(q)>> : q \in Holders \ {p}}
  BY <1>1, <1>2
<1> QED
  BY <1>1, <1>3, OwnersAreHolders DEF Mutex!Release, Mutex!Owners

LEMMA StepImplementsMutex ==
    LockInv /\ SchedInv /\ [Next]_vars => [Mutex!Next]_(Mutex!vars)
<1> SUFFICES ASSUME LockInv, SchedInv, [Next]_vars
             PROVE  Mutex!Next \/ UNCHANGED Mutex!vars
  OBVIOUS
<1>1. LockStep
  <2>1. CASE UNCHANGED vars
    BY <2>1 DEF vars, LockStep, OutsideStep, LockInv, LockType, Refers, Inside
  <2> QED
    BY <2>1, StepKinds
<1>2. ASSUME NEW p \in Procs, EnqueueStep(p) \/ GiveUpStep(p)
      PROVE  UNCHANGED Mutex!vars
  <2>1. Holders' = Holders /\ Connected' = Connected
    BY <1>2 DEF EnqueueStep, GiveUpStep, Leaves, Go, Where, Inside, Holders, Connected,
                LockInv, LockType
  <2>2. Request \in Holders => UNCHANGED request
    BY <1>2 DEF EnqueueStep, GiveUpStep, Holders
  <2> QED
    BY <1>1, <2>1, <2>2, QuietStep
<1>3. ASSUME OutsideStep
      PROVE  UNCHANGED Mutex!vars
  <2>1. Holders' = Holders /\ Connected' = Connected
    BY <1>3 DEF OutsideStep, Holders, Connected, Refers, Inside
  <2>2. Request \in Holders => UNCHANGED request
    BY <1>3 DEF OutsideStep, Holders, Refers, Inside
  <2> QED
    BY <1>1, <2>1, <2>2, QuietStep
<1>4. ASSUME NEW p \in Procs,
             TakeStep(p) \/ TryStep(p) \/ ConnectStep(p) \/ ReleaseStep(p)
      PROVE  Mutex!Next
  <2>1. CASE TakeStep(p) \/ TryStep(p)
    BY <2>1, AcquireStep DEF Mutex!Next
  <2>2. CASE ConnectStep(p)
    BY <2>2, SlotStep DEF Mutex!Next
  <2>3. CASE ReleaseStep(p)
    BY <2>3, LetGoStep DEF Mutex!Next
  <2> QED
    BY <1>4, <2>1, <2>2, <2>3
<1> QED
  BY <1>1, <1>2, <1>3, <1>4 DEF LockStep

(* The reference-counted lock objects of syncer/manager.go and the slots   *)
(* implement AccountMutex: each account has one owner at a time, however   *)
(* many processes queue, try, give up or come back, and at most Slots      *)
(* owners are connected to the mailboxes.                                  *)
THEOREM LocksImplementMutex == Spec => ImplementsMutex
<1>1. Init => Mutex!Init
  BY DEF Init, Mutex!Init, Holders, Connected
<1> QED
  BY <1>1, SchedulerInvariant, StepImplementsMutex, PTL
     DEF Spec, ImplementsMutex, Mutex!Spec
=============================================================================
