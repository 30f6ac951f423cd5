---------------------------- MODULE AccountLocks ----------------------------
(***************************************************************************)
(* The keyed account locks of syncer/manager.go: a map from accounts to    *)
(* lock objects, each with a one-token channel and a count of the callers  *)
(* that refer to it.  An object leaves the map with its last reference, so *)
(* that an account without an entry is free.  Every operator here is one   *)
(* critical section of locksMu, or one channel operation.                  *)
(***************************************************************************)
EXTENDS Naturals, FiniteSets

CONSTANTS
    Accounts, Procs,
    LockIds,      \* lock objects
    NoLock

ASSUME LockAssumption == NoLock \notin LockIds

\* A process needs one lock object at a time, so that a new one can always be had.
ASSUME LockSupply ==
    /\ IsFiniteSet(Procs)
    /\ IsFiniteSet(LockIds) => Cardinality(Procs) <= Cardinality(LockIds)

VARIABLES
    locks,   \* Manager.locks: the current object of every account
    refs,    \* accountLock.refs
    token,   \* whether accountLock.token is taken
    ref      \* the object each process refers to

lockVars == <<locks, refs, token, ref>>

LockInit ==
    /\ locks = [a \in Accounts |-> NoLock]
    /\ refs = [l \in LockIds |-> 0]
    /\ token = [l \in LockIds |-> FALSE]
    /\ ref = [p \in Procs |-> NoLock]

NewLock == CHOOSE l \in LockIds : refs[l] = 0

(* acquireAccountUntil, until the caller waits for the token.              *)
Enqueue(p, a) ==
    LET l == IF locks[a] = NoLock THEN NewLock ELSE locks[a]
    IN  /\ locks' = [locks EXCEPT ![a] = l]
        /\ refs' = [refs EXCEPT ![l] = @ + 1]
        /\ ref' = [ref EXCEPT ![p] = l]
        /\ UNCHANGED token

(* ... and receives it.                                                    *)
TakeToken(p) ==
    /\ ~token[ref[p]]
    /\ token' = [token EXCEPT ![ref[p]] = TRUE]
    /\ UNCHANGED <<locks, refs, ref>>

(* releaseAccountLock: the last reference removes the object.              *)
Unref_AlwaysDelete(p) ==
    /\ refs' = [refs EXCEPT ![ref[p]] = @ - 1]
    /\ locks' = [a \in Accounts |-> IF locks[a] = ref[p] THEN NoLock ELSE locks[a]]
    /\ ref' = [ref EXCEPT ![p] = NoLock]
Unref(p) ==
    /\ refs' = [refs EXCEPT ![ref[p]] = @ - 1]
    /\ locks' = [a \in Accounts |-> IF refs[ref[p]] = 1 /\ locks[a] = ref[p]
                                    THEN NoLock ELSE locks[a]]
    /\ ref' = [ref EXCEPT ![p] = NoLock]

(* The waiter's context ended first.                                       *)
GiveUp(p) == Unref(p) /\ UNCHANGED token

(* tryAcquireAccount *)
Busy(a) == locks[a] # NoLock
TryAcquire(p, a) ==
    /\ locks' = [locks EXCEPT ![a] = NewLock]
    /\ refs' = [refs EXCEPT ![NewLock] = 1]
    /\ token' = [token EXCEPT ![NewLock] = TRUE]
    /\ ref' = [ref EXCEPT ![p] = NewLock]

(* The release function: the token, then the reference.  Between the two   *)
(* only tryAcquireAccount could look, and it would skip a busy account as  *)
(* it does before the release.                                             *)
Release(p) == token' = [token EXCEPT ![ref[p]] = FALSE] /\ Unref(p)
=============================================================================
