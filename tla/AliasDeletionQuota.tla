------------------------- MODULE AliasDeletionQuota -------------------------
(***************************************************************************)
(* The durable Apple deletion allowance (store/alias_deletion_quota.go)    *)
(* and the lease that one deletion attempt holds on it                     *)
(* (hmesync/alias_delete_queue.go: aliasDeletionLease).                    *)
(*                                                                         *)
(* Every store function is one SQL transaction that first takes the write  *)
(* lock of the principal's row, so each is one atomic step here.  Between  *)
(* these steps attempts of several entry points (the queue, the batch and  *)
(* the single deletion), the clock, Apple and crashes interleave freely.   *)
(* A lease uses a fresh random reservation ID, so a lease names its row.   *)
(* Time is a discrete clock that starts at 1; 0 stands for "no time".      *)
(* A definition Op_Flaw is a faulty Op, used only to test the properties.  *)
(***************************************************************************)
EXTENDS Naturals, FiniteSets, FiniteSetsExt

CONSTANTS
    Principals,      \* verified Apple identities (region:DSID)
    Leases,          \* deletion attempts, each with its own reservation ID
    PrincipalOf,     \* the principal a lease is charged to
    Limit,           \* aliasDeletionQuotaLimit (200)
    AppleWindow,     \* Apple's rolling window (60 minutes)
    Lag,             \* how long after the call returned Apple may still apply it
    Window,          \* aliasDeletionQuotaWindow (1 hour + 5 s)
    Lifetime,        \* aliasDeletionReservationLifetime (2 hours)
    CallTimeout,     \* deadlines of the delete call and of its accounting
    RetryDelays,     \* Retry-After hints (1 hour when Apple sends none)
    MaxThrottles,    \* bound on the throttle answers on record
    MaxTime          \* bound on the clock

ASSUME QuotaAssumption ==
    /\ IsFiniteSet(Leases)
    /\ PrincipalOf \in [Leases -> Principals]
    /\ Limit \in Nat \ {0}
    /\ {AppleWindow, Lag, Window, Lifetime, CallTimeout, MaxThrottles, MaxTime} \subseteq Nat
    /\ RetryDelays \subseteq Nat
    /\ AppleWindow > 0
    /\ AppleWindow + Lag <= Window
    /\ Window <= Lifetime
    /\ CallTimeout + Lag + AppleWindow <= Lifetime

VARIABLES
    now,        \* the clock
    cooldown,   \* alias_deletion_quota_principals.cooldown_until
    throttles,  \* throttle answers of Apple, and whether their end is stored
    row,        \* alias_deletion_quota_reservations, "none" = no row
    phase,      \* where the attempt that owns the lease is
    retryAt,    \* RetryAt of the refusal a waiting attempt received
    deadline,   \* when the attempt's current delete call gives up
    wire,       \* until when Apple may still apply the sent delete, 0 = never
    applied     \* when Apple applied the delete, 0 = it has not

vars == <<now, cooldown, throttles, row, phase, retryAt, deadline, wire, applied>>

RowStates == {"none", "reserved", "sent", "committed"}
Rows == [state : RowStates, accounted : Nat, expires : Nat]
NoRow == [state |-> "none", accounted |-> 0, expires |-> 0]
Throttles == [of : Principals, until : Nat, stored : BOOLEAN]

Phases == {"idle", "waiting", "held", "marked", "calling", "answered", "done"}

Later(a, b) == IF a >= b THEN a ELSE b

-----------------------------------------------------------------------------
(* readAliasDeletionQuota: rows of the principal that have not expired.    *)
Live(p) ==
    {l \in Leases : PrincipalOf[l] = p /\ row[l].state # "none"
                                       /\ row[l].expires > now}

Used(p) == Cardinality(Live(p))

(* aliasDeletionQuotaSnapshot.result: RetryAt is the later of the earliest *)
(* expiry (when no slot is free) and the upstream cooldown.                *)
SlotRefused_OffByOne(p, owns) == ~owns /\ Used(p) > Limit
SlotRefused(p, owns) == ~owns /\ Used(p) >= Limit
Cooling(p) == cooldown[p] > now
Refused(p, owns) == SlotRefused(p, owns) \/ Cooling(p)

RetryAtOf(p, owns) ==
    Later(IF SlotRefused(p, owns) THEN Min({row[l].expires : l \in Live(p)}) ELSE 0,
          IF Cooling(p) THEN cooldown[p] ELSE 0)

(* ReserveAliasDeletionQuota's ownsReservation.                            *)
Owns(l) ==
    \/ row[l].state \in {"sent", "committed"}
    \/ row[l].state = "reserved" /\ row[l].expires > now

ReservedRow ==
    [state |-> "reserved", accounted |-> now, expires |-> now + Lifetime]

SentRow_Accumulates(r) ==
    LET at == Later(r.accounted, now)
    IN  [state |-> "sent", accounted |-> at, expires |-> r.expires + Lifetime]
SentRow(r) ==
    LET at == Later(r.accounted, now)
    IN  [state |-> "sent", accounted |-> at, expires |-> Later(r.expires, at + Lifetime)]

CommittedRow_FromSend(r) ==
    [state |-> "committed", accounted |-> r.accounted, expires |-> r.accounted + Window]
CommittedRow(r) ==
    LET at == Later(r.accounted, now)
    IN  [state |-> "committed", accounted |-> at, expires |-> at + Window]

(* ReleaseAliasDeletionQuota deletes only a row that is still reserved.    *)
ReleasedRow_Any(r) == NoRow
ReleasedRow_Kept(r) == IF r.state = "reserved" THEN [r EXCEPT !.state = "released"] ELSE r
ReleasedRow(r) == IF r.state = "reserved" THEN NoRow ELSE r

-----------------------------------------------------------------------------
Init ==
    /\ now = 1
    /\ cooldown = [p \in Principals |-> 0] /\ throttles = {}
    /\ row = [l \in Leases |-> NoRow]
    /\ phase = [l \in Leases |-> "idle"]
    /\ retryAt = [l \in Leases |-> 0]
    /\ deadline = [l \in Leases |-> 0]
    /\ wire = [l \in Leases |-> 0]
    /\ applied = [l \in Leases |-> 0]

(* Time passes, but never beyond the deadline of a delete call: the call   *)
(* and its accounting run under context.WithTimeout.                       *)
Tick ==
    /\ now < MaxTime
    /\ \A l \in Leases : phase[l] \in {"marked", "calling", "answered"} => now < deadline[l]
    /\ now' = now + 1
    /\ UNCHANGED <<cooldown, throttles, row, phase, retryAt, deadline, wire, applied>>

(* reserveQuota.  A waiting attempt comes back no earlier than the RetryAt *)
(* it was given; an attempt may also repeat the call for an ID it holds    *)
(* (the store makes that idempotent).                                      *)
Reserve(l) ==
    LET p == PrincipalOf[l] IN
    /\ \/ phase[l] \in {"idle", "held"}
       \/ phase[l] = "waiting" /\ now >= retryAt[l]
    /\ \/ /\ Refused(p, Owns(l))
          /\ phase' = [phase EXCEPT ![l] = "waiting"]
          /\ retryAt' = [retryAt EXCEPT ![l] = RetryAtOf(p, Owns(l))]
          /\ row' = row
       \/ /\ ~Refused(p, Owns(l))
          /\ phase' = [phase EXCEPT ![l] = "held"]
          /\ retryAt' = [retryAt EXCEPT ![l] = 0]
          /\ row' = IF Owns(l) THEN row ELSE [row EXCEPT ![l] = ReservedRow]
    /\ UNCHANGED <<now, cooldown, throttles, deadline, wire, applied>>

(* lease.release: the deferred release of an attempt that did not send.    *)
(* It is bounded by its own timeout and its failure is tolerated.          *)
Release(l) ==
    /\ phase[l] = "held"
    /\ phase' = [phase EXCEPT ![l] = "done"]
    /\ row' \in {row, [row EXCEPT ![l] = ReleasedRow(row[l])]}
    /\ UNCHANGED <<now, cooldown, throttles, retryAt, deadline, wire, applied>>

(* lease.markSent.  The transaction may commit although the caller sees an *)
(* error; the attempt then stops and its deferred release follows.         *)
MarkSent(l) ==
    /\ phase[l] = "held"
    /\ row[l].state \in {"reserved", "sent"}
    /\ row[l].expires > now
    /\ row' = [row EXCEPT ![l] = SentRow(row[l])]
    /\ \/ /\ phase' = [phase EXCEPT ![l] = "marked"]
          /\ deadline' = [deadline EXCEPT ![l] = now + CallTimeout]
       \/ UNCHANGED <<phase, deadline>>
    /\ UNCHANGED <<now, cooldown, throttles, retryAt, wire, applied>>

(* The context may be cancelled between the checkpoint and the request.    *)
StopBeforeSend(l) ==
    /\ phase[l] = "marked"
    /\ phase' = [phase EXCEPT ![l] = "done"]
    /\ UNCHANGED <<now, cooldown, throttles, row, retryAt, deadline, wire, applied>>

(* client.DeleteAlias puts the request on the wire ...                     *)
Send(l) ==
    /\ phase[l] = "marked"
    /\ phase' = [phase EXCEPT ![l] = "calling"]
    /\ wire' = [wire EXCEPT ![l] = deadline[l] + Lag]
    /\ UNCHANGED <<now, cooldown, throttles, row, retryAt, deadline, applied>>

(* ... Apple applies it, perhaps after the client gave up ...              *)
AppleApply(l) ==
    /\ wire[l] >= now
    /\ wire' = [wire EXCEPT ![l] = 0]
    /\ applied' = [applied EXCEPT ![l] = now]
    /\ UNCHANGED <<now, cooldown, throttles, row, phase, retryAt, deadline>>

(* ... and the call returns: an answer, a transport error or a timeout.    *)
Return(l) ==
    /\ phase[l] = "calling"
    /\ phase' = [phase EXCEPT ![l] = "answered"]
    /\ wire' = IF wire[l] = 0 THEN wire ELSE [wire EXCEPT ![l] = now + Lag]
    /\ UNCHANGED <<now, cooldown, throttles, row, retryAt, deadline, applied>>

(* lease.commit, which runs after every delete call; a failure to persist  *)
(* leaves the two-hour lease in place.                                     *)
Commit(l) ==
    /\ phase[l] = "answered"
    /\ phase' = [phase EXCEPT ![l] = "done"]
    /\ row' \in {row, [row EXCEPT ![l] = CommittedRow(row[l])]}
    /\ UNCHANGED <<now, cooldown, throttles, retryAt, deadline, wire, applied>>

(* A request of some attempt (a validation, a listing, a deactivation or a *)
(* deletion) is answered with a throttle.  The attempt computes its end    *)
(* from the Retry-After at once (acceptResponse, deferQuota) ...           *)
Throttle(p, d) ==
    /\ Cardinality(throttles) < MaxThrottles
    /\ throttles' = throttles \cup {[of |-> p, until |-> now + d, stored |-> FALSE]}
    /\ UNCHANGED <<now, cooldown, row, phase, retryAt, deadline, wire, applied>>

(* ... and stores it later, in the order in which the attempts come to it  *)
(* (DeferAliasDeletionQuota).                                              *)
DeferQuota_Overwrites(x) ==
    /\ ~x.stored
    /\ cooldown' = [cooldown EXCEPT ![x.of] = x.until]
    /\ throttles' = (throttles \ {x}) \cup {[x EXCEPT !.stored = TRUE]}
    /\ UNCHANGED <<now, row, phase, retryAt, deadline, wire, applied>>
DeferQuota(x) ==
    /\ ~x.stored
    /\ cooldown' = [cooldown EXCEPT ![x.of] = Later(@, x.until)]
    /\ throttles' = (throttles \ {x}) \cup {[x EXCEPT !.stored = TRUE]}
    /\ UNCHANGED <<now, row, phase, retryAt, deadline, wire, applied>>

(* The process dies: every attempt is forgotten with the answer that it    *)
(* had not stored, the tables and the requests already on the wire are     *)
(* not.  Waiting work is retried.                                          *)
Crash ==
    /\ \/ \E l \in Leases : phase[l] \notin {"idle", "done"}
       \/ \E x \in throttles : ~x.stored
    /\ phase' = [l \in Leases |-> IF phase[l] \in {"idle", "waiting"} THEN "idle" ELSE "done"]
    /\ retryAt' = [l \in Leases |-> 0]
    /\ throttles' = {x \in throttles : x.stored}
    /\ UNCHANGED <<now, cooldown, row, deadline, wire, applied>>

Next ==
    \/ Tick
    \/ Crash
    \/ \E p \in Principals, d \in RetryDelays : Throttle(p, d)
    \/ \E x \in throttles : DeferQuota(x)
    \/ \E l \in Leases :
          \/ Reserve(l) \/ Release(l) \/ MarkSent(l) \/ StopBeforeSend(l)
          \/ Send(l) \/ AppleApply(l) \/ Return(l) \/ Commit(l)

Spec == Init /\ [][Next]_vars

-----------------------------------------------------------------------------
(* Types of the tables, of the attempts and of the clock.                  *)
TypeOK ==
    /\ now \in Nat \ {0}
    /\ cooldown \in [Principals -> Nat] /\ throttles \subseteq Throttles
    /\ row \in [Leases -> Rows]
    /\ phase \in [Leases -> Phases]
    /\ retryAt \in [Leases -> Nat]
    /\ deadline \in [Leases -> Nat]
    /\ wire \in [Leases -> Nat]
    /\ applied \in [Leases -> Nat]

(* Deletions of principal p that Apple applied within its window.          *)
Recent(p) ==
    {l \in Leases : /\ PrincipalOf[l] = p
                    /\ applied[l] # 0
                    /\ applied[l] + AppleWindow > now}

(* README "at most 200 deletions per Apple principal in the last 60        *)
(* minutes": Apple never applies more than Limit deletions of one          *)
(* principal within any AppleWindow, whatever crashes, lost accounting     *)
(* writes and late requests happen.                                        *)
RollingWindow == \A p \in Principals : Cardinality(Recent(p)) <= Limit

(* The reservations that ReserveAliasDeletionQuota counts never exceed the *)
(* limit: no transition other than a granted reserve makes a row live.     *)
Occupancy == \A p \in Principals : Used(p) <= Limit

(* MarkAliasDeletionQuotaSent's comment: a sent reservation can no longer  *)
(* be released as an unsent operation, even when the caller saw the        *)
(* checkpoint fail and releases its lease.                                 *)
SentNeverReleased ==
    [][\A l \in Leases : row[l].state \in {"sent", "committed"}
                            => row'[l].state \in {"sent", "committed"}]_vars

(* DeferAliasDeletionQuota "persists the latest upstream cooldown": no     *)
(* attempt gets a slot before the end of any throttle that Apple answered  *)
(* to any attempt of the principal and that was stored, in whatever order  *)
(* answers with longer and shorter delays were stored, and whatever crashed*)
(* meanwhile.                                                              *)
ThrottleHonoured ==
    [][\A l \in Leases : row'[l] # row[l] /\ row'[l].state = "reserved" =>
          \A x \in throttles : x.of = PrincipalOf[l] /\ x.stored => x.until <= now]_vars

(* A refused attempt is told to come back within the longest lease or the  *)
(* longest Retry-After: leases and cooldowns renew but never accumulate.   *)
BoundedWait ==
    \A l \in Leases : phase[l] = "waiting" =>
        \/ retryAt[l] <= now + Lifetime
        \/ \E d \in RetryDelays : retryAt[l] <= now + d
=============================================================================
