---------------------- MODULE AliasDeletionQuotaProofs ----------------------
(***************************************************************************)
(* Proofs that the durable deletion allowance is safe for every number of  *)
(* leases and principals and every choice of the limit and the durations.  *)
(*                                                                         *)
(* The argument: a delete that Apple applied, or may still apply, is       *)
(* always covered by a row that outlives Apple's window (Covered), so the  *)
(* deletions Apple counts are among the rows the store counts (Recent is a *)
(* subset of Live), and the store never grants a row beyond the limit.     *)
(* A stored throttle is covered by the principal's cooldown for good       *)
(* (AnswersKept), whichever attempt stores which answer last.              *)
(***************************************************************************)
EXTENDS AliasDeletionQuota, TLAPS, FiniteSetTheorems, WellFoundedInduction

(* The rows that keep an applied, pending or in-flight delete accounted.   *)
Sent(l) == row[l].state \in {"sent", "committed"}

CoveredLease(l) ==
    /\ applied[l] # 0 => /\ Sent(l)
                         /\ applied[l] <= now
                         /\ row[l].expires >= applied[l] + AppleWindow
    /\ wire[l] # 0 => /\ Sent(l)
                      /\ row[l].expires >= wire[l] + AppleWindow
    /\ phase[l] \in {"marked", "calling", "answered"} =>
          /\ row[l].state = "sent"
          /\ now <= deadline[l]
          /\ row[l].expires >= deadline[l] + Lag + AppleWindow
    /\ phase[l] = "answered" => wire[l] <= now + Lag

Covered == \A l \in Leases : CoveredLease(l)

(* No row or cooldown reaches further than one renewal from now.           *)
Bounded ==
    /\ \A l \in Leases : row[l].accounted <= now /\ row[l].expires <= now + Lifetime
    /\ \A p \in Principals :
          cooldown[p] = 0 \/ \E d \in RetryDelays : cooldown[p] <= now + d

(* A throttle on record ends within a Retry-After, and once it is stored   *)
(* the principal's cooldown lasts at least as long.                        *)
AnswersKept ==
    \A x \in throttles :
        /\ \E d \in RetryDelays : x.until <= now + d
        /\ x.stored => cooldown[x.of] >= x.until

IInv == TypeOK /\ Occupancy /\ Covered /\ Bounded /\ AnswersKept /\ BoundedWait

-----------------------------------------------------------------------------
(* The earliest expiry that aliasDeletionQuotaSnapshot.result reports is   *)
(* one of the expiries it was computed from.                               *)
LEMMA MinIsMember ==
    ASSUME NEW S, S \subseteq Nat, S # {}
    PROVE  Min(S) \in S
<1> DEFINE R == {ss \in Nat \X Nat : ss[1] < ss[2]}
<1>1. IsWellFoundedOn(R, Nat)
  BY NatLessThanWellFounded, Zenon DEF OpToRel
<1>a. ASSUME NEW a \in Nat, NEW b \in Nat, a < b
      PROVE  <<a, b>> \in R
  <2>1. <<a, b>> \in Nat \X Nat /\ <<a, b>>[1] < <<a, b>>[2]
    BY <1>a
  <2>2. QED
    BY <2>1, Zenon
<1> HIDE DEF R
<1>2. PICK x \in S : \A y \in S : <<y, x>> \notin R
  BY <1>1, WFMin
<1>3. ASSUME NEW y \in S
      PROVE  x =< y
  <2>1. x \in Nat /\ y \in Nat
    OBVIOUS
  <2>2. ~(y < x)
    BY <2>1, <1>2, <1>a, Zenon
  <2>3. QED
    BY <2>1, <2>2
<1>4. QED
  BY <1>3 DEF Min

(* The rows counted against a principal form a finite set of leases.       *)
LEMMA LiveFinite ==
    ASSUME NEW p \in Principals
    PROVE  IsFiniteSet(Live(p)) /\ Used(p) \in Nat
<1>1. Live(p) \subseteq Leases
  BY DEF Live
<1>2. IsFiniteSet(Live(p))
  BY <1>1, FS_Subset, QuotaAssumption
<1>3. QED
  BY <1>2, FS_CardinalityType DEF Used

(* A refusal by aliasDeletionQuotaSnapshot.result carries a time bounded   *)
(* by the longest lease or the longest Retry-After.                        *)
LEMMA RetryAtBounded ==
    ASSUME TypeOK, Bounded, NEW p \in Principals, NEW owns \in BOOLEAN
    PROVE  /\ RetryAtOf(p, owns) \in Nat
           /\ \/ RetryAtOf(p, owns) <= now + Lifetime
              \/ \E d \in RetryDelays : RetryAtOf(p, owns) <= now + d
<1> DEFINE E == {row[l].expires : l \in Live(p)}
           m == IF SlotRefused(p, owns) THEN Min(E) ELSE 0
           c == IF Cooling(p) THEN cooldown[p] ELSE 0
<1>1. Lifetime \in Nat /\ RetryDelays \subseteq Nat /\ now \in Nat /\ Limit \in Nat \ {0}
  BY QuotaAssumption DEF TypeOK
<1>2. E \subseteq Nat /\ \A e \in E : e <= now + Lifetime
  BY DEF Live, TypeOK, Rows, Bounded
<1>3. SlotRefused(p, owns) => E # {}
  <2>1. SUFFICES ASSUME SlotRefused(p, owns), Live(p) = {} PROVE FALSE
    OBVIOUS
  <2>2. Used(p) = 0
    BY <2>1, FS_EmptySet DEF Used
  <2>3. QED
    BY <2>1, <2>2, <1>1 DEF SlotRefused
<1>4. m \in Nat /\ m <= now + Lifetime
  <2>1. CASE SlotRefused(p, owns)
    <3>1. Min(E) \in E
      BY <2>1, <1>2, <1>3, MinIsMember
    <3>2. QED
      BY <3>1, <2>1, <1>2
  <2>2. CASE ~SlotRefused(p, owns)
    BY <2>2, <1>1
  <2>3. QED
    BY <2>1, <2>2
<1>5. c \in Nat /\ (c = 0 \/ \E d \in RetryDelays : c <= now + d)
  BY DEF TypeOK, Bounded
<1>6. RetryAtOf(p, owns) = Later(m, c)
  BY DEF RetryAtOf
<1> HIDE DEF m, c, E
<1>7. QED
  BY <1>1, <1>4, <1>5, <1>6 DEF Later

-----------------------------------------------------------------------------
(* The empty tables with which a new installation starts.                  *)
LEMMA InitIInv == Init => IInv
<1>1. SUFFICES ASSUME Init PROVE IInv
  OBVIOUS
<1> USE QuotaAssumption
<1>2. TypeOK
  BY <1>1 DEF Init, TypeOK, NoRow, Rows, RowStates, Phases
<1>3. Occupancy
  <2>1. SUFFICES ASSUME NEW p \in Principals PROVE Used(p) <= Limit
    BY DEF Occupancy
  <2>2. Live(p) = {}
    BY <1>1 DEF Init, Live, NoRow
  <2>3. QED
    BY <2>2, FS_EmptySet DEF Used
<1>4. Covered
  BY <1>1 DEF Init, Covered, CoveredLease
<1>5. Bounded
  BY <1>1 DEF Init, Bounded, NoRow
<1>6. AnswersKept
  BY <1>1 DEF Init, AnswersKept
<1>7. BoundedWait
  BY <1>1 DEF Init, BoundedWait
<1>8. QED
  BY <1>2, <1>3, <1>4, <1>5, <1>6, <1>7 DEF IInv

(* Every operation keeps the tables, the attempts and the clock well       *)
(* typed; the only delicate case is the RetryAt of a refused reservation.  *)
LEMMA TypeStep ==
    ASSUME IInv, Next
    PROVE  TypeOK'
<1> USE QuotaAssumption DEF TypeOK, Rows, RowStates, Phases
<1>0. TypeOK /\ Bounded
  BY DEF IInv
<1>1. CASE Tick
  BY <1>0, <1>1 DEF Tick
<1>2. CASE Crash
  BY <1>0, <1>2 DEF Crash
<1>a. ASSUME NEW p \in Principals, NEW d \in RetryDelays, Throttle(p, d)
      PROVE  TypeOK'
  <2>1. [of |-> p, until |-> now + d, stored |-> FALSE] \in Throttles
    BY <1>0 DEF Throttles
  <2>2. throttles' \subseteq Throttles
    BY <2>1, <1>0, <1>a DEF Throttle
  <2>3. QED
    BY <2>2, <1>0, <1>a DEF Throttle
<1>3. ASSUME NEW x \in throttles, DeferQuota(x)
      PROVE  TypeOK'
  <2>1. x.of \in Principals /\ x.until \in Nat /\ [x EXCEPT !.stored = TRUE] \in Throttles
    BY <1>0 DEF Throttles
  <2>2. throttles' \subseteq Throttles
    BY <2>1, <1>0, <1>3 DEF DeferQuota
  <2>3. Later(cooldown[x.of], x.until) \in Nat
    BY <2>1, <1>0 DEF Later
  <2>4. cooldown' \in [Principals -> Nat]
    BY <2>1, <2>3, <1>0, <1>3 DEF DeferQuota
  <2>5. QED
    BY <2>2, <2>4, <1>0, <1>3 DEF DeferQuota
<1>4. ASSUME NEW l \in Leases, Reserve(l)
      PROVE  TypeOK'
  <2> DEFINE p == PrincipalOf[l]
  <2>1. p \in Principals /\ Owns(l) \in BOOLEAN
    BY DEF Owns
  <2>2. RetryAtOf(p, Owns(l)) \in Nat
    BY <2>1, <1>0, RetryAtBounded
  <2>3. CASE Refused(p, Owns(l))
    BY SMTT(30), <2>2, <2>3, <1>0, <1>4 DEF Reserve
  <2>4. CASE ~Refused(p, Owns(l))
    <3>1. ReservedRow \in Rows
      BY <1>0 DEF ReservedRow
    <3>2. row' \in [Leases -> Rows]
      BY <3>1, <2>4, <1>0, <1>4 DEF Reserve
    <3>3. phase' \in [Leases -> Phases] /\ retryAt' \in [Leases -> Nat]
      BY <2>4, <1>0, <1>4 DEF Reserve
    <3>4. /\ now' = now /\ cooldown' = cooldown /\ throttles' = throttles
          /\ deadline' = deadline /\ wire' = wire /\ applied' = applied
      BY <1>4 DEF Reserve
    <3>5. QED
      BY <3>2, <3>3, <3>4, <1>0
  <2>5. QED
    BY <2>3, <2>4
<1>5. ASSUME NEW l \in Leases, Release(l)
      PROVE  TypeOK'
  BY <1>0, <1>5 DEF Release, ReleasedRow, NoRow
<1>6. ASSUME NEW l \in Leases, MarkSent(l)
      PROVE  TypeOK'
  <2>1. row[l] \in Rows /\ now \in Nat
    BY <1>0
  <2>2. SentRow(row[l]) \in Rows
    BY <2>1 DEF SentRow, Later
  <2>3. row' \in [Leases -> Rows]
    BY <2>2, <1>0, <1>6 DEF MarkSent
  <2>4. phase' \in [Leases -> Phases] /\ deadline' \in [Leases -> Nat]
    <3>1. /\ phase' \in {phase, [phase EXCEPT ![l] = "marked"]}
          /\ deadline' \in {deadline, [deadline EXCEPT ![l] = now + CallTimeout]}
      BY <1>6 DEF MarkSent
    <3>2. now + CallTimeout \in Nat
      BY <1>0
    <3>3. phase' \in [Leases -> Phases]
      BY <3>1, <1>0
    <3>4. deadline' \in [Leases -> Nat]
      BY <3>1, <3>2, <1>0
    <3>5. QED
      BY <3>3, <3>4
  <2>5. /\ now' = now /\ cooldown' = cooldown /\ throttles' = throttles
        /\ retryAt' = retryAt /\ wire' = wire /\ applied' = applied
    BY <1>6 DEF MarkSent
  <2>6. QED
    BY <2>3, <2>4, <2>5, <1>0
<1>7. ASSUME NEW l \in Leases, StopBeforeSend(l)
      PROVE  TypeOK'
  BY <1>0, <1>7 DEF StopBeforeSend
<1>8. ASSUME NEW l \in Leases, Send(l)
      PROVE  TypeOK'
  BY <1>0, <1>8 DEF Send
<1>9. ASSUME NEW l \in Leases, AppleApply(l)
      PROVE  TypeOK'
  BY <1>0, <1>9 DEF AppleApply
<1>10. ASSUME NEW l \in Leases, Return(l)
      PROVE  TypeOK'
  BY <1>0, <1>10 DEF Return
<1>11. ASSUME NEW l \in Leases, Commit(l)
      PROVE  TypeOK'
  BY <1>0, <1>11 DEF Commit, CommittedRow, Later
<1>12. QED
  BY <1>1, <1>2, <1>a, <1>3, <1>4, <1>5, <1>6, <1>7, <1>8, <1>9, <1>10, <1>11 DEF Next

-----------------------------------------------------------------------------
(* An operation that makes no further row live keeps the occupancy.        *)
LEMMA OccupancyKept ==
    ASSUME Occupancy, NEW p \in Principals, Live(p)' \subseteq Live(p)
    PROVE  Used(p)' <= Limit
<1>1. IsFiniteSet(Live(p)) /\ Used(p) \in Nat
  BY LiveFinite
<1>2. /\ IsFiniteSet(Live(p)')
      /\ Cardinality(Live(p)') <= Cardinality(Live(p))
  BY <1>1, FS_Subset
<1>3. Cardinality(Live(p)') \in Nat
  BY <1>2, FS_CardinalityType
<1>4. QED
  BY <1>1, <1>2, <1>3, QuotaAssumption DEF Used, Occupancy

(* Only a granted reservation adds a live row, and ReserveAliasDeletion-   *)
(* Quota grants it below the limit; marking and committing keep a row that *)
(* is live already, because Covered says it has not expired yet.           *)
LEMMA OccupancyStep ==
    ASSUME IInv, Next
    PROVE  Occupancy'
<1> USE QuotaAssumption
<1>0. TypeOK /\ Occupancy /\ Covered
  BY DEF IInv
<1>1. SUFFICES ASSUME NEW p \in Principals PROVE Used(p)' <= Limit
  BY DEF Occupancy
<1>2. CASE Tick
  <2>1. Live(p)' \subseteq Live(p)
    BY <1>0, <1>2 DEF Tick, Live, TypeOK, Rows
  <2>2. QED
    BY <2>1, <1>0, OccupancyKept
<1>3. ASSUME row' = row, now' = now
      PROVE  Used(p)' <= Limit
  <2>1. Live(p)' \subseteq Live(p)
    BY <1>3 DEF Live
  <2>2. QED
    BY <2>1, <1>0, OccupancyKept
<1>4. ASSUME NEW l \in Leases, now' = now,
             NEW r \in Rows, row' = [row EXCEPT ![l] = r],
             r.state # "none" => row[l].state # "none" /\ row[l].expires > now
      PROVE  Used(p)' <= Limit
  <2>1. Live(p)' \subseteq Live(p)
    BY <1>4, <1>0 DEF Live, TypeOK
  <2>2. QED
    BY <2>1, <1>0, OccupancyKept
<1>5. ASSUME NEW l \in Leases, Reserve(l)
      PROVE  Used(p)' <= Limit
  <2>1. CASE row' = row
    BY <2>1, <1>3, <1>5 DEF Reserve
  <2>2. CASE row' # row
    <3>1. /\ ~Refused(PrincipalOf[l], Owns(l)) /\ ~Owns(l)
          /\ row' = [row EXCEPT ![l] = ReservedRow] /\ now' = now
      BY <2>2, <1>5 DEF Reserve
    <3>2. CASE p # PrincipalOf[l]
      <4>1. Live(p)' \subseteq Live(p)
        BY <3>1, <3>2, <1>0 DEF Live, TypeOK
      <4>2. QED
        BY <4>1, <1>0, OccupancyKept
    <3>3. CASE p = PrincipalOf[l]
      <4>1. Used(p) < Limit /\ Used(p) \in Nat /\ IsFiniteSet(Live(p))
        BY <3>1, <3>3, LiveFinite DEF Refused, SlotRefused
      <4>2. Live(p)' \subseteq Live(p) \cup {l}
        BY <3>1, <1>0 DEF Live, TypeOK
      <4>3. /\ IsFiniteSet(Live(p) \cup {l})
            /\ Cardinality(Live(p) \cup {l}) \in Nat
            /\ Cardinality(Live(p) \cup {l}) <= Used(p) + 1
        <5>1. /\ IsFiniteSet(Live(p) \cup {l})
              /\ Cardinality(Live(p) \cup {l}) =
                    IF l \in Live(p) THEN Cardinality(Live(p)) ELSE Cardinality(Live(p)) + 1
          BY <4>1, FS_AddElement
        <5>2. QED
          BY <5>1, <4>1 DEF Used
      <4>4. /\ Cardinality(Live(p)') \in Nat
            /\ Cardinality(Live(p)') <= Cardinality(Live(p) \cup {l})
        <5>1. IsFiniteSet(Live(p)') /\ Cardinality(Live(p)') <= Cardinality(Live(p) \cup {l})
          BY <4>2, <4>3, FS_Subset
        <5>2. QED
          BY <5>1, FS_CardinalityType
      <4>5. QED
        BY <4>1, <4>3, <4>4 DEF Used
    <3>4. QED
      BY <3>2, <3>3
  <2>3. QED
    BY <2>1, <2>2
<1>6. ASSUME NEW l \in Leases, Release(l)
      PROVE  Used(p)' <= Limit
  <2>1. CASE row' = row
    BY <2>1, <1>3, <1>6 DEF Release
  <2>2. CASE row' # row
    <3>1. /\ now' = now /\ row' = [row EXCEPT ![l] = ReleasedRow(row[l])]
      BY <2>2, <1>6 DEF Release
    <3>2. row[l].state = "reserved"
      BY <3>1, <2>2, <1>0 DEF ReleasedRow, TypeOK
    <3>3. Live(p)' \subseteq Live(p)
      BY <3>1, <3>2, <1>0 DEF ReleasedRow, NoRow, Live, TypeOK
    <3>4. QED
      BY <3>3, <1>0, OccupancyKept
  <2>3. QED
    BY <2>1, <2>2
<1>7. ASSUME NEW l \in Leases, MarkSent(l)
      PROVE  Used(p)' <= Limit
  <2>1. row[l] \in Rows /\ now \in Nat
    BY <1>0 DEF TypeOK
  <2>2. SentRow(row[l]) \in Rows
    BY <2>1 DEF SentRow, Later, Rows, RowStates
  <2>3. /\ row' = [row EXCEPT ![l] = SentRow(row[l])] /\ now' = now
        /\ row[l].state # "none" /\ row[l].expires > now
    BY <1>7 DEF MarkSent
  <2>4. QED
    BY <2>2, <2>3, <1>4
<1>8. ASSUME NEW l \in Leases, Commit(l)
      PROVE  Used(p)' <= Limit
  <2>1. CASE row' = row
    BY <2>1, <1>3, <1>8 DEF Commit
  <2>2. CASE row' # row
    <3>1. row[l] \in Rows /\ now \in Nat /\ deadline[l] \in Nat
      BY <1>0 DEF TypeOK
    <3>2. CommittedRow(row[l]) \in Rows
      BY <3>1 DEF CommittedRow, Later, Rows, RowStates
    <3>3. row' = [row EXCEPT ![l] = CommittedRow(row[l])] /\ now' = now
      BY <2>2, <1>8 DEF Commit
    <3>4. /\ row[l].state = "sent" /\ now <= deadline[l]
          /\ row[l].expires >= deadline[l] + Lag + AppleWindow
      BY <1>0, <1>8 DEF Commit, Covered, CoveredLease
    <3>5. row[l].state # "none" /\ row[l].expires > now
      BY <3>1, <3>4 DEF Rows
    <3>6. QED
      BY <3>2, <3>3, <3>5, <1>4
  <2>3. QED
    BY <2>1, <2>2
<1>9. ASSUME NEW l \in Leases,
             StopBeforeSend(l) \/ Send(l) \/ AppleApply(l) \/ Return(l)
      PROVE  Used(p)' <= Limit
  BY <1>3, <1>9 DEF StopBeforeSend, Send, AppleApply, Return
<1>10. CASE Crash
  BY <1>3, <1>10 DEF Crash
<1>11. ASSUME \/ \E q \in Principals, d \in RetryDelays : Throttle(q, d)
              \/ \E x \in throttles : DeferQuota(x)
      PROVE  Used(p)' <= Limit
  BY <1>3, <1>11 DEF Throttle, DeferQuota
<1>12. QED
  BY <1>2, <1>5, <1>6, <1>7, <1>8, <1>9, <1>10, <1>11 DEF Next

-----------------------------------------------------------------------------
(* The values of one lease are numbers and records of the right form.      *)
LEMMA LeaseTypes ==
    ASSUME TypeOK, NEW l \in Leases
    PROVE  /\ now \in Nat \ {0} /\ deadline[l] \in Nat /\ wire[l] \in Nat
           /\ applied[l] \in Nat
           /\ row[l].expires \in Nat /\ row[l].accounted \in Nat /\ row[l].state \in RowStates
BY DEF TypeOK, Rows

(* Every operation keeps an applied, pending or in-flight delete covered   *)
(* by a row that outlives Apple's window.                                  *)
LEMMA CoveredStep ==
    ASSUME IInv, Next
    PROVE  Covered'
<1> USE QuotaAssumption
<1>0. TypeOK /\ Covered /\ Bounded
  BY DEF IInv
<1>1. SUFFICES ASSUME NEW k \in Leases PROVE CoveredLease(k)'
  BY DEF Covered
<1>2. CoveredLease(k)
  BY <1>0 DEF Covered
<1>3. /\ now \in Nat \ {0} /\ deadline[k] \in Nat /\ wire[k] \in Nat
      /\ applied[k] \in Nat
      /\ row[k].expires \in Nat /\ row[k].accounted \in Nat /\ row[k].state \in RowStates
  BY <1>0, LeaseTypes
<1>4. CASE Tick
  BY <1>2, <1>3, <1>4 DEF Tick, CoveredLease, Sent
<1>5. CASE Crash
  BY <1>2, <1>3, <1>5, <1>0 DEF Crash, CoveredLease, Sent, TypeOK
<1>6. ASSUME \/ \E q \in Principals, d \in RetryDelays : Throttle(q, d)
             \/ \E x \in throttles : DeferQuota(x)
      PROVE  CoveredLease(k)'
  BY <1>2, <1>6 DEF Throttle, DeferQuota, CoveredLease, Sent
<1>7. ASSUME NEW l \in Leases, Reserve(l)
      PROVE  CoveredLease(k)'
  <2>1. CASE row'[k] = row[k]
    <3>1. phase'[k] \in {phase[k], "waiting", "held"}
      BY <1>7, <1>0 DEF Reserve, TypeOK
    <3>2. /\ now' = now /\ deadline'[k] = deadline[k] /\ wire'[k] = wire[k]
          /\ applied'[k] = applied[k]
      BY <1>7 DEF Reserve
    <3>3. QED
      BY <2>1, <3>1, <3>2, <1>2 DEF CoveredLease, Sent
  <2>2. CASE row'[k] # row[k]
    <3>1. k = l /\ ~Owns(k)
      BY <2>2, <1>7, <1>0 DEF Reserve, TypeOK
    <3>2. ~Sent(k)
      BY <3>1 DEF Owns, Sent
    <3>3. applied[k] = 0 /\ wire[k] = 0
      BY <3>2, <1>2 DEF CoveredLease
    <3>4. phase'[k] \in {"waiting", "held"} /\ applied'[k] = 0 /\ wire'[k] = 0
      BY <3>1, <3>3, <1>7, <1>0 DEF Reserve, TypeOK
    <3>5. QED
      BY <3>4 DEF CoveredLease
  <2>3. QED
    BY <2>1, <2>2
<1>8. ASSUME NEW l \in Leases, Release(l)
      PROVE  CoveredLease(k)'
  <2>1. /\ now' = now /\ deadline' = deadline /\ wire' = wire /\ applied' = applied
        /\ phase' = [phase EXCEPT ![l] = "done"]
    BY <1>8 DEF Release
  <2>2. CASE row'[k] = row[k]
    BY <2>1, <2>2, <1>2, <1>0 DEF CoveredLease, Sent, TypeOK
  <2>3. CASE row'[k] # row[k]
    <3>1. k = l /\ row[k].state = "reserved"
      BY <2>3, <1>8, <1>0 DEF Release, ReleasedRow, TypeOK
    <3>2. applied[k] = 0 /\ wire[k] = 0
      BY <3>1, <1>2 DEF CoveredLease, Sent
    <3>3. QED
      BY <2>1, <3>1, <3>2, <1>0 DEF CoveredLease, TypeOK
  <2>4. QED
    BY <2>2, <2>3
<1>9. ASSUME NEW l \in Leases, MarkSent(l)
      PROVE  CoveredLease(k)'
  <2>1. CASE k # l
    BY <2>1, <1>9, <1>2, <1>0 DEF MarkSent, CoveredLease, Sent, TypeOK
  <2>2. CASE k = l
    <3>1. row'[k] = SentRow(row[k]) /\ now' = now /\ wire' = wire /\ applied' = applied
      BY <2>2, <1>9, <1>0 DEF MarkSent, TypeOK
    <3>2. /\ row'[k].state = "sent"
          /\ row'[k].expires >= row[k].expires
          /\ row'[k].expires >= now + Lifetime
          /\ row'[k].expires \in Nat
      BY <3>1, <1>3 DEF SentRow, Later
    <3>3. \/ phase'[k] = "marked" /\ deadline'[k] = now + CallTimeout
          \/ phase'[k] = "held"
      BY <2>2, <1>9, <1>0 DEF MarkSent, TypeOK
    <3>4. QED
      BY <3>1, <3>2, <3>3, <1>2, <1>3 DEF CoveredLease, Sent
  <2>3. QED
    BY <2>1, <2>2
<1>10. ASSUME NEW l \in Leases, StopBeforeSend(l)
      PROVE  CoveredLease(k)'
  BY <1>10, <1>2, <1>0 DEF StopBeforeSend, CoveredLease, Sent, TypeOK
<1>11. ASSUME NEW l \in Leases, Send(l)
      PROVE  CoveredLease(k)'
  BY <1>11, <1>2, <1>3, <1>0 DEF Send, CoveredLease, Sent, TypeOK
<1>12. ASSUME NEW l \in Leases, AppleApply(l)
      PROVE  CoveredLease(k)'
  BY <1>12, <1>2, <1>3, <1>0 DEF AppleApply, CoveredLease, Sent, TypeOK
<1>13. ASSUME NEW l \in Leases, Return(l)
      PROVE  CoveredLease(k)'
  <2>1. CASE k # l
    BY <2>1, <1>13, <1>2, <1>0 DEF Return, CoveredLease, Sent, TypeOK
  <2>2. CASE k = l
    <3>1. /\ row' = row /\ now' = now /\ deadline' = deadline /\ applied' = applied
          /\ phase[k] = "calling" /\ phase'[k] = "answered"
          /\ wire'[k] = IF wire[k] = 0 THEN 0 ELSE now + Lag
      BY <2>2, <1>13, <1>0 DEF Return, TypeOK
    <3>2. QED
      BY <3>1, <1>2, <1>3 DEF CoveredLease, Sent
  <2>3. QED
    BY <2>1, <2>2
<1>14. ASSUME NEW l \in Leases, Commit(l)
      PROVE  CoveredLease(k)'
  <2>1. /\ now' = now /\ deadline' = deadline /\ wire' = wire /\ applied' = applied
        /\ phase' = [phase EXCEPT ![l] = "done"]
    BY <1>14 DEF Commit
  <2>2. CASE row'[k] = row[k]
    BY <2>1, <2>2, <1>2, <1>0 DEF CoveredLease, Sent, TypeOK
  <2>3. CASE row'[k] # row[k]
    <3>1. k = l /\ row'[k] = CommittedRow(row[k]) /\ phase[k] = "answered"
      BY <2>3, <1>14, <1>0 DEF Commit, TypeOK
    <3>2. /\ row'[k].state = "committed" /\ row'[k].expires \in Nat
          /\ row'[k].expires >= now + Window
      BY <3>1, <1>3 DEF CommittedRow, Later
    <3>3. phase'[k] = "done" /\ wire[k] <= now + Lag
      BY <2>1, <3>1, <1>2, <1>0 DEF CoveredLease, TypeOK
    <3>4. QED
      BY <2>1, <3>2, <3>3, <1>2, <1>3 DEF CoveredLease, Sent
  <2>4. QED
    BY <2>2, <2>3
<1>15. QED
  BY <1>4, <1>5, <1>6, <1>7, <1>8, <1>9, <1>10, <1>11, <1>12, <1>13, <1>14 DEF Next

-----------------------------------------------------------------------------
(* Leases and cooldowns are renewed from the clock and never accumulate.   *)
LEMMA BoundedStep ==
    ASSUME IInv, Next
    PROVE  Bounded'
<1> USE QuotaAssumption
<1>0. TypeOK /\ Bounded /\ AnswersKept
  BY DEF IInv
<1>1. now \in Nat /\ now' \in Nat /\ now <= now'
  BY <1>0 DEF TypeOK, Next, Tick, Crash, Throttle, DeferQuota, Reserve, Release, MarkSent,
              StopBeforeSend, Send, AppleApply, Return, Commit
<1>2. ASSUME NEW k \in Leases
      PROVE  row'[k].accounted <= now' /\ row'[k].expires <= now' + Lifetime
  <2>1. /\ row[k].accounted \in Nat /\ row[k].expires \in Nat
        /\ row[k].accounted <= now /\ row[k].expires <= now + Lifetime
    BY <1>0, LeaseTypes DEF Bounded
  <2>2. CASE row'[k] = row[k]
    BY <2>1, <2>2, <1>1
  <2>3. CASE row'[k] # row[k]
    <3>1. /\ now' = now
          /\ row'[k] \in {ReservedRow, ReleasedRow(row[k]), SentRow(row[k]), CommittedRow(row[k])}
      BY <2>3, <1>0 DEF TypeOK, Next, Tick, Crash, Throttle, DeferQuota, Reserve, Release, MarkSent,
                        StopBeforeSend, Send, AppleApply, Return, Commit
    <3>2. CASE row'[k] = ReservedRow
      BY <3>1, <3>2, <1>1 DEF ReservedRow
    <3>3. CASE row'[k] = ReleasedRow(row[k])
      BY <3>1, <3>3, <2>1, <1>1 DEF ReleasedRow, NoRow
    <3>4. CASE row'[k] = SentRow(row[k])
      BY <3>1, <3>4, <2>1, <1>1 DEF SentRow, Later
    <3>5. CASE row'[k] = CommittedRow(row[k])
      BY <3>1, <3>5, <2>1, <1>1 DEF CommittedRow, Later
    <3>6. QED
      BY <3>1, <3>2, <3>3, <3>4, <3>5
  <2>4. QED
    BY <2>2, <2>3
<1>3. ASSUME NEW q \in Principals
      PROVE  cooldown'[q] = 0 \/ \E d \in RetryDelays : cooldown'[q] <= now' + d
  <2>1. /\ cooldown[q] \in Nat
        /\ cooldown[q] = 0 \/ \E d \in RetryDelays : cooldown[q] <= now + d
    BY <1>0 DEF TypeOK, Bounded
  <2>2. CASE cooldown'[q] = cooldown[q]
    BY <2>1, <2>2, <1>1
  <2>3. CASE cooldown'[q] # cooldown[q]
    <3>1. PICK x \in throttles : DeferQuota(x)
      BY <2>3, <1>0 DEF Next, Tick, Crash, Throttle, Reserve, Release, MarkSent,
                        StopBeforeSend, Send, AppleApply, Return, Commit
    <3>2. x.of \in Principals /\ x.until \in Nat
      BY <1>0 DEF TypeOK, Throttles
    <3>3. now' = now /\ cooldown'[q] = Later(cooldown[q], x.until)
      BY <3>1, <3>2, <2>3, <1>0 DEF TypeOK, DeferQuota
    <3>4. PICK d \in RetryDelays : x.until <= now + d
      BY <1>0 DEF AnswersKept
    <3>5. cooldown'[q] = x.until
      BY <3>2, <3>3, <2>1, <2>3 DEF Later
    <3>6. QED
      BY <3>3, <3>4, <3>5
  <2>4. QED
    BY <2>2, <2>3
<1>4. QED
  BY <1>2, <1>3 DEF Bounded

(* Time and later answers, longer or shorter, leave a stored throttle      *)
(* covered by the cooldown.                                                *)
LEMMA AnswersStep ==
    ASSUME IInv, Next
    PROVE  AnswersKept'
<1> USE QuotaAssumption
<1>0. TypeOK /\ AnswersKept
  BY DEF IInv
<1>1. SUFFICES ASSUME NEW x \in throttles'
               PROVE  /\ \E d \in RetryDelays : x.until <= now' + d
                      /\ x.stored => cooldown'[x.of] >= x.until
  BY DEF AnswersKept
<1>2. /\ now \in Nat /\ now' \in Nat /\ now <= now'
      /\ cooldown \in [Principals -> Nat] /\ throttles \subseteq Throttles
  BY <1>0 DEF TypeOK, Next, Tick, Crash, Throttle, DeferQuota, Reserve, Release, MarkSent,
              StopBeforeSend, Send, AppleApply, Return, Commit
<1>3. CASE x \in throttles /\ cooldown' = cooldown
  <2>2. PICK d \in RetryDelays : x.until <= now + d
    BY <1>0, <1>3 DEF AnswersKept
  <2>3. x.until \in Nat
    BY <1>2, <1>3 DEF Throttles
  <2>4. x.until <= now' + d
    BY <2>2, <2>3, <1>2
  <2>5. x.stored => cooldown'[x.of] >= x.until
    BY <1>0, <1>3 DEF AnswersKept
  <2>6. QED
    BY <2>4, <2>5
<1>4. CASE \E p \in Principals, d \in RetryDelays : Throttle(p, d)
  <2>1. PICK p \in Principals, d \in RetryDelays : Throttle(p, d)
    BY <1>4
  <2>2. CASE x \in throttles
    BY <2>1, <2>2, <1>3 DEF Throttle
  <2>3. CASE x \notin throttles
    <3>1. x = [of |-> p, until |-> now + d, stored |-> FALSE] /\ now' = now
      BY <2>1, <2>3 DEF Throttle
    <3>2. QED
      BY <3>1, <1>2
  <2>4. QED
    BY <2>2, <2>3
<1>5. CASE \E y \in throttles : DeferQuota(y)
  <2>1. PICK y \in throttles : DeferQuota(y)
    BY <1>5
  <2>2. /\ y.of \in Principals /\ y.until \in Nat /\ now' = now
        /\ cooldown' = [cooldown EXCEPT ![y.of] = Later(cooldown[y.of], y.until)]
    BY <2>1, <1>2 DEF DeferQuota, Throttles
  <2>3. /\ \A p \in Principals : cooldown'[p] >= cooldown[p]
        /\ cooldown'[y.of] >= y.until
        /\ \A p \in Principals : cooldown[p] \in Nat /\ cooldown'[p] \in Nat
    BY <2>2, <1>2 DEF Later
  <2>4. CASE x \in throttles
    <3>1. x.of \in Principals /\ x.until \in Nat
      BY <2>4, <1>2 DEF Throttles
    <3>2. x.stored => cooldown'[x.of] >= x.until
      BY <3>1, <2>3, <2>4, <1>0 DEF AnswersKept
    <3>3. \E d \in RetryDelays : x.until <= now' + d
      BY <2>2, <2>4, <1>0 DEF AnswersKept
    <3>4. QED
      BY <3>2, <3>3
  <2>5. CASE x \notin throttles
    <3>1. x = [y EXCEPT !.stored = TRUE]
      BY <2>1, <2>5 DEF DeferQuota
    <3>2. x.of = y.of /\ x.until = y.until
      BY <3>1, <1>2 DEF Throttles
    <3>3. \E d \in RetryDelays : y.until <= now' + d
      BY <2>2, <1>0 DEF AnswersKept
    <3>4. QED
      BY <3>2, <3>3, <2>3
  <2>6. QED
    BY <2>4, <2>5
<1>6. CASE Crash
  BY <1>3, <1>6 DEF Crash
<1>7. CASE Tick \/ \E l \in Leases :
             \/ Reserve(l) \/ Release(l) \/ MarkSent(l) \/ StopBeforeSend(l)
             \/ Send(l) \/ AppleApply(l) \/ Return(l) \/ Commit(l)
  BY <1>3, <1>7 DEF Tick, Reserve, Release, MarkSent,
                    StopBeforeSend, Send, AppleApply, Return, Commit
<1>8. QED
  BY <1>4, <1>5, <1>6, <1>7 DEF Next

(* Only Reserve sends an attempt to wait, with a bounded RetryAt.          *)
LEMMA BoundedWaitStep ==
    ASSUME IInv, Next
    PROVE  BoundedWait'
<1> USE QuotaAssumption
<1>0. TypeOK /\ Bounded /\ BoundedWait
  BY DEF IInv
<1>1. SUFFICES ASSUME NEW k \in Leases, phase'[k] = "waiting"
               PROVE  \/ retryAt'[k] <= now' + Lifetime
                      \/ \E d \in RetryDelays : retryAt'[k] <= now' + d
  BY DEF BoundedWait
<1>2. now \in Nat /\ now' \in Nat /\ now <= now' /\ retryAt[k] \in Nat
  BY <1>0 DEF TypeOK, Next, Tick, Crash, Throttle, DeferQuota, Reserve, Release, MarkSent,
              StopBeforeSend, Send, AppleApply, Return, Commit
<1>3. CASE phase[k] = "waiting" /\ retryAt'[k] = retryAt[k]
  <2>1. \/ retryAt[k] <= now + Lifetime
        \/ \E d \in RetryDelays : retryAt[k] <= now + d
    BY <1>3, <1>0 DEF BoundedWait
  <2>2. QED
    BY <2>1, <1>2, <1>3
<1>4. CASE ~(phase[k] = "waiting" /\ retryAt'[k] = retryAt[k])
  <2>1. /\ now' = now /\ retryAt'[k] = RetryAtOf(PrincipalOf[k], Owns(k))
    BY <1>1, <1>4, <1>0 DEF TypeOK, Next, Tick, Crash, Throttle, DeferQuota, Reserve, Release,
                            MarkSent,
                            StopBeforeSend, Send, AppleApply, Return, Commit
  <2>2. PrincipalOf[k] \in Principals /\ Owns(k) \in BOOLEAN
    BY DEF Owns
  <2>3. QED
    BY <2>1, <2>2, <1>0, RetryAtBounded
<1>5. QED
  BY <1>3, <1>4

(* The inductive invariant holds in every reachable state.                 *)
THEOREM Invariance == Spec => []IInv
<1>1. Init => IInv
  BY InitIInv
<1>2. IInv /\ [Next]_vars => IInv'
  <2>0. SUFFICES ASSUME IInv, [Next]_vars PROVE IInv'
    OBVIOUS
  <2>1. CASE Next
    BY <2>0, <2>1, TypeStep, OccupancyStep, CoveredStep, BoundedStep, AnswersStep,
       BoundedWaitStep
       DEF IInv
  <2>2. CASE UNCHANGED vars
    BY <2>0, <2>2 DEF vars, IInv, TypeOK, Occupancy, Covered, CoveredLease, Sent, Bounded,
                AnswersKept, BoundedWait, Used, Live
  <2>3. QED
    BY <2>0, <2>1, <2>2
<1>3. QED
  BY <1>1, <1>2, PTL DEF Spec

-----------------------------------------------------------------------------
(* Type correctness of the tables, the attempts and the clock.             *)
THEOREM TypeCorrect == Spec => []TypeOK
BY Invariance, PTL DEF IInv

(* ReserveAliasDeletionQuota never lets the counted rows exceed the limit, *)
(* however many attempts of however many entry points compete.             *)
THEOREM OccupancyHolds == Spec => []Occupancy
BY Invariance, PTL DEF IInv

(* The deletions Apple applied in its window are all counted by the store, *)
(* so Apple never sees more than Limit of them.                            *)
THEOREM RollingWindowHolds == Spec => []RollingWindow
<1>1. IInv => RollingWindow
  <2>1. SUFFICES ASSUME IInv, NEW p \in Principals
                 PROVE  Cardinality(Recent(p)) <= Limit
    BY DEF RollingWindow
  <2>2. Recent(p) \subseteq Live(p)
    <3>1. SUFFICES ASSUME NEW l \in Recent(p) PROVE l \in Live(p)
      OBVIOUS
    <3>2. /\ l \in Leases /\ PrincipalOf[l] = p
          /\ applied[l] # 0 /\ applied[l] + AppleWindow > now
      BY DEF Recent
    <3>3. Sent(l) /\ row[l].expires >= applied[l] + AppleWindow
      BY <2>1, <3>2 DEF IInv, Covered, CoveredLease
    <3>4. row[l].expires > now
      BY <2>1, <3>2, <3>3, LeaseTypes, QuotaAssumption DEF IInv
    <3>5. QED
      BY <3>2, <3>3, <3>4 DEF Live, Sent
  <2>3. IsFiniteSet(Live(p)) /\ Used(p) \in Nat
    BY LiveFinite
  <2>4. IsFiniteSet(Recent(p)) /\ Cardinality(Recent(p)) <= Cardinality(Live(p))
    BY <2>2, <2>3, FS_Subset
  <2>5. Cardinality(Recent(p)) \in Nat
    BY <2>4, FS_CardinalityType
  <2>6. QED
    BY <2>1, <2>3, <2>4, <2>5, QuotaAssumption DEF IInv, Occupancy, Used
<1>2. QED
  BY <1>1, Invariance, PTL

(* The RetryAt handed to a refused attempt lies within one lease or one    *)
(* Retry-After, so leases and cooldowns cannot starve an attempt by        *)
(* accumulating.                                                           *)
THEOREM BoundedWaitHolds == Spec => []BoundedWait
BY Invariance, PTL DEF IInv

(* ReleaseAliasDeletionQuota never removes a request that was marked sent, *)
(* and a re-reserved ID never turns it back into an unsent one.            *)
THEOREM SentNeverReleasedHolds == Spec => SentNeverReleased
<1>1. IInv /\ [Next]_vars =>
        [\A l \in Leases : row[l].state \in {"sent", "committed"}
                              => row'[l].state \in {"sent", "committed"}]_vars
  <2>1. SUFFICES ASSUME IInv, Next, NEW l \in Leases,
                        row[l].state \in {"sent", "committed"}, row'[l] # row[l]
                 PROVE  row'[l].state \in {"sent", "committed"}
    BY DEF vars
  <2>2. TypeOK
    BY <2>1 DEF IInv
  <2>3. ~(row'[l] = ReleasedRow(row[l])) /\ Owns(l)
    BY <2>1 DEF ReleasedRow, Owns
  <2>4. row'[l] \in {SentRow(row[l]), CommittedRow(row[l])}
    BY <2>1, <2>2, <2>3 DEF TypeOK, Next, Tick, Crash, Throttle, DeferQuota, Reserve, Release,
                            MarkSent,
                      StopBeforeSend, Send, AppleApply, Return, Commit
  <2>5. QED
    BY <2>4 DEF SentRow, CommittedRow
<1>2. QED
  BY <1>1, Invariance, PTL DEF Spec, SentNeverReleased

(* No attempt is granted a slot before the end of a stored throttle of its *)
(* principal, in whatever order the attempts stored longer and shorter     *)
(* ones.                                                                   *)
THEOREM ThrottleHonouredHolds == Spec => ThrottleHonoured
<1>1. IInv /\ [Next]_vars =>
        [\A l \in Leases : row'[l] # row[l] /\ row'[l].state = "reserved" =>
            \A x \in throttles : x.of = PrincipalOf[l] /\ x.stored => x.until <= now]_vars
  <2>1. SUFFICES ASSUME IInv, Next, NEW l \in Leases,
                        row'[l] # row[l], row'[l].state = "reserved",
                        NEW x \in throttles, x.of = PrincipalOf[l], x.stored
                 PROVE  x.until <= now
    BY DEF vars
  <2>2. TypeOK /\ AnswersKept
    BY <2>1 DEF IInv
  <2>3. row'[l] \notin {SentRow(row[l]), CommittedRow(row[l]), ReleasedRow(row[l])}
    BY <2>1 DEF SentRow, CommittedRow, ReleasedRow, NoRow
  <2>4. Reserve(l)
    BY <2>1, <2>2, <2>3 DEF TypeOK, Next, Tick, Crash, Throttle, DeferQuota, Reserve,
                            Release, MarkSent, StopBeforeSend, Send, AppleApply, Return,
                            Commit
  <2>5. ~Cooling(PrincipalOf[l])
    BY <2>1, <2>4 DEF Reserve, Refused
  <2>6. /\ cooldown[x.of] >= x.until /\ cooldown[x.of] \in Nat
        /\ x.until \in Nat /\ now \in Nat
    BY <2>1, <2>2 DEF AnswersKept, TypeOK, Throttles
  <2>7. QED
    BY <2>1, <2>5, <2>6 DEF Cooling
<1>2. QED
  BY <1>1, Invariance, PTL DEF Spec, ThrottleHonoured
=============================================================================
