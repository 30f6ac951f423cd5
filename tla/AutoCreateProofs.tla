--------------------------- MODULE AutoCreateProofs ---------------------------
(***************************************************************************)
(* Attempts of automatic creation keep their distance, for every number of *)
(* managers, every plan and every clock.                                   *)
(*                                                                         *)
(* The argument: every compare-and-swap raises the next deadline, so it    *)
(* never falls behind notBefore, a claim's deadline is never the stored    *)
(* one again after another swap, and two claims never share one.  At the   *)
(* claim the deadline was due, hence past notBefore; whoever begins while  *)
(* its own deadline is still stored is alone in having done so.            *)
(***************************************************************************)
EXTENDS AutoCreate, FiniteSetTheorems, SequenceTheorems, TLAPS

\* A plan that is neither empty nor out of order, within one cycle.
IsPlan(plan) ==
    /\ plan # <<>>
    /\ \A i, j \in DOMAIN plan : i <= j => plan[i] <= plan[j]
    /\ \A i \in DOMAIN plan : plan[i] <= plan[1] + CycleDuration

RowType == [enabled : BOOLEAN, plan : Seq(Nat), last : Nat]
ManagerType == [pc : {"asleep", "due", "claimed", "creating"}, row : RowType,
                plan : Seq(Nat), at : Nat, current : BOOLEAN]

AutoType ==
    /\ now \in Nat /\ schedule \in RowType /\ managers \in [Managers -> ManagerType]
    /\ started \in Nat /\ notBefore \in Nat /\ accountOn \in BOOLEAN

Started == started <= now

\* The stored plan starts no earlier than an attempt may begin.
ScheduleInv == schedule.enabled => IsPlan(schedule.plan) /\ notBefore <= schedule.plan[1]

Due(s) == IsPlan(s.row.plan) /\ s.row.plan[1] <= now
Holding(s) == IsPlan(s.plan) /\ s.plan[1] <= s.at + CycleDuration /\ s.at <= now
Claims(s) ==
    /\ s.pc \in {"claimed", "creating"}
    /\ schedule.enabled /\ s.plan[1] <= schedule.plan[1]
    /\ s.pc = "claimed" /\ s.plan[1] = schedule.plan[1] => notBefore <= now

\* What a manager holds in memory; of the claims that count, no two share a deadline.
ManagersInv ==
    /\ \A m \in Managers :
          /\ managers[m].pc = "due" => Due(managers[m])
          /\ managers[m].pc \in {"claimed", "creating"} => Holding(managers[m])
          /\ managers[m].current => Claims(managers[m])
    /\ \A m, k \in Managers :
          m # k /\ managers[m].current /\ managers[k].current =>
              managers[m].plan[1] # managers[k].plan[1]

AutoInv == AutoType /\ Started /\ ScheduleInv /\ ManagersInv

-----------------------------------------------------------------------------
\* The numbers of a plan.
LEMMA PlanFacts ==
    ASSUME NEW p \in Seq(Nat), IsPlan(p)
    PROVE  /\ Len(p) \in Nat \ {0} /\ DOMAIN p = 1 .. Len(p) /\ 1 \in DOMAIN p
           /\ \A i \in DOMAIN p : p[i] \in Nat
<1>1. Len(p) \in Nat /\ DOMAIN p = 1 .. Len(p) /\ p \in [1 .. Len(p) -> Nat]
  BY LenProperties
<1>2. Len(p) # 0
  BY EmptySeq DEF IsPlan
<1>. QED  BY <1>1, <1>2

\* A function over 1..n with values in Nat is a sequence of that length.
LEMMA SequenceOf ==
    ASSUME NEW n \in Nat, NEW p \in [1 .. n -> Nat]
    PROVE  p \in Seq(Nat) /\ Len(p) = n /\ DOMAIN p = 1 .. n
<1>1. p \in Seq(Nat)
  OBVIOUS
<1>2. DOMAIN p = 1 .. Len(p) /\ Len(p) \in Nat
  BY <1>1, LenProperties
<1>3. DOMAIN p = 1 .. n
  OBVIOUS
<1>. QED  BY <1>1, <1>2, <1>3

\* A cycle is at least one interval long.
LEMMA CycleCoversInterval ==
    /\ MinimumInterval \in Nat \ {0} /\ CycleDuration \in Nat /\ MinimumInterval <= CycleDuration
    /\ Creations \in Nat \ {0} /\ Cooldown \in Nat /\ Cooldown > CycleDuration
    /\ OverdueGrace \in Nat
<1>1. /\ MinimumInterval \in Nat \ {0} /\ Creations \in Nat \ {0} /\ CycleDuration \in Nat
      /\ CycleDuration >= MinimumInterval * Creations
  BY AutoCreateAssumption
<1>2. MinimumInterval * Creations >= MinimumInterval
  <2>1. PICK k \in Nat : Creations = k + 1
    BY <1>1
  <2>2. MinimumInterval * (k + 1) = MinimumInterval * k + MinimumInterval
    BY <1>1, <2>1
  <2>3. MinimumInterval * k >= 0
    BY <1>1, <2>1
  <2>. QED  BY <1>1, <2>1, <2>2, <2>3
<1>. QED  BY <1>1, <1>2, AutoCreateAssumption

\* A new cycle from a time begins an interval later.
LEMMA GeneratedPlan ==
    ASSUME NEW anchor \in Nat, NEW p \in generatePlan(anchor)
    PROVE  /\ p \in Seq(Nat) /\ Len(p) = Creations /\ IsPlan(p)
           /\ \A i \in DOMAIN p : anchor + MinimumInterval <= p[i] /\ p[i] <= anchor + CycleDuration
<1>0. MinimumInterval \in Nat \ {0} /\ CycleDuration \in Nat /\ Creations \in Nat \ {0}
  BY CycleCoversInterval
<1>1. p \in [1 .. Creations -> (anchor + MinimumInterval) .. (anchor + CycleDuration)]
  BY DEF generatePlan
<1>2. p \in [1 .. Creations -> Nat]
  BY <1>0, <1>1
<1>3. p \in Seq(Nat) /\ Len(p) = Creations /\ DOMAIN p = 1 .. Creations
  BY <1>0, <1>2, SequenceOf
<1>4. \A i \in DOMAIN p : p[i] \in Nat /\ anchor + MinimumInterval <= p[i] /\ p[i] <= anchor + CycleDuration
  BY <1>0, <1>1, <1>3
<1>5. \A i, j \in DOMAIN p : i <= j => p[i] <= p[j]
  <2>1. \A i, j \in 1 .. Creations : i < j => p[j] - p[i] >= MinimumInterval
    BY DEF generatePlan
  <2>2. SUFFICES ASSUME NEW i \in 1 .. Creations, NEW j \in 1 .. Creations, i <= j
                 PROVE  p[i] <= p[j]
    BY <1>3
  <2>3. p[i] \in Nat /\ p[j] \in Nat
    BY <1>3, <1>4
  <2>4. CASE i = j
    BY <2>3, <2>4
  <2>5. CASE i # j
    <3>1. p[j] - p[i] >= MinimumInterval
      BY <1>0, <2>1, <2>2, <2>5
    <3>. QED  BY <1>0, <2>3, <3>1
  <2>. QED  BY <2>4, <2>5
<1>6. 1 \in DOMAIN p /\ p # <<>>
  BY <1>0, <1>3
<1>7. \A i \in DOMAIN p : p[i] <= p[1] + CycleDuration
  BY <1>0, <1>4, <1>6
<1>. QED  BY <1>3, <1>4, <1>5, <1>6, <1>7 DEF IsPlan

\* The plan after a cooldown begins at its end.
LEMMA NewPlan ==
    ASSUME NEW time \in Nat, NEW q \in newPlanStartingAt(time)
    PROVE  q \in Seq(Nat) /\ IsPlan(q) /\ q[1] = time
<1>0. MinimumInterval \in Nat \ {0} /\ CycleDuration \in Nat /\ Creations \in Nat \ {0}
  BY CycleCoversInterval
<1>1. PICK p \in generatePlan(time) : q = [p EXCEPT ![1] = time]
  BY DEF newPlanStartingAt
<1>2. /\ p \in Seq(Nat) /\ Len(p) = Creations /\ IsPlan(p)
      /\ \A i \in DOMAIN p : time + MinimumInterval <= p[i] /\ p[i] <= time + CycleDuration
  BY GeneratedPlan
<1>3. DOMAIN p = 1 .. Creations /\ p \in [1 .. Creations -> Nat]
  BY <1>2, LenProperties
<1>4. q \in [1 .. Creations -> Nat] /\ DOMAIN q = 1 .. Creations
  BY <1>1, <1>3
<1>5. q \in Seq(Nat)
  BY <1>0, <1>4, SequenceOf
<1>6. q[1] = time /\ \A i \in 2 .. Creations : q[i] = p[i]
  BY <1>0, <1>1, <1>3
<1>7. \A i \in DOMAIN p : p[i] \in Nat
  BY <1>3
<1>8. \A i, j \in DOMAIN q : i <= j => q[i] <= q[j]
  <2>1. SUFFICES ASSUME NEW i \in 1 .. Creations, NEW j \in 1 .. Creations, i <= j
                 PROVE  q[i] <= q[j]
    BY <1>4
  <2>2. CASE i = 1 /\ j = 1
    BY <1>6, <2>2
  <2>3. CASE i = 1 /\ j # 1
    BY <1>0, <1>2, <1>3, <1>6, <1>7, <2>3
  <2>4. CASE i # 1
    <3>1. i \in 2 .. Creations /\ j \in 2 .. Creations
      BY <1>0, <2>1, <2>4
    <3>2. p[i] <= p[j]
      BY <1>2, <1>3, <2>1 DEF IsPlan
    <3>. QED  BY <1>6, <3>1, <3>2
  <2>. QED  BY <2>2, <2>3, <2>4
<1>9. \A i \in DOMAIN q : q[i] <= q[1] + CycleDuration
  <2>1. SUFFICES ASSUME NEW i \in 1 .. Creations
                 PROVE  q[i] <= time + CycleDuration
    BY <1>4, <1>6
  <2>2. CASE i = 1
    BY <1>0, <1>6, <2>2
  <2>3. CASE i # 1
    BY <1>0, <1>2, <1>3, <1>6, <1>7, <2>3
  <2>. QED  BY <2>2, <2>3
<1>10. q # <<>>
  BY <1>0, <1>4
<1>. QED  BY <1>5, <1>6, <1>8, <1>9, <1>10 DEF IsPlan

\* The deadlines of a plan from a time on, and how they keep its order.
LEMMA PlanFromBegins ==
    ASSUME NEW p \in Seq(Nat), IsPlan(p), NEW t \in Nat, NEW q, q = PlanFrom(p, t), q # <<>>
    PROVE  q \in Seq(Nat) /\ IsPlan(q) /\ t <= q[1] /\ q[1] <= p[1] + CycleDuration
<1> DEFINE early == {i \in DOMAIN p : p[i] < t}
           k == Cardinality(early)
<1>0. CycleDuration \in Nat
  BY CycleCoversInterval
<1>1. /\ Len(p) \in Nat \ {0} /\ DOMAIN p = 1 .. Len(p) /\ 1 \in DOMAIN p
      /\ \A i \in DOMAIN p : p[i] \in Nat
  BY PlanFacts
<1>2. IsFiniteSet(early) /\ k \in Nat /\ k <= Len(p)
  <2>1. IsFiniteSet(1 .. Len(p)) /\ Cardinality(1 .. Len(p)) = Len(p)
    BY <1>1, FS_Interval
  <2>2. early \in SUBSET (1 .. Len(p))
    BY <1>1
  <2>3. IsFiniteSet(early) /\ k <= Len(p)
    BY <2>1, <2>2, FS_Subset
  <2>. QED  BY <2>3, FS_CardinalityType
<1>. HIDE DEF k
<1>3. q = SubSeq(p, k + 1, Len(p))
  BY DEF PlanFrom, k
<1>4. \A i \in k + 1 .. Len(p) : p[i] \in Nat
  BY <1>1, <1>2
<1>5. /\ q \in Seq(Nat)
      /\ Len(q) = IF k + 1 <= Len(p) THEN Len(p) - (k + 1) + 1 ELSE 0
      /\ \A i \in 1 .. Len(p) - (k + 1) + 1 : q[i] = p[k + 1 + i - 1]
  <2>1. k + 1 \in Int /\ Len(p) \in Int
    BY <1>1, <1>2
  <2>. QED  BY <1>3, <1>4, <2>1, SubSeqProperties
<1>6. Len(q) # 0
  BY <1>5, EmptySeq
<1>7. k + 1 <= Len(p) /\ Len(q) = Len(p) - k /\ DOMAIN q = 1 .. Len(q) /\ Len(q) \in Nat
  <2>1. DOMAIN q = 1 .. Len(q) /\ Len(q) \in Nat
    BY <1>5, LenProperties
  <2>2. k + 1 <= Len(p)
    BY <1>1, <1>2, <1>5, <1>6
  <2>3. Len(q) = Len(p) - k
    BY <1>1, <1>2, <1>5, <2>2
  <2>. QED  BY <2>1, <2>2, <2>3
<1>8. \A i \in DOMAIN q : q[i] = p[k + i] /\ k + i \in DOMAIN p
  <2>1. SUFFICES ASSUME NEW i \in 1 .. Len(q)
                 PROVE  q[i] = p[k + i] /\ k + i \in 1 .. Len(p)
    BY <1>1, <1>7
  <2>2. i \in Nat /\ 1 <= i /\ i <= Len(p) - k
    BY <1>1, <1>2, <1>7
  <2>3. i \in 1 .. Len(p) - (k + 1) + 1 /\ k + 1 + i - 1 = k + i /\ k + i \in 1 .. Len(p)
    BY <1>1, <1>2, <2>2
  <2>. QED  BY <1>5, <2>3
<1>9. q[1] = p[k + 1] /\ k + 1 \in DOMAIN p
  <2>1. 1 \in DOMAIN q
    BY <1>1, <1>2, <1>7
  <2>. QED  BY <1>8, <2>1
<1>10. t <= p[k + 1]
  <2>1. SUFFICES ASSUME p[k + 1] < t  PROVE FALSE
    BY <1>1, <1>9
  <2>2. \A i \in 1 .. k + 1 : i \in early
    <3>1. SUFFICES ASSUME NEW i \in 1 .. k + 1  PROVE i \in DOMAIN p /\ p[i] < t
      OBVIOUS
    <3>2. i \in DOMAIN p /\ i <= k + 1
      BY <1>1, <1>2, <1>7
    <3>3. p[i] <= p[k + 1]
      BY <1>9, <3>2 DEF IsPlan
    <3>4. p[i] \in Nat /\ p[k + 1] \in Nat
      BY <1>1, <1>9, <3>2
    <3>. QED  BY <2>1, <3>2, <3>3, <3>4
  <2>3. 1 .. k + 1 \in SUBSET early
    BY <2>2
  <2>4. Cardinality(1 .. k + 1) <= Cardinality(early)
    BY <1>2, <2>3, FS_Subset
  <2>5. Cardinality(1 .. k + 1) = k + 1
    <3>1. 1 \in Int /\ k + 1 \in Int /\ ~(1 > k + 1)
      BY <1>2
    <3>. QED  BY <1>2, <3>1, FS_Interval
  <2>6. Cardinality(early) = k
    BY DEF k
  <2>. QED  BY <1>2, <2>4, <2>5, <2>6
<1>11. \A i, j \in DOMAIN q : i <= j => q[i] <= q[j]
  <2>1. SUFFICES ASSUME NEW i \in DOMAIN q, NEW j \in DOMAIN q, i <= j
                 PROVE  p[k + i] <= p[k + j]
    BY <1>8
  <2>2. k + i <= k + j
    BY <1>2, <1>7, <2>1
  <2>3. k + i \in DOMAIN p /\ k + j \in DOMAIN p
    BY <1>8
  <2>. QED  BY <2>2, <2>3 DEF IsPlan
<1>12. \A i \in DOMAIN q : q[i] <= q[1] + CycleDuration
  <2>1. SUFFICES ASSUME NEW i \in DOMAIN q  PROVE q[i] <= q[1] + CycleDuration
    OBVIOUS
  <2>2. q[i] <= p[1] + CycleDuration
    BY <1>8 DEF IsPlan
  <2>3. p[1] <= p[k + 1]
    <3>1. 1 <= k + 1
      BY <1>2
    <3>. QED  BY <1>1, <1>9, <3>1 DEF IsPlan
  <2>4. q[i] \in Nat /\ p[1] \in Nat /\ p[k + 1] \in Nat
    BY <1>1, <1>8, <1>9
  <2>. QED  BY <1>0, <1>9, <2>2, <2>3, <2>4
<1>13. q[1] <= p[1] + CycleDuration
  BY <1>9 DEF IsPlan
<1>. QED  BY <1>5, <1>9, <1>10, <1>11, <1>12, <1>13 DEF IsPlan

\* A plan moved later keeps its order and begins at the later of the two.
LEMMA NoEarlierBegins ==
    ASSUME NEW p \in Seq(Nat), IsPlan(p), NEW e \in Nat, NEW q, q = NoEarlier(p, e)
    PROVE  q \in Seq(Nat) /\ IsPlan(q) /\ q[1] = Larger(p[1], e)
<1>0. CycleDuration \in Nat
  BY CycleCoversInterval
<1>1. /\ Len(p) \in Nat \ {0} /\ DOMAIN p = 1 .. Len(p) /\ 1 \in DOMAIN p
      /\ \A i \in DOMAIN p : p[i] \in Nat
  BY PlanFacts
<1>2. CASE p[1] < e
  <2> DEFINE by == e - p[1]
  <2>1. by \in Nat
    BY <1>1, <1>2
  <2>. HIDE DEF by
  <2>2. q = [i \in DOMAIN p |-> p[i] + by]
    BY <1>2 DEF NoEarlier, Shift, by
  <2>3. q \in [1 .. Len(p) -> Nat]
    BY <1>1, <2>1, <2>2
  <2>4. q \in Seq(Nat) /\ DOMAIN q = 1 .. Len(p)
    BY <1>1, <2>3, SequenceOf
  <2>5. q[1] = e
    BY <1>1, <2>2 DEF by
  <2>6. \A i \in DOMAIN q : q[i] = p[i] + by /\ p[i] \in Nat
    BY <1>1, <2>2
  <2>7. \A i, j \in DOMAIN q : i <= j => q[i] <= q[j]
    <3>1. \A i, j \in DOMAIN q : i <= j => p[i] <= p[j]
      BY <1>1, <2>4 DEF IsPlan
    <3>. QED  BY <2>1, <2>6, <3>1
  <2>8. \A i \in DOMAIN q : q[i] <= q[1] + CycleDuration
    <3>1. \A i \in DOMAIN q : p[i] <= p[1] + CycleDuration
      BY <1>1, <2>4 DEF IsPlan
    <3>2. 1 \in DOMAIN q
      BY <1>1, <2>4
    <3>. QED  BY <1>0, <2>1, <2>6, <3>1, <3>2
  <2>9. q # <<>>
    BY <1>1, <2>4
  <2>10. q[1] = Larger(p[1], e)
    BY <1>1, <1>2, <2>5 DEF Larger
  <2>. QED  BY <2>4, <2>7, <2>8, <2>9, <2>10 DEF IsPlan
<1>3. CASE ~(p[1] < e)
  <2>1. q = p
    BY <1>3 DEF NoEarlier
  <2>2. Larger(p[1], e) = p[1]
    BY <1>1, <1>3 DEF Larger
  <2>. QED  BY <2>1, <2>2
<1>. QED  BY <1>2, <1>3

-----------------------------------------------------------------------------
\* A claim stores a later deadline, an interval away, within a cycle.
LEMMA ClaimedPlan ==
    ASSUME NEW row \in RowType, IsPlan(row.plan), NEW at \in Nat, row.plan[1] <= at,
           NEW q \in planAfterClaim(row, row.plan[1], at)
    PROVE  /\ q \in Seq(Nat) /\ IsPlan(q)
           /\ row.plan[1] < q[1] /\ q[1] <= at + CycleDuration
<1>0. /\ MinimumInterval \in Nat \ {0} /\ CycleDuration \in Nat
      /\ MinimumInterval <= CycleDuration /\ Creations \in Nat \ {0}
  BY CycleCoversInterval
<1> DEFINE expected == row.plan[1]  remaining == futurePlan(row.plan, expected)
<1>1. row.plan \in Seq(Nat)
  BY DEF RowType
<1>2. expected \in Nat
  BY <1>1, PlanFacts
<1>3. CASE q \in generatePlan(Larger(expected, at))
  <2>1. Larger(expected, at) = at
    BY <1>2 DEF Larger
  <2>2. /\ q \in Seq(Nat) /\ IsPlan(q)
        /\ \A i \in DOMAIN q : at + MinimumInterval <= q[i] /\ q[i] <= at + CycleDuration
    BY <1>3, <2>1, GeneratedPlan
  <2>3. 1 \in DOMAIN q /\ q[1] \in Nat
    BY <2>2, PlanFacts
  <2>. QED  BY <1>0, <1>2, <2>2, <2>3
<1>4. CASE remaining # <<>> /\ q = NoEarlier(remaining, at + MinimumInterval)
  <2>1. expected + 1 \in Nat
    BY <1>2
  <2>2. remaining = PlanFrom(row.plan, expected + 1)
    BY DEF futurePlan
  <2>3. /\ remaining \in Seq(Nat) /\ IsPlan(remaining)
        /\ expected + 1 <= remaining[1] /\ remaining[1] <= expected + CycleDuration
    BY <1>1, <1>4, <2>1, <2>2, PlanFromBegins
  <2>4. at + MinimumInterval \in Nat
    BY <1>0
  <2>5. q \in Seq(Nat) /\ IsPlan(q) /\ q[1] = Larger(remaining[1], at + MinimumInterval)
    BY <1>4, <2>3, <2>4, NoEarlierBegins
  <2>6. remaining[1] \in Nat
    BY <2>3, PlanFacts
  <2>. QED  BY <1>0, <1>2, <2>3, <2>5, <2>6 DEF Larger
<1>. QED  BY <1>3, <1>4 DEF planAfterClaim

\* A plan that was due too soon begins when it may.
LEMMA ShiftedPlan ==
    ASSUME NEW row \in RowType, IsPlan(row.plan), NEW e \in Nat, MinimumInterval <= e,
           NEW q \in shiftCurrentPlan(row, row.plan[1], e)
    PROVE  q \in Seq(Nat) /\ IsPlan(q) /\ e <= q[1]
<1>0. /\ MinimumInterval \in Nat \ {0} /\ CycleDuration \in Nat /\ Creations \in Nat \ {0}
  BY CycleCoversInterval
<1> DEFINE expected == row.plan[1]  rest == futurePlanIncludingCurrent(row.plan, expected)
<1>1. row.plan \in Seq(Nat)
  BY DEF RowType
<1>2. expected \in Nat
  BY <1>1, PlanFacts
<1>3. CASE q \in generatePlan(e - MinimumInterval)
  <2>1. e - MinimumInterval \in Nat
    BY <1>0
  <2>2. /\ q \in Seq(Nat) /\ IsPlan(q)
        /\ \A i \in DOMAIN q : (e - MinimumInterval) + MinimumInterval <= q[i]
    BY <1>3, <2>1, GeneratedPlan
  <2>3. 1 \in DOMAIN q /\ q[1] \in Nat
    BY <2>2, PlanFacts
  <2>. QED  BY <1>0, <2>2, <2>3
<1>4. CASE rest # <<>> /\ q = NoEarlier(rest, e)
  <2>1. rest = PlanFrom(row.plan, expected)
    BY DEF futurePlanIncludingCurrent
  <2>2. rest \in Seq(Nat) /\ IsPlan(rest)
    BY <1>1, <1>2, <1>4, <2>1, PlanFromBegins
  <2>3. q \in Seq(Nat) /\ IsPlan(q) /\ q[1] = Larger(rest[1], e)
    BY <1>4, <2>2, NoEarlierBegins
  <2>4. rest[1] \in Nat
    BY <2>2, PlanFacts
  <2>. QED  BY <2>3, <2>4 DEF Larger
<1>. QED  BY <1>3, <1>4 DEF shiftCurrentPlan

-----------------------------------------------------------------------------
\* A manager with nothing in memory.
LEMMA AsleepType ==
    Asleep \in ManagerType /\ Asleep.pc = "asleep" /\ Asleep.current = FALSE
BY EmptySeq DEF Asleep, ManagerType, RowType

\* The types of what is read in a step.
LEMMA AutoFacts ==
    ASSUME AutoInv
    PROVE  /\ now \in Nat /\ started \in Nat /\ notBefore \in Nat /\ started <= now
           /\ schedule \in RowType /\ schedule.plan \in Seq(Nat)
           /\ schedule.enabled => IsPlan(schedule.plan) /\ schedule.plan[1] \in Nat
                                  /\ notBefore <= schedule.plan[1]
           /\ \A m \in Managers :
                 /\ managers[m] \in ManagerType /\ managers[m].plan \in Seq(Nat)
                 /\ managers[m].row \in RowType /\ managers[m].row.plan \in Seq(Nat)
                 /\ managers[m].at \in Nat
                 /\ managers[m].pc = "due" => managers[m].row.plan[1] \in Nat
                 /\ managers[m].pc \in {"claimed", "creating"} => managers[m].plan[1] \in Nat
<1>1. AutoType /\ Started /\ ScheduleInv /\ ManagersInv
  BY DEF AutoInv
<1>2. schedule \in RowType /\ schedule.plan \in Seq(Nat)
  BY <1>1 DEF AutoType, RowType
<1>3. schedule.enabled => IsPlan(schedule.plan) /\ schedule.plan[1] \in Nat
                          /\ notBefore <= schedule.plan[1]
  BY <1>1, <1>2, PlanFacts DEF ScheduleInv
<1>4. ASSUME NEW m \in Managers
      PROVE  /\ managers[m] \in ManagerType /\ managers[m].plan \in Seq(Nat)
             /\ managers[m].row \in RowType /\ managers[m].row.plan \in Seq(Nat)
             /\ managers[m].at \in Nat
             /\ managers[m].pc = "due" => managers[m].row.plan[1] \in Nat
             /\ managers[m].pc \in {"claimed", "creating"} => managers[m].plan[1] \in Nat
  <2>1. managers[m] \in ManagerType
    BY <1>1 DEF AutoType
  <2>2. /\ managers[m].plan \in Seq(Nat) /\ managers[m].row \in RowType
        /\ managers[m].at \in Nat
    BY <2>1 DEF ManagerType
  <2>3. managers[m].row.plan \in Seq(Nat)
    BY <2>2 DEF RowType
  <2>4. managers[m].pc = "due" => managers[m].row.plan[1] \in Nat
    BY <1>1, <2>3, PlanFacts DEF ManagersInv, Due
  <2>5. managers[m].pc \in {"claimed", "creating"} => managers[m].plan[1] \in Nat
    BY <1>1, <2>2, PlanFacts DEF ManagersInv, Holding
  <2>. QED  BY <2>1, <2>2, <2>3, <2>4, <2>5
<1>. QED  BY <1>1, <1>2, <1>3, <1>4 DEF AutoType, Started

\* A claim stays one while its plan is stored; when the stored deadline has
\* moved on it can no longer be the stored one.
LEMMA ClaimKept ==
    ASSUME AutoInv, now' = now, NEW k \in Managers, managers'[k] = managers[k],
           managers[k].current, schedule'.enabled,
           \/ schedule'.plan = schedule.plan /\ notBefore' = notBefore
           \/ schedule'.plan = schedule.plan /\ managers[k].plan[1] # schedule.plan[1]
           \/ schedule'.plan[1] \in Nat /\ schedule.plan[1] < schedule'.plan[1]
    PROVE  Claims(managers[k])'
<1>1. Claims(managers[k])
  BY DEF AutoInv, ManagersInv
<1>2. managers[k].plan[1] \in Nat /\ schedule.plan[1] \in Nat
  BY <1>1, AutoFacts DEF Claims
<1>3. managers[k].pc \in {"claimed", "creating"} /\ managers[k].plan[1] <= schedule.plan[1]
  BY <1>1 DEF Claims
<1>4. /\ managers[k].plan[1] <= schedule'.plan[1]
      /\ managers[k].pc = "claimed" /\ managers[k].plan[1] = schedule'.plan[1] => notBefore' <= now
  BY <1>1, <1>2 DEF Claims
<1>. QED  BY <1>3, <1>4 DEF Claims

\* A step of one manager.
LEMMA ManagerMoves ==
    ASSUME AutoInv, now' = now, NEW m \in Managers,
           \A k \in Managers \ {m} :
              managers'[k] = managers[k] /\ (managers[k].current => Claims(managers[k])'),
           managers'[m].pc = "due" => Due(managers[m])',
           managers'[m].pc \in {"claimed", "creating"} => Holding(managers[m])',
           managers'[m].current => Claims(managers[m])',
           managers'[m].current => \A k \in Managers \ {m} :
              managers[k].current => managers[k].plan[1] # managers'[m].plan[1]
    PROVE  ManagersInv'
<1>1. ASSUME NEW k \in Managers
      PROVE  /\ managers'[k].pc = "due" => Due(managers[k])'
             /\ managers'[k].pc \in {"claimed", "creating"} => Holding(managers[k])'
             /\ managers'[k].current => Claims(managers[k])'
  <2>1. CASE k = m
    BY <2>1
  <2>2. CASE k # m
    <3>1. managers'[k] = managers[k] /\ (managers[k].current => Claims(managers[k])')
      BY <2>2
    <3>2. /\ managers[k].pc = "due" => Due(managers[k])
          /\ managers[k].pc \in {"claimed", "creating"} => Holding(managers[k])
      BY DEF AutoInv, ManagersInv
    <3>3. Due(managers[k]) => Due(managers[k])'
      BY <3>1 DEF Due
    <3>4. Holding(managers[k]) => Holding(managers[k])'
      BY <3>1 DEF Holding
    <3>. QED  BY <3>1, <3>2, <3>3, <3>4
  <2>. QED  BY <2>1, <2>2
<1>2. ASSUME NEW i \in Managers, NEW k \in Managers, i # k, managers'[i].current, managers'[k].current
      PROVE  managers'[i].plan[1] # managers'[k].plan[1]
  <2>1. \A a, b \in Managers : a # b /\ managers[a].current /\ managers[b].current =>
           managers[a].plan[1] # managers[b].plan[1]
    BY DEF AutoInv, ManagersInv
  <2>2. CASE i = m
    BY <1>2, <2>2
  <2>3. CASE k = m
    BY <1>2, <2>3
  <2>4. CASE i # m /\ k # m
    BY <1>2, <2>1, <2>4
  <2>. QED  BY <2>2, <2>3, <2>4
<1>. QED  BY <1>1, <1>2 DEF ManagersInv

\* A manager that goes back to sleep.
LEMMA ManagerSleeps ==
    ASSUME AutoInv, now' = now, NEW m \in Managers, To(m, Asleep),
           \A k \in Managers \ {m} : managers[k].current =>
              \/ /\ schedule'.enabled = schedule.enabled /\ schedule'.plan = schedule.plan
                 /\ notBefore' = notBefore
              \/ schedule'.enabled /\ schedule'.plan[1] \in Nat /\ schedule.plan[1] < schedule'.plan[1]
    PROVE  managers' \in [Managers -> ManagerType] /\ ManagersInv'
<1>1. managers \in [Managers -> ManagerType]
  BY DEF AutoInv, AutoType
<1>2. Asleep \in ManagerType
  BY AsleepType
<1>3. managers' \in [Managers -> ManagerType]
  BY <1>1, <1>2 DEF To
<1>4. managers'[m] = Asleep /\ \A k \in Managers \ {m} : managers'[k] = managers[k]
  BY <1>1 DEF To
<1>5. Asleep.pc = "asleep" /\ Asleep.current = FALSE
  BY AsleepType
<1>6. ASSUME NEW k \in Managers \ {m}, managers[k].current
      PROVE  Claims(managers[k])'
  <2>1. Claims(managers[k])
    BY <1>6 DEF AutoInv, ManagersInv
  <2>2. schedule'.enabled
    BY <1>6, <2>1 DEF Claims
  <2>. QED  BY <1>4, <1>6, <2>2, ClaimKept
<1>7. ManagersInv'
  BY <1>4, <1>5, <1>6, ManagerMoves
<1>. QED  BY <1>3, <1>7

\* Without a plan there is nothing to claim.
LEMMA NothingClaimed ==
    ASSUME AutoInv, NEW ms \in [Managers -> ManagerType], managers' = Withdrawn(ms), now' = now,
           \A k \in Managers : ms[k] = managers[k] \/ ms[k] = Asleep
    PROVE  managers' \in [Managers -> ManagerType] /\ ManagersInv'
<1>1. managers' \in [Managers -> ManagerType]
  BY DEF Withdrawn, ManagerType
<1>2. ASSUME NEW k \in Managers
      PROVE  /\ managers'[k].current = FALSE
             /\ managers'[k].pc = "due" => Due(managers[k])'
             /\ managers'[k].pc \in {"claimed", "creating"} => Holding(managers[k])'
  <2>1. ms[k] \in ManagerType
    OBVIOUS
  <2>2. /\ managers'[k].current = FALSE /\ managers'[k].pc = ms[k].pc /\ managers'[k].row = ms[k].row
        /\ managers'[k].plan = ms[k].plan /\ managers'[k].at = ms[k].at
    BY <2>1 DEF Withdrawn, ManagerType
  <2>3. CASE ms[k] = Asleep
    BY <2>2, <2>3 DEF Asleep
  <2>4. CASE ms[k] = managers[k]
    <3>1. /\ managers[k].pc = "due" => Due(managers[k])
          /\ managers[k].pc \in {"claimed", "creating"} => Holding(managers[k])
      BY DEF AutoInv, ManagersInv
    <3>2. Due(managers[k]) => Due(managers[k])'
      BY <2>2, <2>4 DEF Due
    <3>3. Holding(managers[k]) => Holding(managers[k])'
      BY <2>2, <2>4 DEF Holding
    <3>. QED  BY <2>2, <2>4, <3>1, <3>2, <3>3
  <2>. QED  BY <2>3, <2>4
<1>. QED  BY <1>1, <1>2 DEF ManagersInv

-----------------------------------------------------------------------------
\* A successful compare-and-swap to a later plan.
LEMMA CasRaises ==
    ASSUME AutoInv, NEW e, NEW q \in Seq(Nat), IsPlan(q), e < q[1], NEW last \in Nat,
           casAliasCreationPlan(e, q, last)
    PROVE  /\ schedule' \in RowType /\ schedule'.enabled /\ schedule'.plan = q /\ q[1] \in Nat
           /\ schedule.enabled /\ schedule.plan[1] = e /\ e \in Nat /\ schedule.plan[1] < schedule'.plan[1]
           /\ notBefore' = notBefore => ScheduleInv'
<1>1. /\ schedule.enabled /\ schedule.plan[1] = e
      /\ schedule' = [schedule EXCEPT !.plan = q, !.last = last]
  BY DEF casAliasCreationPlan
<1>2. /\ schedule \in RowType /\ notBefore \in Nat /\ schedule.plan[1] \in Nat
      /\ notBefore <= schedule.plan[1]
  BY <1>1, AutoFacts
<1>3. schedule' \in RowType /\ schedule'.enabled /\ schedule'.plan = q
  BY <1>1, <1>2 DEF RowType
<1>4. q[1] \in Nat
  BY PlanFacts
<1>5. notBefore' = notBefore => ScheduleInv'
  <2>1. SUFFICES ASSUME notBefore' = notBefore
                 PROVE  IsPlan(schedule'.plan) /\ notBefore <= schedule'.plan[1]
    BY DEF ScheduleInv
  <2>. QED  BY <1>1, <1>2, <1>3, <1>4
<1>. QED  BY <1>1, <1>2, <1>3, <1>4, <1>5

\* The clock advances.
LEMMA TickKeeps == ASSUME AutoInv, Tick PROVE AutoInv'
<1>1. /\ now' = now + 1
      /\ UNCHANGED <<schedule, managers, accountOn, started, notBefore>>
  BY DEF Tick
<1>2. now \in Nat /\ notBefore \in Nat /\ started \in Nat /\ started <= now
  BY AutoFacts
<1>3. AutoType'
  BY <1>1 DEF AutoInv, AutoType
<1>4. Started' /\ ScheduleInv'
  BY <1>1, <1>2 DEF AutoInv, Started, ScheduleInv
<1>5. ASSUME NEW m \in Managers
      PROVE  /\ managers'[m].pc = "due" => Due(managers[m])'
             /\ managers'[m].pc \in {"claimed", "creating"} => Holding(managers[m])'
             /\ managers'[m].current => Claims(managers[m])'
  <2>1. /\ managers[m].pc = "due" => Due(managers[m])
        /\ managers[m].pc \in {"claimed", "creating"} => Holding(managers[m])
        /\ managers[m].current => Claims(managers[m])
    BY DEF AutoInv, ManagersInv
  <2>2. managers[m].pc = "due" => Due(managers[m])'
    <3>1. managers[m].pc = "due" => managers[m].row.plan[1] \in Nat
      BY AutoFacts
    <3>. QED  BY <1>1, <1>2, <2>1, <3>1 DEF Due
  <2>3. Holding(managers[m]) => Holding(managers[m])'
    <3>1. managers[m].at \in Nat
      BY AutoFacts
    <3>. QED  BY <1>1, <1>2, <3>1 DEF Holding
  <2>4. Claims(managers[m]) => Claims(managers[m])'
    BY <1>1, <1>2 DEF Claims
  <2>. QED  BY <1>1, <2>1, <2>2, <2>3, <2>4
<1>6. \A m, k \in Managers : m # k /\ managers'[m].current /\ managers'[k].current =>
          managers'[m].plan[1] # managers'[k].plan[1]
  BY <1>1 DEF AutoInv, ManagersInv
<1>. QED  BY <1>3, <1>4, <1>5, <1>6 DEF AutoInv, ManagersInv

\* The row without a plan.
LEMMA DisabledRow ==
    ASSUME AutoInv, schedule' = Disabled
    PROVE  schedule' \in RowType /\ ScheduleInv'
<1>1. schedule \in RowType
  BY AutoFacts
<1>2. schedule' \in RowType /\ schedule'.enabled = FALSE
  BY <1>1, EmptySeq DEF Disabled, RowType
<1>. QED  BY <1>2 DEF ScheduleInv

\* The account is switched.
LEMMA SwitchAccountKeeps == ASSUME AutoInv, SwitchAccount PROVE AutoInv'
<1>1. UNCHANGED <<now, started, notBefore>> /\ accountOn' = ~accountOn
  BY DEF SwitchAccount
<1>2. AutoType /\ Started
  BY DEF AutoInv
<1>3. managers \in [Managers -> ManagerType]
  BY <1>2 DEF AutoType
<1>4. CASE accountOn
  <2>1. schedule' = Disabled /\ managers' = Withdrawn(managers)
    BY <1>4 DEF SwitchAccount
  <2>2. managers' \in [Managers -> ManagerType] /\ ManagersInv'
    BY <1>1, <1>3, <2>1, NothingClaimed
  <2>3. schedule' \in RowType /\ ScheduleInv'
    BY <2>1, DisabledRow
  <2>. QED  BY <1>1, <1>2, <2>2, <2>3 DEF AutoInv, AutoType, Started
<1>5. CASE ~accountOn
  <2>1. UNCHANGED <<schedule, managers>>
    BY <1>5 DEF SwitchAccount
  <2>2. AutoType' /\ Started' /\ ScheduleInv'
    BY <1>1, <1>2, <2>1 DEF AutoInv, AutoType, Started, ScheduleInv
  <2>3. ManagersInv'
    BY <1>1, <2>1 DEF AutoInv, ManagersInv, Due, Holding, Claims
  <2>. QED  BY <2>2, <2>3 DEF AutoInv
<1>. QED  BY <1>4, <1>5

\* The administrator switches creation.
LEMMA SettingKeeps ==
    ASSUME AutoInv, NEW on \in BOOLEAN, adminAPISetAliasAutoCreation(on)
    PROVE  AutoInv'
<1>1. UNCHANGED <<now, accountOn, started>> /\ SetEnabled(on)
  BY DEF adminAPISetAliasAutoCreation
<1>2. AutoType /\ Started
  BY DEF AutoInv
<1>3. managers \in [Managers -> ManagerType]
  BY <1>2 DEF AutoType
<1>4. CASE ~on
  <2>1. schedule' = Disabled /\ managers' = Withdrawn(managers) /\ notBefore' = notBefore
    BY <1>1, <1>4 DEF SetEnabled
  <2>2. managers' \in [Managers -> ManagerType] /\ ManagersInv'
    BY <1>1, <1>3, <2>1, NothingClaimed
  <2>3. schedule' \in RowType /\ ScheduleInv'
    BY <2>1, DisabledRow
  <2>. QED  BY <1>1, <1>2, <2>1, <2>2, <2>3 DEF AutoInv, AutoType, Started
<1>5. CASE on
  <2>1. PICK plan \in generatePlan(now) : EnableAliasCreation(plan)
    BY <1>1, <1>5 DEF SetEnabled
  <2>2. managers' = managers /\ schedule.enabled # TRUE
    BY <1>1, <1>5 DEF SetEnabled
  <2>3. now \in Nat /\ started \in Nat /\ started <= now /\ schedule \in RowType
    BY AutoFacts
  <2>4. /\ plan \in Seq(Nat) /\ IsPlan(plan)
        /\ \A i \in DOMAIN plan : now + MinimumInterval <= plan[i]
    BY <2>3, GeneratedPlan
  <2>5. 1 \in DOMAIN plan /\ plan[1] \in Nat
    BY <2>4, PlanFacts
  <2>6. /\ schedule' = [schedule EXCEPT !.enabled = TRUE, !.plan = plan]
        /\ notBefore' = started + MinimumInterval
    BY <2>1 DEF EnableAliasCreation
  <2>7. schedule' \in RowType /\ schedule'.plan = plan
    BY <2>3, <2>4, <2>6 DEF RowType
  <2>8. notBefore' \in Nat /\ notBefore' <= plan[1]
    BY <2>3, <2>4, <2>5, <2>6, CycleCoversInterval
  <2>9. AutoType' /\ Started' /\ ScheduleInv'
    BY <1>1, <1>2, <2>2, <2>4, <2>7, <2>8 DEF AutoType, Started, ScheduleInv
  <2>10. \A m \in Managers : ~managers[m].current
    BY <2>2, <2>3 DEF AutoInv, ManagersInv, Claims
  <2>11. ManagersInv'
    BY <1>1, <2>2, <2>10 DEF AutoInv, ManagersInv, Due, Holding
  <2>. QED  BY <2>9, <2>11 DEF AutoInv
<1>. QED  BY <1>4, <1>5

\* A manager that goes back to sleep, with the row as it was or raised.
LEMMA SleepKeeps ==
    ASSUME AutoInv, NEW m \in Managers, To(m, Asleep),
           UNCHANGED <<now, accountOn, started>>, notBefore' \in Nat,
           schedule' \in RowType, ScheduleInv',
           \/ /\ schedule'.enabled = schedule.enabled /\ schedule'.plan = schedule.plan
              /\ notBefore' = notBefore
           \/ schedule'.enabled /\ schedule'.plan[1] \in Nat /\ schedule.plan[1] < schedule'.plan[1]
    PROVE  AutoInv'
<1>1. AutoType /\ Started
  BY DEF AutoInv
<1>2. managers' \in [Managers -> ManagerType] /\ ManagersInv'
  BY ManagerSleeps
<1>. QED  BY <1>1, <1>2 DEF AutoInv, AutoType, Started

\* A result recorded or not moves no deadline.
LEMMA RecordedRow ==
    ASSUME AutoInv, NEW at \in Nat, schedule' \in {schedule, Recorded(schedule, at)},
           notBefore' = notBefore
    PROVE  /\ schedule' \in RowType /\ ScheduleInv' /\ notBefore' \in Nat
           /\ schedule'.enabled = schedule.enabled /\ schedule'.plan = schedule.plan
<1>1. schedule \in RowType /\ notBefore \in Nat
  BY AutoFacts
<1>2. /\ schedule' \in RowType
      /\ schedule'.enabled = schedule.enabled /\ schedule'.plan = schedule.plan
  BY <1>1 DEF Recorded, RowType
<1>. QED  BY <1>1, <1>2 DEF AutoInv, ScheduleInv

-----------------------------------------------------------------------------
\* A poll.
LEMMA runDueKeeps == ASSUME AutoInv, NEW m \in Managers, runDue(m) PROVE AutoInv'
<1>1. /\ schedule.enabled /\ schedule.plan[1] <= now
      /\ To(m, [Asleep EXCEPT !.pc = "due", !.row = schedule])
      /\ UNCHANGED <<now, schedule, accountOn, started, notBefore>>
  BY DEF runDue
<1>2. AutoType /\ Started /\ ScheduleInv /\ managers \in [Managers -> ManagerType]
  BY DEF AutoInv, AutoType
<1>3. schedule \in RowType
  BY AutoFacts
<1>4. /\ managers'[m] = [Asleep EXCEPT !.pc = "due", !.row = schedule]
      /\ \A k \in Managers \ {m} : managers'[k] = managers[k]
  BY <1>1, <1>2 DEF To
<1>5. /\ managers'[m] \in ManagerType /\ managers'[m].pc = "due" /\ managers'[m].row = schedule
      /\ managers'[m].current = FALSE
  BY <1>3, <1>4, AsleepType DEF ManagerType
<1>6. managers' \in [Managers -> ManagerType]
  BY <1>1, <1>2, <1>4, <1>5 DEF To
<1>7. AutoType' /\ Started' /\ ScheduleInv'
  BY <1>1, <1>2, <1>6 DEF AutoType, Started, ScheduleInv
<1>8. Due(managers[m])'
  BY <1>1, <1>2, <1>5 DEF Due, ScheduleInv
<1>9. \A k \in Managers \ {m} : managers[k].current => Claims(managers[k])'
  BY <1>1, <1>4, ClaimKept
<1>10. ManagersInv'
  BY <1>1, <1>4, <1>5, <1>8, <1>9, ManagerMoves
<1>. QED  BY <1>7, <1>10 DEF AutoInv

\* A slot that is too late.
LEMMA OverdueKeeps == ASSUME AutoInv, NEW m \in Managers, RescheduleOverdue(m) PROVE AutoInv'
<1> DEFINE expected == managers[m].row.plan[1]
<1>1. /\ managers[m].pc = "due" /\ now - expected > OverdueGrace /\ To(m, Asleep)
      /\ UNCHANGED <<now, accountOn, started, notBefore>>
  BY DEF RescheduleOverdue
<1>2. now \in Nat /\ expected \in Nat /\ notBefore \in Nat /\ schedule \in RowType
  BY <1>1, AutoFacts
<1>3. ASSUME NEW plan \in generatePlan(now), casAliasCreationPlan(expected, plan, schedule.last)
      PROVE  AutoInv'
  <2>1. /\ plan \in Seq(Nat) /\ IsPlan(plan)
        /\ \A i \in DOMAIN plan : now + MinimumInterval <= plan[i]
    BY <1>2, GeneratedPlan
  <2>2. 1 \in DOMAIN plan /\ plan[1] \in Nat
    BY <2>1, PlanFacts
  <2>3. expected < plan[1]
    <3>1. now + MinimumInterval <= plan[1]
      BY <2>1, <2>2
    <3>2. expected < now + MinimumInterval
      BY <1>1, <1>2, CycleCoversInterval
    <3>. QED  BY <1>2, <2>2, <3>1, <3>2, CycleCoversInterval
  <2>4. schedule.last \in Nat
    BY <1>2 DEF RowType
  <2>5. /\ schedule' \in RowType /\ schedule'.enabled /\ schedule'.plan = plan
        /\ schedule.plan[1] < schedule'.plan[1] /\ ScheduleInv'
    BY <1>1, <1>3, <2>1, <2>3, <2>4, CasRaises
  <2>. QED  BY <1>1, <1>2, <2>2, <2>5, SleepKeeps
<1>4. ASSUME UNCHANGED schedule  PROVE AutoInv'
  <2>1. ScheduleInv'
    BY <1>1, <1>4 DEF AutoInv, ScheduleInv
  <2>. QED  BY <1>1, <1>2, <1>4, <2>1, SleepKeeps
<1>. QED  BY <1>3, <1>4 DEF RescheduleOverdue

\* A slot too soon after the last attempt.
LEMMA TooSoonKeeps == ASSUME AutoInv, NEW m \in Managers, RescheduleTooSoon(m) PROVE AutoInv'
<1> DEFINE row == managers[m].row  expected == row.plan[1]  earliest == row.last + MinimumInterval
<1>1. /\ managers[m].pc = "due" /\ TooSoon(row) /\ To(m, Asleep)
      /\ UNCHANGED <<now, accountOn, started, notBefore>>
  BY DEF RescheduleTooSoon
<1>2. now \in Nat /\ expected \in Nat /\ notBefore \in Nat /\ schedule \in RowType /\ row \in RowType
  BY <1>1, AutoFacts
<1>3. row.last \in Nat /\ earliest \in Nat /\ MinimumInterval <= earliest
  BY <1>2, CycleCoversInterval DEF RowType
<1>4. IsPlan(row.plan) /\ expected <= now
  BY <1>1 DEF AutoInv, ManagersInv, Due
<1>5. expected < earliest
  BY <1>1, <1>2, <1>3, <1>4 DEF TooSoon
<1>6. ASSUME NEW plan \in shiftCurrentPlan(row, expected, earliest),
             casAliasCreationPlan(expected, plan, schedule.last)
      PROVE  AutoInv'
  <2>1. plan \in Seq(Nat) /\ IsPlan(plan) /\ earliest <= plan[1]
    BY <1>2, <1>3, <1>4, <1>6, ShiftedPlan
  <2>2. plan[1] \in Nat
    BY <2>1, PlanFacts
  <2>3. expected < plan[1]
    BY <1>2, <1>3, <1>5, <2>1, <2>2
  <2>4. schedule.last \in Nat
    BY <1>2 DEF RowType
  <2>5. /\ schedule' \in RowType /\ schedule'.enabled /\ schedule'.plan = plan
        /\ schedule.plan[1] < schedule'.plan[1] /\ ScheduleInv'
    BY <1>1, <1>6, <2>1, <2>3, <2>4, CasRaises
  <2>. QED  BY <1>1, <1>2, <2>2, <2>5, SleepKeeps
<1>7. ASSUME UNCHANGED schedule  PROVE AutoInv'
  <2>1. ScheduleInv'
    BY <1>1, <1>7 DEF AutoInv, ScheduleInv
  <2>. QED  BY <1>1, <1>2, <1>7, <2>1, SleepKeeps
<1>. QED  BY <1>6, <1>7 DEF RescheduleTooSoon

\* The claim of a due slot: its deadline, hence notBefore, has passed.
LEMMA ClaimKeeps == ASSUME AutoInv, NEW m \in Managers, ClaimAliasCreation(m) PROVE AutoInv'
<1> DEFINE row == managers[m].row  expected == row.plan[1]
           held(plan) == [Asleep EXCEPT !.pc = "claimed", !.plan = plan, !.at = now, !.current = TRUE]
<1>1. /\ managers[m].pc = "due"
      /\ UNCHANGED <<now, accountOn, started, notBefore>>
  BY DEF ClaimAliasCreation
<1>2. now \in Nat /\ expected \in Nat /\ notBefore \in Nat /\ schedule \in RowType /\ row \in RowType
  BY <1>1, AutoFacts
<1>3. IsPlan(row.plan) /\ expected <= now
  BY <1>1 DEF AutoInv, ManagersInv, Due
<1>4. AutoType /\ Started /\ managers \in [Managers -> ManagerType]
  BY DEF AutoInv, AutoType
<1>5. ASSUME NEW plan \in planAfterClaim(row, expected, now),
             casAliasCreationPlan(expected, plan, now), To(m, held(plan))
      PROVE  AutoInv'
  <2>1. /\ plan \in Seq(Nat) /\ IsPlan(plan)
        /\ expected < plan[1] /\ plan[1] <= now + CycleDuration
    BY <1>2, <1>3, <1>5, ClaimedPlan
  <2>2. /\ schedule' \in RowType /\ schedule'.enabled /\ schedule'.plan = plan /\ plan[1] \in Nat
        /\ schedule.plan[1] = expected /\ schedule.plan[1] < schedule'.plan[1] /\ ScheduleInv'
    BY <1>1, <1>2, <1>5, <2>1, CasRaises
  <2>3. managers'[m] = held(plan) /\ \A k \in Managers \ {m} : managers'[k] = managers[k]
    BY <1>4, <1>5 DEF To
  <2>4. /\ managers'[m] \in ManagerType /\ managers'[m].pc = "claimed"
        /\ managers'[m].plan = plan /\ managers'[m].at = now
    BY <1>2, <2>1, <2>3, AsleepType DEF ManagerType
  <2>5. managers' \in [Managers -> ManagerType]
    BY <1>4, <1>5, <2>3, <2>4 DEF To
  <2>6. AutoType' /\ Started'
    BY <1>1, <1>4, <2>2, <2>5 DEF AutoType, Started
  <2>7. Holding(managers[m])'
    BY <1>1, <1>2, <2>1, <2>4 DEF Holding
  <2>8. schedule.enabled /\ notBefore <= schedule.plan[1]
    BY <1>5, AutoFacts DEF casAliasCreationPlan
  <2>9. Claims(managers[m])'
    BY <1>1, <1>2, <1>3, <2>2, <2>4, <2>8 DEF Claims
  <2>10. ASSUME NEW k \in Managers \ {m}, managers[k].current
         PROVE  Claims(managers[k])' /\ managers[k].plan[1] # managers'[m].plan[1]
    <3>1. Claims(managers[k])'
      BY <1>1, <2>2, <2>3, <2>10, ClaimKept
    <3>2. managers[k].pc \in {"claimed", "creating"} /\ managers[k].plan[1] <= schedule.plan[1]
      BY <2>10 DEF AutoInv, ManagersInv, Claims
    <3>3. managers[k].plan[1] \in Nat
      BY <3>2, AutoFacts
    <3>. QED  BY <1>2, <2>2, <2>4, <3>1, <3>2, <3>3
  <2>11. ManagersInv'
    BY <1>1, <2>3, <2>4, <2>7, <2>9, <2>10, ManagerMoves
  <2>. QED  BY <2>2, <2>6, <2>11 DEF AutoInv
<1>6. ASSUME UNCHANGED schedule, To(m, Asleep)  PROVE AutoInv'
  <2>1. ScheduleInv'
    BY <1>1, <1>6 DEF AutoInv, ScheduleInv
  <2>. QED  BY <1>1, <1>2, <1>6, <2>1, SleepKeeps
<1>. QED  BY <1>5, <1>6 DEF ClaimAliasCreation

\* A manager that begins holds its plan from now on.
LEMMA BeginHolds ==
    ASSUME AutoInv, now' = now, NEW m \in Managers, managers[m].pc = "claimed",
           NEW plan \in Seq(Nat), IsPlan(plan), plan[1] <= now + CycleDuration, Begin(m, plan)
    PROVE  /\ managers' \in [Managers -> ManagerType]
           /\ managers'[m].pc = "creating" /\ managers'[m].plan = plan
           /\ managers'[m].current = managers[m].current
           /\ Holding(managers[m])'
           /\ \A k \in Managers \ {m} : managers'[k] = managers[k]
<1>1. managers \in [Managers -> ManagerType] /\ now \in Nat
  BY DEF AutoInv, AutoType
<1>2. managers' = [managers EXCEPT ![m] = [managers[m] EXCEPT !.pc = "creating", !.plan = plan, !.at = now]]
  BY DEF Begin, To
<1>3. /\ managers'[m] = [managers[m] EXCEPT !.pc = "creating", !.plan = plan, !.at = now]
      /\ \A k \in Managers \ {m} : managers'[k] = managers[k]
  BY <1>1, <1>2
<1>4. managers[m] \in ManagerType
  BY <1>1
<1>5. /\ managers'[m] \in ManagerType /\ managers'[m].pc = "creating" /\ managers'[m].plan = plan
      /\ managers'[m].at = now /\ managers'[m].current = managers[m].current
  BY <1>1, <1>3, <1>4 DEF ManagerType
<1>6. managers' \in [Managers -> ManagerType]
  BY <1>1, <1>2, <1>3, <1>5
<1>7. Holding(managers[m])'
  BY <1>1, <1>5 DEF Holding
<1>. QED  BY <1>3, <1>5, <1>6, <1>7

\* What the beginning of an attempt does to the spacing.
LEMMA BeginSpacing ==
    ASSUME AutoInv, now' = now, NEW m \in Managers, NEW plan, Begin(m, plan)
    PROVE  /\ started' \in Nat /\ notBefore' \in Nat /\ Started'
           /\ Counted(m) => notBefore' = Larger(notBefore, now + MinimumInterval)
           /\ ~Counted(m) => notBefore' = notBefore
<1>1. now \in Nat /\ started \in Nat /\ notBefore \in Nat /\ started <= now
  BY AutoFacts
<1>2. CASE Counted(m)
  <2>1. started' = now /\ notBefore' = Larger(notBefore, now + MinimumInterval)
    BY <1>2 DEF Begin
  <2>2. notBefore' \in Nat
    BY <1>1, <2>1, CycleCoversInterval DEF Larger
  <2>. QED  BY <1>1, <1>2, <2>1, <2>2 DEF Started
<1>3. CASE ~Counted(m)
  <2>1. started' = started /\ notBefore' = notBefore
    BY <1>3 DEF Begin
  <2>. QED  BY <1>1, <1>3, <2>1 DEF Started
<1>. QED  BY <1>2, <1>3

\* An attempt begins on the plan as claimed.
LEMMA BeginKeeps ==
    ASSUME AutoInv, NEW m \in Managers, managers[m].pc = "claimed", ~NeedsCorrection(m),
           Begin(m, managers[m].plan), UNCHANGED <<now, schedule, accountOn>>
    PROVE  AutoInv'
<1> DEFINE plan == managers[m].plan
<1>1. /\ now \in Nat /\ notBefore \in Nat /\ schedule \in RowType
      /\ plan \in Seq(Nat) /\ plan[1] \in Nat /\ managers[m].at \in Nat
  BY AutoFacts
<1>2. IsPlan(plan) /\ plan[1] <= managers[m].at + CycleDuration /\ managers[m].at <= now
  BY DEF AutoInv, ManagersInv, Holding
<1>3. plan[1] <= now + CycleDuration
  BY <1>1, <1>2, CycleCoversInterval
<1>4. /\ managers' \in [Managers -> ManagerType]
      /\ managers'[m].pc = "creating" /\ managers'[m].plan = plan
      /\ managers'[m].current = managers[m].current
      /\ Holding(managers[m])'
      /\ \A k \in Managers \ {m} : managers'[k] = managers[k]
  BY <1>1, <1>2, <1>3, BeginHolds
<1>5. /\ started' \in Nat /\ notBefore' \in Nat /\ Started'
      /\ Counted(m) => notBefore' = Larger(notBefore, now + MinimumInterval)
      /\ ~Counted(m) => notBefore' = notBefore
  BY BeginSpacing
<1>6. AutoType' /\ Started'
  BY <1>4, <1>5 DEF AutoInv, AutoType
<1>7. ScheduleInv'
  <2>1. SUFFICES ASSUME schedule.enabled
                 PROVE  IsPlan(schedule.plan) /\ notBefore' <= schedule.plan[1]
    BY DEF ScheduleInv
  <2>2. IsPlan(schedule.plan) /\ schedule.plan[1] \in Nat /\ notBefore <= schedule.plan[1]
    BY <2>1, AutoFacts
  <2>3. CASE Counted(m)
    <3>1. schedule.plan[1] = plan[1]
      BY <2>3 DEF Counted, CasFails
    <3>2. now + MinimumInterval <= plan[1]
      BY <1>1, CycleCoversInterval DEF NeedsCorrection
    <3>. QED  BY <1>5, <2>2, <2>3, <3>1, <3>2 DEF Larger
  <2>4. CASE ~Counted(m)
    BY <1>5, <2>2, <2>4
  <2>. QED  BY <2>3, <2>4
<1>8. managers[m].current => Claims(managers[m])'
  BY <1>4 DEF AutoInv, ManagersInv, Claims
<1>9. ASSUME NEW k \in Managers \ {m}, managers[k].current
      PROVE  /\ Claims(managers[k])'
             /\ managers[m].current => managers[k].plan[1] # plan[1]
  <2>1. managers[m].current => managers[k].plan[1] # plan[1]
    BY <1>9 DEF AutoInv, ManagersInv
  <2>2. schedule.enabled
    BY <1>9 DEF AutoInv, ManagersInv, Claims
  <2>3. CASE Counted(m)
    <3>1. managers[m].current /\ schedule.plan[1] = plan[1]
      BY <2>3 DEF Counted, CasFails
    <3>2. managers[k].plan[1] # schedule.plan[1]
      BY <2>1, <3>1
    <3>. QED  BY <1>4, <1>9, <2>1, <2>2, <3>2, ClaimKept
  <2>4. CASE ~Counted(m)
    BY <1>4, <1>5, <1>9, <2>1, <2>2, <2>4, ClaimKept
  <2>. QED  BY <2>3, <2>4
<1>10. ManagersInv'
  BY <1>4, <1>8, <1>9, ManagerMoves
<1>. QED  BY <1>6, <1>7, <1>10 DEF AutoInv

\* An attempt begins after its next deadline was moved away from it.
LEMMA CorrectedBeginKeeps ==
    ASSUME AutoInv, NEW m \in Managers, managers[m].pc = "claimed", NeedsCorrection(m),
           NEW moved, moved = NoEarlier(managers[m].plan, now + MinimumInterval),
           Begin(m, moved), casAliasCreationPlan(managers[m].plan[1], moved, schedule.last),
           UNCHANGED <<now, accountOn>>
    PROVE  AutoInv'
<1> DEFINE plan == managers[m].plan
<1>1. /\ now \in Nat /\ notBefore \in Nat /\ schedule \in RowType
      /\ plan \in Seq(Nat) /\ plan[1] \in Nat /\ now + MinimumInterval \in Nat
  BY AutoFacts, CycleCoversInterval
<1>2. IsPlan(plan)
  BY DEF AutoInv, ManagersInv, Holding
<1>3. moved \in Seq(Nat) /\ IsPlan(moved) /\ moved[1] = Larger(plan[1], now + MinimumInterval)
  BY <1>1, <1>2, NoEarlierBegins
<1>4. plan[1] < now + MinimumInterval
  BY DEF NeedsCorrection
<1>5. moved[1] = now + MinimumInterval /\ plan[1] < moved[1] /\ moved[1] <= now + CycleDuration
  BY <1>1, <1>3, <1>4, CycleCoversInterval DEF Larger
<1>6. schedule.last \in Nat
  BY <1>1 DEF RowType
<1>7. /\ schedule' \in RowType /\ schedule'.enabled /\ schedule'.plan = moved /\ moved[1] \in Nat
      /\ schedule.enabled /\ schedule.plan[1] = plan[1] /\ schedule.plan[1] < schedule'.plan[1]
  BY <1>3, <1>5, <1>6, CasRaises
<1>8. /\ managers' \in [Managers -> ManagerType]
      /\ managers'[m].pc = "creating" /\ managers'[m].plan = moved
      /\ managers'[m].current = managers[m].current
      /\ Holding(managers[m])'
      /\ \A k \in Managers \ {m} : managers'[k] = managers[k]
  BY <1>3, <1>5, BeginHolds
<1>9. /\ started' \in Nat /\ notBefore' \in Nat /\ Started'
      /\ Counted(m) => notBefore' = Larger(notBefore, now + MinimumInterval)
      /\ ~Counted(m) => notBefore' = notBefore
  BY BeginSpacing
<1>10. AutoType' /\ Started'
  BY <1>7, <1>8, <1>9 DEF AutoInv, AutoType
<1>11. ScheduleInv'
  <2>1. notBefore <= plan[1]
    BY <1>7, AutoFacts
  <2>2. notBefore' <= moved[1]
    <3>1. CASE Counted(m)
      BY <1>1, <1>5, <1>9, <2>1, <3>1 DEF Larger
    <3>2. CASE ~Counted(m)
      BY <1>1, <1>5, <1>7, <1>9, <2>1, <3>2
    <3>. QED  BY <3>1, <3>2
  <2>. QED  BY <1>3, <1>7, <2>2 DEF ScheduleInv
<1>12. managers[m].current => Claims(managers[m])'
  BY <1>7, <1>8 DEF Claims
<1>13. ASSUME NEW k \in Managers \ {m}, managers[k].current
       PROVE  Claims(managers[k])' /\ managers[k].plan[1] # moved[1]
  <2>1. Claims(managers[k])'
    BY <1>7, <1>8, <1>13, ClaimKept
  <2>2. managers[k].pc \in {"claimed", "creating"} /\ managers[k].plan[1] <= schedule.plan[1]
    BY <1>13 DEF AutoInv, ManagersInv, Claims
  <2>3. managers[k].plan[1] \in Nat
    BY <2>2, AutoFacts
  <2>. QED  BY <1>1, <1>5, <1>7, <2>1, <2>2, <2>3
<1>14. ManagersInv'
  BY <1>8, <1>12, <1>13, ManagerMoves
<1>. QED  BY <1>10, <1>11, <1>14 DEF AutoInv

\* The clock is read again after the claim.
LEMMA correctPlanKeeps ==
    ASSUME AutoInv, NEW m \in Managers, correctPlanAfterClaim(m)
    PROVE  AutoInv'
<1> DEFINE plan == managers[m].plan  moved == NoEarlier(plan, now + MinimumInterval)
<1>1. managers[m].pc = "claimed" /\ UNCHANGED <<now, accountOn>>
  BY DEF correctPlanAfterClaim
<1>2. CASE ~NeedsCorrection(m) /\ Begin(m, plan) /\ UNCHANGED schedule
  BY <1>1, <1>2, BeginKeeps
<1>3. CASE NeedsCorrection(m) /\ Begin(m, moved) /\ casAliasCreationPlan(plan[1], moved, schedule.last)
  BY <1>1, <1>3, CorrectedBeginKeeps
<1>4. CASE schedule' = Recorded(schedule, now) /\ To(m, Asleep) /\ UNCHANGED <<started, notBefore>>
  <2>1. now \in Nat
    BY AutoFacts
  <2>2. /\ schedule' \in RowType /\ ScheduleInv' /\ notBefore' \in Nat
        /\ schedule'.enabled = schedule.enabled /\ schedule'.plan = schedule.plan
    BY <1>4, <2>1, RecordedRow
  <2>. QED  BY <1>1, <1>4, <2>2, SleepKeeps
<1>. QED  BY <1>2, <1>3, <1>4 DEF correctPlanAfterClaim

\* A result, recorded or lost.
LEMMA ReturnKeeps == ASSUME AutoInv, NEW m \in Managers, CreatorReturns(m) PROVE AutoInv'
<1>1. /\ schedule' \in {schedule, Recorded(schedule, managers[m].at)} /\ To(m, Asleep)
      /\ UNCHANGED <<now, accountOn, started, notBefore>>
  BY DEF CreatorReturns
<1>2. managers[m].at \in Nat
  BY AutoFacts
<1>3. /\ schedule' \in RowType /\ ScheduleInv' /\ notBefore' \in Nat
      /\ schedule'.enabled = schedule.enabled /\ schedule'.plan = schedule.plan
  BY <1>1, <1>2, RecordedRow
<1>. QED  BY <1>1, <1>3, SleepKeeps

\* A cooldown is longer than what a claim may hold.
LEMMA RateLimitedKeeps == ASSUME AutoInv, NEW m \in Managers, RateLimited(m) PROVE AutoInv'
<1> DEFINE expected == managers[m].plan[1]
<1>1. managers[m].pc = "creating" /\ To(m, Asleep) /\ UNCHANGED <<now, accountOn, started>>
  BY DEF RateLimited
<1>2. /\ now \in Nat /\ notBefore \in Nat /\ schedule \in RowType
      /\ managers[m].at \in Nat /\ expected \in Nat
  BY <1>1, AutoFacts
<1>3. expected <= managers[m].at + CycleDuration /\ managers[m].at <= now
  BY <1>1 DEF AutoInv, ManagersInv, Holding
<1>4. now + Cooldown \in Nat /\ expected < now + Cooldown
  BY <1>2, <1>3, CycleCoversInterval
<1>5. ASSUME NEW plan \in newPlanStartingAt(now + Cooldown),
             casAliasCreationPlan(expected, plan, managers[m].at), notBefore' = now + Cooldown
      PROVE  AutoInv'
  <2>1. plan \in Seq(Nat) /\ IsPlan(plan) /\ plan[1] = now + Cooldown
    BY <1>4, NewPlan
  <2>2. /\ schedule' \in RowType /\ schedule'.enabled /\ schedule'.plan = plan
        /\ schedule.plan[1] < schedule'.plan[1]
    BY <1>2, <1>4, <1>5, <2>1, CasRaises
  <2>3. ScheduleInv'
    BY <1>4, <1>5, <2>1, <2>2 DEF ScheduleInv
  <2>. QED  BY <1>1, <1>4, <1>5, <2>1, <2>2, <2>3, SleepKeeps
<1>6. ASSUME schedule' = Recorded(schedule, managers[m].at), UNCHANGED notBefore
      PROVE  AutoInv'
  <2>1. /\ schedule' \in RowType /\ ScheduleInv' /\ notBefore' \in Nat
        /\ schedule'.enabled = schedule.enabled /\ schedule'.plan = schedule.plan
    BY <1>2, <1>6, RecordedRow
  <2>. QED  BY <1>1, <1>6, <2>1, SleepKeeps
<1>. QED  BY <1>5, <1>6 DEF RateLimited

\* Creation is switched off by its own outcome.
LEMMA StopKeeps == ASSUME AutoInv, NEW m \in Managers, CreationStops(m) PROVE AutoInv'
<1> DEFINE ms == [managers EXCEPT ![m] = Asleep]
<1>1. /\ schedule' = [Recorded(schedule, managers[m].at) EXCEPT !.enabled = FALSE, !.plan = <<>>]
      /\ managers' = Withdrawn(ms)
      /\ UNCHANGED <<now, accountOn, started, notBefore>>
  BY DEF CreationStops
<1>2. AutoType /\ Started /\ managers \in [Managers -> ManagerType]
  BY DEF AutoInv, AutoType
<1>3. schedule \in RowType /\ managers[m].at \in Nat
  BY AutoFacts
<1>4. Recorded(schedule, managers[m].at) \in RowType
  BY <1>3 DEF Recorded, RowType
<1>5. schedule' \in RowType /\ schedule'.enabled = FALSE
  BY <1>1, <1>4, EmptySeq DEF RowType
<1>6. ms \in [Managers -> ManagerType] /\ \A k \in Managers : ms[k] = managers[k] \/ ms[k] = Asleep
  BY <1>2, AsleepType
<1>7. managers' \in [Managers -> ManagerType] /\ ManagersInv'
  BY <1>1, <1>6, NothingClaimed
<1>8. ScheduleInv'
  BY <1>5 DEF ScheduleInv
<1>. QED  BY <1>1, <1>2, <1>5, <1>7, <1>8 DEF AutoInv, AutoType, Started

\* A manager stops anywhere.
LEMMA ManagerStopKeeps == ASSUME AutoInv, NEW m \in Managers, ManagerStops(m) PROVE AutoInv'
<1>1. To(m, Asleep) /\ UNCHANGED <<now, schedule, accountOn, started, notBefore>>
  BY DEF ManagerStops
<1>2. notBefore \in Nat /\ schedule \in RowType /\ ScheduleInv
  BY AutoFacts DEF AutoInv
<1>3. ScheduleInv'
  BY <1>1, <1>2 DEF ScheduleInv
<1>. QED  BY <1>1, <1>2, <1>3, SleepKeeps

-----------------------------------------------------------------------------
\* Nothing is planned at first.
LEMMA AutoInitially == InitAuto => AutoInv
<1>. SUFFICES ASSUME InitAuto PROVE AutoInv
  OBVIOUS
<1>1. /\ now = 1 /\ schedule = Asleep.row /\ managers = [m \in Managers |-> Asleep]
      /\ accountOn = TRUE /\ started = 0 /\ notBefore = 0
  BY DEF InitAuto
<1>2. schedule \in RowType /\ schedule.enabled = FALSE
  BY <1>1, AsleepType DEF Asleep, ManagerType
<1>3. AutoType
  BY <1>1, <1>2, AsleepType DEF AutoType
<1>4. Started /\ ScheduleInv
  BY <1>1, <1>2 DEF Started, ScheduleInv
<1>5. ManagersInv
  BY <1>1, AsleepType DEF ManagersInv
<1>. QED  BY <1>3, <1>4, <1>5 DEF AutoInv

\* Every step keeps the invariant.
LEMMA AutoPreserved == AutoInv /\ [NextAuto]_autoVars => AutoInv'
<1>. SUFFICES ASSUME AutoInv, [NextAuto]_autoVars PROVE AutoInv'
  OBVIOUS
<1>1. CASE Tick
  BY <1>1, TickKeeps
<1>2. CASE SwitchAccount
  BY <1>2, SwitchAccountKeeps
<1>3. ASSUME NEW on \in BOOLEAN, adminAPISetAliasAutoCreation(on) PROVE AutoInv'
  BY <1>3, SettingKeeps
<1>4. ASSUME NEW m \in Managers, runDue(m) PROVE AutoInv'
  BY <1>4, runDueKeeps
<1>5. ASSUME NEW m \in Managers, processDue(m) PROVE AutoInv'
  BY <1>5, OverdueKeeps, TooSoonKeeps, ClaimKeeps, correctPlanKeeps, ReturnKeeps, RateLimitedKeeps,
     StopKeeps, ManagerStopKeeps DEF processDue
<1>6. CASE UNCHANGED autoVars
  BY <1>6 DEF autoVars, AutoInv, AutoType, Started, ScheduleInv, ManagersInv, Due, Holding, Claims
<1>. QED  BY <1>1, <1>2, <1>3, <1>4, <1>5, <1>6 DEF NextAuto

\* The invariant of the creation schedule and its managers.
LEMMA AutoInvariant == AutoSpec => []AutoInv
BY AutoInitially, AutoPreserved, PTL DEF AutoSpec

\* Attempts keep their distance (processDue, correctPlanAfterClaim): an attempt on
\* the plan its claim stored begins at notBefore or later, whatever other
\* managers, crashes, late results and the administrator do in between.
THEOREM SpacedAttemptsHolds == AutoSpec => SpacedAttempts
<1>1. ASSUME AutoInv, NEW m \in Managers, Begins(m), Counted(m)
      PROVE  now >= notBefore
  <2>1. managers[m].pc = "claimed" /\ managers[m].current /\ schedule.plan[1] = managers[m].plan[1]
    BY <1>1 DEF Begins, Counted, CasFails
  <2>2. notBefore <= now
    BY <1>1, <2>1 DEF AutoInv, ManagersInv, Claims
  <2>. QED  BY <1>1, <2>2, AutoFacts
<1>2. AutoInv /\ [NextAuto]_autoVars =>
        [\A m \in Managers : Begins(m) /\ Counted(m) => now >= notBefore]_autoVars
  BY <1>1
<1>. QED  BY <1>2, AutoInvariant, PTL DEF AutoSpec, SpacedAttempts
=============================================================================
