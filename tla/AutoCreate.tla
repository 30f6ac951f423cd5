------------------------------ MODULE AutoCreate ------------------------------
(***************************************************************************)
(* The scheduler of automatic alias creation for one account               *)
(* (internal/autocreate/manager.go over alias_creation_schedules).  Every  *)
(* manager process polls the row, claims a due slot by compare-and-swap on *)
(* the next deadline, re-reads the clock and calls the creator.  Time is   *)
(* counted in small units; the clock may advance between any two steps.    *)
(***************************************************************************)
EXTENDS Integers, Sequences, FiniteSets

CONSTANTS
    Managers,           \* manager processes polling the same database
    MinimumInterval,    \* smallest time between two attempts
    Creations,          \* attempts of one plan (CreationsPerCycle)
    CycleDuration,      \* what the gaps of one plan add up to
    OverdueGrace,       \* how late a slot may still be executed
    Cooldown,           \* appleRateLimitCooldown
    MaxClock            \* bound on time

ASSUME AutoCreateAssumption ==
    /\ MinimumInterval \in Nat \ {0} /\ Creations \in Nat \ {0}
    /\ CycleDuration \in Nat /\ CycleDuration >= MinimumInterval * Creations
    /\ OverdueGrace \in Nat /\ Cooldown \in Nat /\ Cooldown > CycleDuration
    /\ MaxClock \in Nat

VARIABLES
    now,            \* the clock
    schedule,       \* the row: enabled, plan, last (last_attempted_at, 0 if NULL)
    managers,       \* where each manager is and what it holds in memory; current:
                    \* creation was not switched off since its claim
    accountOn,      \* is the account enabled?
    started,        \* when the last attempt began
    notBefore       \* the earliest permitted beginning of the next one

autoVars == <<now, schedule, managers, accountOn, started, notBefore>>

Larger(a, b) == IF a > b THEN a ELSE b
Shift(plan, by) == [i \in DOMAIN plan |-> plan[i] + by]

\* At least MinimumInterval before each deadline, CycleDuration in all.
generatePlan(anchor) ==
    {plan \in [1..Creations -> (anchor + MinimumInterval)..(anchor + CycleDuration)] :
        /\ plan[Creations] = anchor + CycleDuration
        /\ \A i, j \in 1..Creations : i < j => plan[j] - plan[i] >= MinimumInterval}

newPlanStartingAt(first) == {[plan EXCEPT ![1] = first] : plan \in generatePlan(first)}

validPlan(plan) == \A i \in 2..Len(plan) : plan[i] - plan[i - 1] >= MinimumInterval

\* The plan moved so that it begins no earlier than the given time.
NoEarlier(plan, earliest) ==
    IF plan[1] < earliest THEN Shift(plan, earliest - plan[1]) ELSE plan

\* The deadlines from a time on; a plan is in ascending order.
PlanFrom(plan, t) ==
    SubSeq(plan, Cardinality({i \in DOMAIN plan : plan[i] < t}) + 1, Len(plan))

futurePlan(plan, expected) == PlanFrom(plan, expected + 1)
futurePlanIncludingCurrent(plan, expected) == PlanFrom(plan, expected)

\* What remains after the claimed slot, or a new cycle when nothing does.
planAfterClaim(row, expected, at) ==
    LET remaining == futurePlan(row.plan, expected) IN
    IF remaining = <<>> \/ Len(remaining) > Creations - 1 \/ ~validPlan(remaining)
      THEN generatePlan(Larger(expected, at))
      ELSE {NoEarlier(remaining, at + MinimumInterval)}

shiftCurrentPlan(row, expected, earliest) ==
    LET current == futurePlanIncludingCurrent(row.plan, expected) IN
    IF current = <<>> \/ Len(current) > Creations \/ ~validPlan(current)
      THEN generatePlan(earliest - MinimumInterval)
      ELSE {NoEarlier(current, earliest)}

-----------------------------------------------------------------------------
Asleep == [pc |-> "asleep", row |-> [enabled |-> FALSE, plan |-> <<>>, last |-> 0],
           plan |-> <<>>, at |-> 0, current |-> FALSE]

InitAuto ==
    /\ now = 1
    /\ schedule = Asleep.row
    /\ managers = [m \in Managers |-> Asleep]
    /\ accountOn = TRUE
    /\ started = 0 /\ notBefore = 0

To(m, state) == managers' = [managers EXCEPT ![m] = state]

\* casAliasCreationPlan: replace the plan while enabled and still due at expected.
casAliasCreationPlan(expected, plan, last) ==
    /\ schedule.enabled /\ schedule.plan # <<>> /\ schedule.plan[1] = expected
    /\ schedule' = [schedule EXCEPT !.plan = plan, !.last = last]

CasFails(expected) ==
    ~(schedule.enabled /\ schedule.plan # <<>> /\ schedule.plan[1] = expected)

Disabled == [schedule EXCEPT !.enabled = FALSE, !.plan = <<>>]

\* With the plan, the claims on it are withdrawn.
Withdrawn(ms) == [m \in Managers |-> [ms[m] EXCEPT !.current = FALSE]]

Tick == /\ now < MaxClock
        /\ now' = now + 1
        /\ UNCHANGED <<schedule, managers, accountOn, started, notBefore>>

\* A new plan lifts a cooldown, not the spacing; an attempt claimed before it is
\* forgotten.
EnableAliasCreation(plan) ==
    /\ schedule' = [schedule EXCEPT !.enabled = TRUE, !.plan = plan]
    /\ notBefore' = started + MinimumInterval

\* Repeating the present setting changes nothing.
SetEnabled(on) ==
    /\ schedule.enabled # on
    /\ IF on THEN (\E plan \in generatePlan(now) : EnableAliasCreation(plan))
                  /\ UNCHANGED managers
             ELSE schedule' = Disabled /\ managers' = Withdrawn(managers)
                  /\ UNCHANGED notBefore

\* The administrator switches automatic creation, on only for an enabled iCloud
\* account that is signed in at Apple.
adminAPISetAliasAutoCreation(on) ==
    /\ on => accountOn
    /\ SetEnabled(on)
    /\ UNCHANGED <<now, accountOn, started>>

\* Disabling the account, or making it a custom mailbox, withdraws the plan.
SwitchAccount ==
    /\ accountOn' = ~accountOn
    /\ IF accountOn THEN schedule' = Disabled /\ managers' = Withdrawn(managers)
                    ELSE UNCHANGED <<schedule, managers>>
    /\ UNCHANGED <<now, started, notBefore>>

\* A poll reads the due row.
runDue(m) ==
    /\ managers[m].pc = "asleep"
    /\ schedule.enabled /\ schedule.plan # <<>> /\ schedule.plan[1] <= now
    /\ To(m, [Asleep EXCEPT !.pc = "due", !.row = schedule])
    /\ UNCHANGED <<now, schedule, accountOn, started, notBefore>>

\* The slot is too late: a new cycle from now.
RescheduleOverdue(m) ==
    LET expected == managers[m].row.plan[1] IN
    /\ managers[m].pc = "due" /\ now - expected > OverdueGrace
    /\ \/ \E plan \in generatePlan(now) : casAliasCreationPlan(expected, plan, schedule.last)
       \/ CasFails(expected) /\ UNCHANGED schedule
    /\ To(m, Asleep)
    /\ UNCHANGED <<now, accountOn, started, notBefore>>

TooSoon(row) == row.last # 0 /\ now < row.last + MinimumInterval

\* The last attempt is too recent: the plan is shifted.
RescheduleTooSoon(m) ==
    LET row == managers[m].row  expected == row.plan[1] IN
    /\ managers[m].pc = "due" /\ now - expected <= OverdueGrace /\ TooSoon(row)
    /\ \/ \E plan \in shiftCurrentPlan(row, expected, row.last + MinimumInterval) :
             casAliasCreationPlan(expected, plan, schedule.last)
       \/ CasFails(expected) /\ UNCHANGED schedule
    /\ To(m, Asleep)
    /\ UNCHANGED <<now, accountOn, started, notBefore>>

\* The claim is durable before Apple is asked for anything.
ClaimAliasCreation(m) ==
    LET row == managers[m].row  expected == row.plan[1] IN
    /\ managers[m].pc = "due" /\ now - expected <= OverdueGrace /\ ~TooSoon(row)
    /\ \/ \E plan \in planAfterClaim(row, expected, now) :
             /\ casAliasCreationPlan(expected, plan, now)
             /\ To(m, [Asleep EXCEPT !.pc = "claimed", !.plan = plan, !.at = now,
                                   !.current = TRUE])
       \/ CasFails(expected) /\ UNCHANGED schedule /\ To(m, Asleep)
    /\ UNCHANGED <<now, accountOn, started, notBefore>>

\* An attempt counts for the spacing only while the plan is the one its claim
\* stored: when the administrator switched creation off and on between
\* the claim and the beginning, the new plan does not know of it.
Counted(m) == managers[m].current /\ ~CasFails(managers[m].plan[1])

\* An attempt begins.
Begin(m, plan) ==
    /\ To(m, [managers[m] EXCEPT !.pc = "creating", !.plan = plan, !.at = now])
    /\ IF Counted(m)
         THEN started' = now /\ notBefore' = Larger(notBefore, now + MinimumInterval)
         ELSE UNCHANGED <<started, notBefore>>

\* RecordAliasCreationSuccess and ...Failure touch an enabled schedule only.
Recorded(row, at) == IF row.enabled THEN [row EXCEPT !.last = at] ELSE row

NeedsCorrection_Never(m) == FALSE

NeedsCorrection(m) == managers[m].plan[1] < now + MinimumInterval

\* The clock is read again after the claim; a next deadline too close to it is
\* moved first, and the attempt is dropped when somebody else replaced the plan.
correctPlanAfterClaim(m) ==
    LET plan == managers[m].plan
        moved == NoEarlier(plan, now + MinimumInterval) IN
    /\ managers[m].pc = "claimed"
    /\ \/ ~NeedsCorrection(m) /\ Begin(m, plan) /\ UNCHANGED schedule
       \/ NeedsCorrection(m) /\ Begin(m, moved)
          /\ casAliasCreationPlan(plan[1], moved, schedule.last)
       \/ /\ NeedsCorrection(m) /\ CasFails(plan[1])
          /\ schedule' = Recorded(schedule, now)
          /\ To(m, Asleep)
          /\ UNCHANGED <<started, notBefore>>
    /\ UNCHANGED <<now, accountOn>>

\* A recorded result, or one whose record could not be written.
CreatorReturns(m) ==
    /\ managers[m].pc = "creating"
    /\ schedule' \in {schedule, Recorded(schedule, managers[m].at)}
    /\ To(m, Asleep)
    /\ UNCHANGED <<now, accountOn, started, notBefore>>

\* Apple's rate limit: the failure is recorded and the plan pushed back.
RateLimited(m) ==
    LET expected == managers[m].plan[1] IN
    /\ managers[m].pc = "creating"
    /\ \/ \E plan \in newPlanStartingAt(now + Cooldown) :
             /\ casAliasCreationPlan(expected, plan, managers[m].at)
             /\ notBefore' = now + Cooldown
       \/ /\ CasFails(expected)
          /\ schedule' = Recorded(schedule, managers[m].at)
          /\ UNCHANGED notBefore
    /\ To(m, Asleep)
    /\ UNCHANGED <<now, accountOn, started>>

\* No capacity left, or a reserve that may have happened untracked.
CreationStops(m) ==
    /\ managers[m].pc = "creating"
    /\ schedule' = [Recorded(schedule, managers[m].at) EXCEPT !.enabled = FALSE, !.plan = <<>>]
    /\ managers' = Withdrawn([managers EXCEPT ![m] = Asleep])
    /\ UNCHANGED <<now, accountOn, started, notBefore>>

\* Shutdown or a crash anywhere: nothing more is recorded.
ManagerStops(m) ==
    /\ managers[m].pc # "asleep"
    /\ To(m, Asleep)
    /\ UNCHANGED <<now, schedule, accountOn, started, notBefore>>

processDue(m) ==
    \/ RescheduleOverdue(m) \/ RescheduleTooSoon(m) \/ ClaimAliasCreation(m)
    \/ correctPlanAfterClaim(m)
    \/ CreatorReturns(m) \/ RateLimited(m) \/ CreationStops(m) \/ ManagerStops(m)

NextAuto ==
    \/ Tick \/ SwitchAccount
    \/ \E on \in BOOLEAN : adminAPISetAliasAutoCreation(on)
    \/ \E m \in Managers : runDue(m) \/ processDue(m)

AutoSpec == InitAuto /\ [][NextAuto]_autoVars

-----------------------------------------------------------------------------
\* Attempts begin at least MinimumInterval apart, and not before the end of a
\* cooldown that was stored: database latency between the claim and the start,
\* a second manager, a crash and results recorded late do not shorten it.  (An
\* attempt whose plan an administrator replaced after its claim is not counted.)
Begins(m) == managers[m].pc = "claimed" /\ managers'[m].pc = "creating"

SpacedAttempts ==
    [][\A m \in Managers : Begins(m) /\ Counted(m) => now >= notBefore]_autoVars
=============================================================================
