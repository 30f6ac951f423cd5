--------------------------- MODULE SyncScheduler ----------------------------
(***************************************************************************)
(* The goroutines that share the upstream mailboxes (syncer/manager.go,    *)
(* syncer/seen_worker.go) and the shutdown that ends them                  *)
(* (cmd/icloud-api/main.go): the automatic rounds with their retry window, *)
(* the queued manual syncs, the worker that marks messages \Seen, the HTTP *)
(* requests that change an account under its lock, and the main goroutine. *)
(*                                                                         *)
(* A process takes the account lock, then an IMAP slot, then works; what   *)
(* the work does to the mailbox is module MailboxSync's.  Here a sync ends *)
(* with an outcome and the status it records.  Timers fire at any time;    *)
(* timeouts and failures are limited by MaxFaults, requests by             *)
(* MaxRequests, and a mailbox never holds more than two batches.  The      *)
(* accounts outside Accounts only take part in the use of the slots.       *)
(***************************************************************************)
EXTENDS AccountLocks

CONSTANTS
    Slots,        \* SyncConcurrency
    MaxRetries,   \* len(retryDelays)
    SeenBatch,    \* defaultSeenTaskBatchSize
    MaxFaults, MaxRequests

ASSUME SchedulerAssumption ==
    /\ {Slots, SeenBatch} \subseteq Nat \ {0}
    /\ {MaxRetries, MaxFaults, MaxRequests} \subseteq Nat

VARIABLES
    at,        \* where each process is
    run,       \* Manager.Run: pc, continuations, retryQueue, attempt, window
    result,    \* syncAllRoundResult of the round in progress
    status,    \* accounts.last_sync_status
    enabled,   \* accounts.enabled
    progress,  \* Manager.progress: the trigger of each entry
    manual,    \* Manager.manualJobs with stopping and manualDone
    seen,      \* SeenWorker: pc, deferred accounts, notification, listed tasks
    tasks,     \* imap_seen_tasks of each account
    request,   \* the HTTP request in progress
    main,      \* the main goroutine, the contexts and the database handle
    ended,     \* background loops that have returned
    faults, requests   \* used parts of the bounds

vars == <<lockVars, at, run, result, status, enabled, progress, manual, seen,
          tasks, request, main, ended, faults, requests>>

Automatic(a) == <<"auto", a>>
Manual(a) == <<"manual", a>>
Seen(a) == <<"seen", a>>
Request == <<"request", 0>>
AllProcs == {Automatic(a) : a \in Accounts} \cup {Manual(a) : a \in Accounts}
            \cup {Seen(a) : a \in Accounts} \cup {Request}

ASSUME ProcAssumption == Procs = AllProcs

Connected == {p \in Procs \ {Request} : at[p] = "work"}
SlotFree == Cardinality(Connected) + main.others < Slots
Cancelled == main.cancelled
Elapsed == run.window = "elapsed"
Loops == {"sync", "seen"}

NoResult == [pending |-> {}, retryable |-> {}]
NoRequest == [kind |-> "none", account |-> 0]

Go(p, where) == at' = [at EXCEPT ![p] = where]
Fault == faults < MaxFaults /\ faults' = faults + 1

(* ensureProgress, beginProgress, finishProgress *)
EnsureProgress(a, t) ==
    progress' = [progress EXCEPT ![a] = IF @ = "none" THEN t ELSE @]
BeginProgress(a, t) == progress' = [progress EXCEPT ![a] = t]
FinishProgress(a, t) ==
    progress' = [progress EXCEPT ![a] = IF @ = t THEN "none" ELSE @]
FinishProgresses(A, t) ==
    progress' = [a \in Accounts |-> IF a \in A /\ progress[a] = t
                                    THEN "none" ELSE progress[a]]

Init ==
    /\ LockInit
    /\ at = [p \in Procs |-> "idle"]
    /\ run = [pc |-> "begin", cont |-> {}, retry |-> {}, attempt |-> 0, window |-> "none"]
    /\ result = NoResult
    /\ status = [a \in Accounts |-> "pending"]
    /\ enabled = [a \in Accounts |-> TRUE]
    /\ progress = [a \in Accounts |-> "none"]
    /\ manual = [jobs |-> {}, stopping |-> FALSE, done |-> FALSE]
    /\ seen = [pc |-> "wait", deferred |-> {}, notified |-> FALSE, listed |-> <<>>]
    /\ tasks = [a \in Accounts |-> 1]
    /\ request = NoRequest
    /\ main = [pc |-> "serving", cancelled |-> FALSE, deadline |-> FALSE, db |-> TRUE,
               others |-> 0]
    /\ ended = {} /\ faults = 0 /\ requests = 0

-----------------------------------------------------------------------------
(* syncAccountLocked and failureRecorder.record: what a sync of account a  *)
(* leaves behind.  An interrupted one saw its context end; only the retry  *)
(* window's end and the shutdown's keep it from being recorded.            *)
Outcomes == {"done", "pending", "transient", "permanent", "interrupted"}
Recorded_Always(a, outcome) ==
    CASE ~enabled[a] -> status[a]
      [] enabled[a] /\ outcome = "done" -> "success"
      [] enabled[a] /\ outcome = "pending" -> "pending"
      [] OTHER -> IF outcome = "interrupted" THEN outcome ELSE "failed"
Recorded(a, outcome) ==
    CASE ~enabled[a] -> status[a]
      [] enabled[a] /\ outcome = "done" -> "success"
      [] enabled[a] /\ outcome = "pending" -> "pending"
      [] enabled[a] /\ outcome \in {"transient", "permanent", "interrupted"} ->
            IF manual.stopping \/ (outcome = "interrupted" /\ Elapsed /\ ~Cancelled)
            THEN status[a] ELSE IF outcome = "interrupted" THEN outcome ELSE "failed"

(* The outcome a sync whose context may have ended can have.               *)
SyncOutcome(a, outcome, over) ==
    /\ outcome = "interrupted" => over
    /\ outcome = "pending" => status[a] # "pending"
    /\ IF outcome \in {"transient", "permanent"} /\ enabled[a] THEN Fault ELSE UNCHANGED faults
    /\ status' = [status EXCEPT ![a] = Recorded(a, outcome)]

-----------------------------------------------------------------------------
(* Manager.Run *)

(* syncAllRoundDetailedWithContexts, until its goroutines start: all       *)
(* enabled accounts, or the continuations that are still enabled.  Those   *)
(* with an unfinished batch will wait for their lock.  A round without     *)
(* continuations comes after the poll interval.                            *)
Dropped == {a \in run.cont : ~enabled[a]}

StartRound ==
    /\ run.pc = "begin"
    /\ LET targets == {a \in Accounts : enabled[a] /\ (run.cont = {} \/ a \in run.cont)}
           waits(a) == run.cont # {} \/ status[a] = "pending"
       IN  at' = [p \in Procs |->
                    IF p \in {Automatic(a) : a \in targets}
                    THEN IF waits(p[2]) THEN "wait" ELSE "try"
                    ELSE at[p]]
    /\ FinishProgresses(Dropped, "auto")
    /\ run' = [run EXCEPT !.pc = "round"]
    /\ result' = NoResult
    /\ UNCHANGED <<lockVars, status, enabled, manual, seen, tasks, request, main,
                   ended, faults, requests>>

(* ListEnabledAccounts fails, or its context is over.                      *)
ListFails ==
    /\ run.pc = "begin"
    /\ IF Cancelled \/ Elapsed THEN UNCHANGED faults ELSE Fault
    /\ FinishProgresses(run.cont, "auto")
    /\ run' = [run EXCEPT !.pc = "round"]
    /\ result' = NoResult
    /\ UNCHANGED <<lockVars, at, status, enabled, manual, seen, tasks, request,
                   main, ended, requests>>

(* A goroutine of the round: a scheduled sync takes a free account or      *)
(* leaves it to whoever has it; a continuation waits.                      *)
AutoTry(a) ==
    /\ at[Automatic(a)] = "try"
    /\ IF Busy(a) THEN Go(Automatic(a), "idle") /\ UNCHANGED <<lockVars, progress>>
                  ELSE /\ TryAcquire(Automatic(a), a) /\ Go(Automatic(a), "slot")
                       /\ EnsureProgress(a, "auto")
    /\ UNCHANGED <<run, result, status, enabled, manual, seen, tasks, request,
                   main, ended, faults, requests>>

AutoWait(a) ==
    /\ at[Automatic(a)] = "wait"
    /\ Enqueue(Automatic(a), a) /\ Go(Automatic(a), "lock")
    /\ EnsureProgress(a, "auto")
    /\ UNCHANGED <<run, result, status, enabled, manual, seen, tasks, request,
                   main, ended, faults, requests>>

AutoLock(a) ==
    /\ at[Automatic(a)] = "lock"
    /\ TakeToken(Automatic(a)) /\ Go(Automatic(a), "slot")
    /\ EnsureProgress(a, "auto")
    /\ UNCHANGED <<run, result, status, enabled, manual, seen, tasks, request,
                   main, ended, faults, requests>>

(* The retry window, the resource timeout or the shutdown ends the wait.   *)
AutoGiveUp(a) ==
    /\ at[Automatic(a)] \in {"lock", "slot"}
    /\ IF Cancelled \/ Elapsed THEN UNCHANGED faults ELSE Fault
    /\ IF at[Automatic(a)] = "lock" THEN GiveUp(Automatic(a)) ELSE Release(Automatic(a))
    /\ Go(Automatic(a), "idle")
    /\ FinishProgress(a, "auto")
    /\ UNCHANGED <<run, result, status, enabled, manual, seen, tasks, request,
                   main, ended, requests>>

(* A slot that comes after the end of the work's context is given back.    *)
AutoSlot(a) ==
    /\ at[Automatic(a)] = "slot" /\ SlotFree
    /\ IF Cancelled \/ Elapsed
       THEN Release(Automatic(a)) /\ Go(Automatic(a), "idle") /\ FinishProgress(a, "auto")
       ELSE Go(Automatic(a), "work") /\ BeginProgress(a, "auto") /\ UNCHANGED lockVars
    /\ UNCHANGED <<run, result, status, enabled, manual, seen, tasks, request,
                   main, ended, faults, requests>>

AutoWork(a, outcome) ==
    /\ at[Automatic(a)] = "work"
    /\ SyncOutcome(a, outcome, Cancelled \/ Elapsed)
    /\ Release(Automatic(a)) /\ Go(Automatic(a), "idle")
    /\ result' = CASE outcome = "pending" /\ enabled[a] -> [result EXCEPT !.pending = @ \cup {a}]
                   [] outcome = "transient" /\ enabled[a] -> [result EXCEPT !.retryable = @ \cup {a}]
                   [] OTHER -> result
    /\ IF outcome = "pending" /\ enabled[a] THEN UNCHANGED progress
                                            ELSE FinishProgress(a, "auto")
    /\ UNCHANGED <<run, enabled, manual, seen, tasks, request, main, ended, requests>>

RoundOver == run.pc = "round" /\ \A a \in Accounts : at[Automatic(a)] = "idle"
NextPoll == [pc |-> "begin", cont |-> {}, retry |-> {}, attempt |-> 0, window |-> "none"]
LeaveRun == [pc |-> "drain", cont |-> {}, retry |-> {}, attempt |-> 0, window |-> "none"]

(* The loop of Run after a round: unfinished batches go on at once,        *)
(* transient failures are retried inside one window, the rest waits for    *)
(* the next poll.                                                          *)
AfterRound_KeepStale ==
    LET retry == run.retry \cup result.retryable
    IN  IF result.pending # {} /\ ~Elapsed
        THEN [run EXCEPT !.pc = "begin", !.cont = result.pending, !.retry = retry]
        ELSE IF ~Elapsed /\ retry # {} /\ run.attempt < MaxRetries
        THEN [run EXCEPT !.pc = "retry", !.cont = {}, !.retry = retry, !.window = "open"]
        ELSE [NextPoll EXCEPT !.window = run.window]
AfterRound ==
    LET retry == run.retry \cup result.retryable
    IN  IF result.pending # {} /\ ~Elapsed
        THEN [run EXCEPT !.pc = "begin", !.cont = result.pending, !.retry = retry]
        ELSE IF ~Elapsed /\ retry # {} /\ run.attempt < MaxRetries
        THEN [run EXCEPT !.pc = "retry", !.cont = {}, !.retry = retry, !.window = "open"]
        ELSE NextPoll

EndRound ==
    /\ RoundOver
    /\ IF Cancelled
       THEN run' = LeaveRun /\ FinishProgresses(Accounts, "auto")
       ELSE /\ run' = AfterRound
            /\ FinishProgresses(IF Elapsed THEN result.pending ELSE {}, "auto")
    /\ result' = NoResult
    /\ UNCHANGED <<lockVars, at, status, enabled, manual, seen, tasks, request, main,
                   ended, faults, requests>>

(* waitInterval *)
RetryDelay ==
    /\ run.pc = "retry"
    /\ run' = [run EXCEPT !.pc = "begin", !.cont = run.retry, !.retry = {}, !.attempt = @ + 1]
    /\ UNCHANGED <<lockVars, at, result, status, enabled, progress, manual, seen,
                   tasks, request, main, ended, faults, requests>>

WindowElapses ==
    /\ run.window = "open"
    /\ run' = [run EXCEPT !.window = "elapsed"]
    /\ UNCHANGED <<lockVars, at, result, status, enabled, progress, manual, seen,
                   tasks, request, main, ended, faults, requests>>

RetryCutShort ==
    /\ run.pc = "retry" /\ (Cancelled \/ Elapsed)
    /\ run' = IF Cancelled THEN LeaveRun ELSE NextPoll
    /\ FinishProgresses(IF Cancelled THEN Accounts ELSE {}, "auto")
    /\ UNCHANGED <<lockVars, at, result, status, enabled, manual, seen, tasks, request,
                   main, ended, faults, requests>>

(* waitForManualJobs *)
ManualDrained_Unchecked == TRUE
ManualDrained == manual.stopping => manual.done
Drain ==
    /\ run.pc = "drain" /\ ManualDrained
    /\ run' = [run EXCEPT !.pc = "ended"]
    /\ ended' = ended \cup {"sync"}
    /\ UNCHANGED <<lockVars, at, result, status, enabled, progress, manual, seen,
                   tasks, request, main, faults, requests>>

-----------------------------------------------------------------------------
(* Queued manual syncs: QueueAccountSync, called by a request, registers   *)
(* one job per account; runQueuedAccountSync repeats unfinished batches.   *)
MayQueue(a) == ~manual.stopping /\ a \notin manual.jobs /\ ~Cancelled
QueueAccountSync ==
    /\ at[Request] = "start" /\ request.kind = "sync"
    /\ LET a == request.account
       IN  IF MayQueue(a)
           THEN /\ manual' = [manual EXCEPT !.jobs = @ \cup {a}]
                /\ EnsureProgress(a, "manual")
                /\ at' = [at EXCEPT ![Manual(a)] = "wait", ![Request] = "idle"]
           ELSE Go(Request, "idle") /\ UNCHANGED <<manual, progress>>
    /\ request' = NoRequest
    /\ UNCHANGED <<lockVars, run, result, status, enabled, seen, tasks, main, ended,
                   faults, requests>>

ManualWait(a) ==
    /\ at[Manual(a)] = "wait"
    /\ Enqueue(Manual(a), a) /\ Go(Manual(a), "lock")
    /\ EnsureProgress(a, "manual")
    /\ UNCHANGED <<run, result, status, enabled, manual, seen, tasks, request,
                   main, ended, faults, requests>>

ManualLock(a) ==
    /\ at[Manual(a)] = "lock"
    /\ TakeToken(Manual(a)) /\ Go(Manual(a), "slot")
    /\ UNCHANGED <<run, result, status, enabled, progress, manual, seen, tasks,
                   request, main, ended, faults, requests>>

ManualGiveUp(a) ==
    /\ at[Manual(a)] \in {"lock", "slot"} /\ Cancelled
    /\ IF at[Manual(a)] = "lock" THEN GiveUp(Manual(a)) ELSE Release(Manual(a))
    /\ Go(Manual(a), "finish")
    /\ FinishProgress(a, "manual")
    /\ UNCHANGED <<run, result, status, enabled, manual, seen, tasks, request,
                   main, ended, faults, requests>>

ManualSlot(a) ==
    /\ at[Manual(a)] = "slot" /\ SlotFree /\ ~Cancelled
    /\ Go(Manual(a), "work") /\ BeginProgress(a, "manual")
    /\ UNCHANGED <<lockVars, run, result, status, enabled, manual, seen, tasks,
                   request, main, ended, faults, requests>>

ManualWork(a, outcome) ==
    /\ at[Manual(a)] = "work"
    /\ SyncOutcome(a, outcome, Cancelled)
    /\ Release(Manual(a))
    /\ IF outcome = "pending" /\ enabled[a]
       THEN Go(Manual(a), "wait") /\ UNCHANGED progress
       ELSE Go(Manual(a), "finish") /\ FinishProgress(a, "manual")
    /\ UNCHANGED <<run, result, enabled, manual, seen, tasks, request, main, ended,
                   requests>>

(* finishManualJob, closeManualDoneLocked *)
ManualDone(jobs, stopping) == manual.done \/ (stopping /\ jobs = {})
FinishManualJob_LeavesDone(a) ==
    /\ at[Manual(a)] = "finish" /\ Go(Manual(a), "idle")
    /\ manual' = [manual EXCEPT !.jobs = @ \ {a}]
    /\ UNCHANGED <<lockVars, run, result, status, enabled, progress, seen, tasks,
                   request, main, ended, faults, requests>>
FinishManualJob(a) ==
    /\ at[Manual(a)] = "finish" /\ Go(Manual(a), "idle")
    /\ LET jobs == manual.jobs \ {a}
       IN  manual' = [manual EXCEPT !.jobs = jobs, !.done = ManualDone(jobs, manual.stopping)]
    /\ UNCHANGED <<lockVars, run, result, status, enabled, progress, seen, tasks,
                   request, main, ended, faults, requests>>

-----------------------------------------------------------------------------
(* SeenWorker.Run and processPending *)
Batched(a) == IF tasks[a] < SeenBatch THEN tasks[a] ELSE SeenBatch

(* A notification or the timer, which is set to the poll interval or to    *)
(* the first retryAfter time if that comes earlier, wakes the worker; it   *)
(* lists the accounts with tasks and starts one goroutine for each.        *)
SeenScan ==
    /\ seen.pc = "wait" /\ ~Cancelled
    /\ \E due \in SUBSET seen.deferred :
          LET listed == {a \in Accounts : tasks[a] > 0}
              waiting == listed \cap (seen.deferred \ due)
              now == listed \ waiting
          IN  /\ due # {} \/ seen.deferred = {} \/ seen.notified
              /\ at' = [p \in Procs |-> IF p \in {Seen(a) : a \in now} THEN "wait" ELSE at[p]]
              /\ seen' = [seen EXCEPT !.pc = IF now = {} THEN "wait" ELSE "process",
                                      !.deferred = waiting, !.notified = FALSE,
                                      !.listed = [a \in now |-> Batched(a)]]
    /\ UNCHANGED <<lockVars, run, result, status, enabled, progress, manual, tasks,
                   request, main, ended, faults, requests>>

SeenWait(a) ==
    /\ at[Seen(a)] = "wait"
    /\ Enqueue(Seen(a), a) /\ Go(Seen(a), "lock")
    /\ UNCHANGED <<run, result, status, enabled, progress, manual, seen, tasks,
                   request, main, ended, faults, requests>>

SeenLock(a) ==
    /\ at[Seen(a)] = "lock"
    /\ TakeToken(Seen(a)) /\ Go(Seen(a), "slot")
    /\ UNCHANGED <<run, result, status, enabled, progress, manual, seen, tasks,
                   request, main, ended, faults, requests>>

SeenSlot(a) ==
    /\ at[Seen(a)] = "slot" /\ SlotFree /\ ~Cancelled
    /\ Go(Seen(a), "work")
    /\ UNCHANGED <<lockVars, run, result, status, enabled, progress, manual, seen,
                   tasks, request, main, ended, faults, requests>>

(* acquireTimeout, a failed operation, or a disabled account: the account  *)
(* is deferred (deferAccount).                                             *)
SeenFails(a) ==
    /\ at[Seen(a)] \in {"lock", "slot", "work"}
    /\ IF Cancelled \/ (at[Seen(a)] = "work" /\ ~enabled[a]) THEN UNCHANGED faults ELSE Fault
    /\ IF at[Seen(a)] = "lock" THEN GiveUp(Seen(a)) ELSE Release(Seen(a))
    /\ Go(Seen(a), "idle")
    /\ seen' = [seen EXCEPT !.deferred = @ \cup {a}]
    /\ UNCHANGED <<run, result, status, enabled, progress, manual, tasks, request,
                   main, ended, requests>>

SeenWork(a) ==
    /\ at[Seen(a)] = "work" /\ enabled[a]
    /\ tasks' = [tasks EXCEPT ![a] = @ - seen.listed[a]]
    /\ Release(Seen(a)) /\ Go(Seen(a), "idle")
    /\ UNCHANGED <<run, result, status, enabled, progress, manual, seen, request, main,
                   ended, faults, requests>>

(* All goroutines are done.  A full batch is followed by the next scan     *)
(* without waiting, others by a scan some time later.                      *)
SeenProcessed ==
    /\ seen.pc = "process" /\ \A a \in Accounts : at[Seen(a)] = "idle"
    /\ ~Cancelled
    /\ seen' = [seen EXCEPT !.pc = "wait", !.listed = <<>>]
    /\ UNCHANGED <<lockVars, at, run, result, status, enabled, progress, manual,
                   tasks, request, main, ended, faults, requests>>

SeenEnds ==
    /\ seen.pc \in {"process", "wait"} /\ Cancelled
    /\ \A a \in Accounts : at[Seen(a)] = "idle"
    /\ seen' = [seen EXCEPT !.pc = "ended", !.listed = <<>>]
    /\ ended' = ended \cup {"seen"}
    /\ UNCHANGED <<lockVars, at, run, result, status, enabled, progress, manual,
                   tasks, request, main, faults, requests>>

-----------------------------------------------------------------------------
(* HTTP requests behind drainingHandler: a manual sync, by an administrator *)
(* or after a mail read, a read that leaves a seen task and notifies the   *)
(* worker, and a configuration change.                                     *)
\* adminAPISyncAccount, like the authentication of a read, wants it enabled.
MaySync(a) == enabled[a]

Accept(kind, a) ==
    /\ main.pc = "serving" /\ at[Request] = "idle"
    /\ kind = "sync" => MaySync(a)
    /\ requests < MaxRequests /\ requests' = requests + 1
    /\ request' = [kind |-> kind, account |-> a]
    /\ Go(Request, "start")
    /\ UNCHANGED <<lockVars, run, result, status, enabled, progress, manual, seen,
                   tasks, main, ended, faults>>

recentMail ==
    /\ at[Request] = "start" /\ request.kind = "read"
    /\ tasks' = [tasks EXCEPT ![request.account] = @ + 1]
    /\ seen' = [seen EXCEPT !.notified = TRUE]
    /\ Go(Request, "idle") /\ request' = NoRequest
    /\ UNCHANGED <<lockVars, run, result, status, enabled, progress, manual, main,
                   ended, faults, requests>>

(* WithAccountLock around a change of accounts.enabled                     *)
ConfigWait ==
    /\ at[Request] = "start" /\ request.kind = "config"
    /\ Enqueue(Request, request.account) /\ Go(Request, "lock")
    /\ UNCHANGED <<run, result, status, enabled, progress, manual, seen, tasks,
                   request, main, ended, faults, requests>>

ConfigLock ==
    /\ at[Request] = "lock"
    /\ TakeToken(Request) /\ Go(Request, "work")
    /\ UNCHANGED <<run, result, status, enabled, progress, manual, seen, tasks,
                   request, main, ended, faults, requests>>

ConfigWork ==
    /\ at[Request] = "work"
    /\ enabled' = IF main.deadline THEN enabled
                  ELSE [enabled EXCEPT ![request.account] = ~@]
    /\ Release(Request) /\ Go(Request, "idle") /\ request' = NoRequest
    /\ UNCHANGED <<run, result, status, progress, manual, seen, tasks, main, ended,
                   faults, requests>>

ConfigGiveUp ==
    /\ at[Request] = "lock" /\ main.deadline
    /\ GiveUp(Request) /\ Go(Request, "idle") /\ request' = NoRequest
    /\ UNCHANGED <<run, result, status, enabled, progress, manual, seen, tasks,
                   main, ended, faults, requests>>

-----------------------------------------------------------------------------
(* main.run after a signal: stop accepting, BeginShutdown, cancelWorkers,  *)
(* wait for requests and background loops, close the database.             *)
Rest == <<lockVars, at, run, result, status, enabled, progress, seen, tasks, request,
          faults, requests>>

BeginShutdown ==
    /\ main.pc = "serving"
    /\ manual' = [manual EXCEPT !.stopping = TRUE, !.done = ManualDone(manual.jobs, TRUE)]
    /\ main' = [main EXCEPT !.pc = "stopping"]
    /\ UNCHANGED <<Rest, ended>>

CancelWorkers ==
    /\ main.pc = "stopping"
    /\ main' = [main EXCEPT !.pc = "waiting", !.cancelled = TRUE]
    /\ UNCHANGED <<Rest, manual, ended>>

(* Processes of further accounts take and return slots.                    *)
OtherTakesSlot ==
    /\ SlotFree /\ ~Cancelled
    /\ main' = [main EXCEPT !.others = @ + 1]
    /\ UNCHANGED <<Rest, manual, ended>>

OtherReturnsSlot ==
    /\ main.others > 0
    /\ main' = [main EXCEPT !.others = @ - 1]
    /\ UNCHANGED <<Rest, manual, ended>>

(* ShutdownTimeout: the contexts of the requests are cancelled too.        *)
Deadline ==
    /\ main.pc = "waiting" /\ ~main.deadline
    /\ main' = [main EXCEPT !.deadline = TRUE]
    /\ UNCHANGED <<Rest, manual, ended>>

RequestDone == at[Request] = "idle"
BackgroundDone == ended = Loops

Return ==
    /\ main.pc = "waiting" /\ ((RequestDone /\ BackgroundDone) \/ main.deadline)
    /\ main' = [main EXCEPT !.pc = "returned", !.db = ~(RequestDone /\ BackgroundDone)]
    /\ UNCHANGED <<Rest, manual, ended>>

(* The goroutine that owns the handle after a timed-out shutdown.          *)
CloseLate ==
    /\ main.pc = "returned" /\ main.db /\ RequestDone /\ BackgroundDone
    /\ main' = [main EXCEPT !.db = FALSE]
    /\ UNCHANGED <<Rest, manual, ended>>

-----------------------------------------------------------------------------
RunNext == StartRound \/ ListFails \/ EndRound \/ RetryDelay \/ RetryCutShort \/ Drain
AutoNext(a) ==
    \/ AutoTry(a) \/ AutoWait(a) \/ AutoLock(a) \/ AutoGiveUp(a) \/ AutoSlot(a)
    \/ \E o \in Outcomes : AutoWork(a, o)
ManualNext(a) ==
    \/ ManualWait(a) \/ ManualLock(a) \/ ManualGiveUp(a) \/ ManualSlot(a)
    \/ FinishManualJob(a) \/ \E o \in Outcomes : ManualWork(a, o)
SeenNext(a) ==
    SeenWait(a) \/ SeenLock(a) \/ SeenSlot(a) \/ SeenFails(a) \/ SeenWork(a)
SeenLoop == SeenScan \/ SeenProcessed \/ SeenEnds
ServeNext == QueueAccountSync \/ recentMail \/ ConfigWait \/ ConfigLock \/ ConfigWork \/ ConfigGiveUp
Arrivals == \E a \in Accounts : \E kind \in {"sync", "read", "config"} : Accept(kind, a)
ShutdownNext == CancelWorkers \/ Return \/ CloseLate

Next ==
    \/ RunNext \/ WindowElapses \/ SeenLoop \/ ServeNext \/ Arrivals \/ ShutdownNext
    \/ BeginShutdown \/ Deadline \/ OtherTakesSlot \/ OtherReturnsSlot
    \/ \E a \in Accounts : AutoNext(a) \/ ManualNext(a) \/ SeenNext(a)

(* Goroutines are scheduled, timers fire, contexts end what they bound.  A *)
(* lock or slot that is offered again and again is received in the end:    *)
(* Go serves the senders waiting on a channel in order.  Requests, the     *)
(* signal, the deadline and the end of the retry window may never come.    *)
Fairness ==
    /\ WF_vars(RunNext) /\ WF_vars(SeenLoop) /\ WF_vars(ShutdownNext) /\ WF_vars(OtherReturnsSlot)
    /\ SF_vars(ServeNext)
    /\ \A a \in Accounts : SF_vars(AutoNext(a)) /\ SF_vars(ManualNext(a)) /\ SF_vars(SeenNext(a))

Spec == Init /\ [][Next]_vars /\ Fairness
-----------------------------------------------------------------------------
AccountOf(p) == IF p = Request THEN request.account ELSE p[2]
Holders == {p \in Procs : at[p] \in {"slot", "work"}}

(* Every variable has its type.                                            *)
TypeOK ==
    /\ locks \in [Accounts -> LockIds \cup {NoLock}]
    /\ refs \in [LockIds -> 0 .. Cardinality(Procs)] /\ token \in [LockIds -> BOOLEAN]
    /\ ref \in [Procs -> LockIds \cup {NoLock}]
    /\ at \in [Procs -> {"idle", "start", "try", "wait", "lock", "slot", "work", "finish"}]
    /\ run \in [pc : {"begin", "round", "retry", "drain", "ended"},
                cont : SUBSET Accounts, retry : SUBSET Accounts, attempt : 0 .. MaxRetries,
                window : {"none", "open", "elapsed"}]
    /\ result \in [pending : SUBSET Accounts, retryable : SUBSET Accounts]
    /\ status \in [Accounts -> {"pending", "success", "failed", "interrupted"}]
    /\ enabled \in [Accounts -> BOOLEAN] /\ tasks \in [Accounts -> 0 .. MaxRequests + 1]
    /\ progress \in [Accounts -> {"none", "auto", "manual"}]
    /\ manual \in [jobs : SUBSET Accounts, stopping : BOOLEAN, done : BOOLEAN]
    /\ ended \subseteq Loops /\ faults \in 0 .. MaxFaults /\ requests \in 0 .. MaxRequests

(* The keyed locks and the slots implement AccountMutex: whoever reached   *)
(* its account through the map is its only owner (acquireAccountUntil,     *)
(* tryAcquireAccount, releaseAccountLock).                                 *)
Mutex == INSTANCE AccountMutex WITH
    owns <- {<<p, AccountOf(p)>> : p \in Holders},
    connected <- Connected
ImplementsMutex == Mutex!Spec

(* A progress entry belongs to a run that is still going on or that the    *)
(* next round continues (finishProgress, deferContinuations,               *)
(* clearProgress): the administrator never sees a sync that is over.       *)
NoStaleProgress ==
    \A a \in Accounts :
        /\ progress[a] = "auto" => at[Automatic(a)] # "idle" \/ a \in run.cont \cup result.pending
        /\ progress[a] = "manual" => a \in manual.jobs

(* A sync that the shutdown or the end of the retry window cut short is    *)
(* not persisted as a failure of the account (BeginShutdown,               *)
(* failureRecorder.record, retryWindowInterrupted).                        *)
InterruptionNotRecorded == \A a \in Accounts : status[a] # "interrupted"

(* What the administrator is shown of an account's sync is true: no        *)
(* progress of a sync that is over, no failure that was an interruption.   *)
StatusHonest == NoStaleProgress /\ InterruptionNotRecorded

(* The database is closed only after every request, the sync loop, the     *)
(* seen worker and every automatic and manual sync have ended              *)
(* (shutdownHTTPAndWaitForBackground, waitForManualJobs, closeDBOnReturn). *)
(* The other users of the database, among them public IMAPS sessions, which*)
(* main.run does not wait for, are not processes of this model.            *)
DatabaseOutlivesOwners ==
    ~main.db => ended = Loops /\ \A p \in Procs : at[p] = "idle"

(* An account whose last batch left more to come, or failed, is synced     *)
(* again until it succeeds, in the next round, a retry or, when the retry  *)
(* window is over, a later poll, whoever holds its lock or the slots       *)
(* meanwhile (Run, syncAllRoundDetailedWithContexts).                      *)
SyncCatchesUp ==
    \A a \in Accounts :
        status[a] # "success" ~> (status[a] = "success" \/ ~enabled[a] \/ manual.stopping)

(* A shutdown ends and closes the database without help from its deadline, *)
(* whatever was waiting for a lock, a slot or a manual job.                *)
ShutdownEnds == main.pc = "stopping" ~> ~main.db
=============================================================================
