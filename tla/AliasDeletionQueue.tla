------------------------- MODULE AliasDeletionQueue -------------------------
(***************************************************************************)
(* The durable Apple deletion queue (store/alias_deletion_queue.go), the   *)
(* runtime that dispatches it (httpserver/admin_alias_delete_jobs.go) and  *)
(* the attempt of one worker at one address (hmesync), down to the points  *)
(* where it asks whether the work is still wanted and where it mutates     *)
(* Apple's directory.                                                      *)
(*                                                                         *)
(* Every store function is one SQL transaction that begins by locking the  *)
(* single row of alias_deletion_queue_sequence, so each is atomic.  A work *)
(* is identified by its FIFO sequence number.  Abstractions: an item stands*)
(* for the alias with its address; NextRunAt is "has it come" (due); the   *)
(* texts, codes and counters of an item are left out; Done and Deleted are *)
(* functions of the state, as applyDeletionWorkToItem keeps them.  A       *)
(* definition Op_Flaw is a faulty Op, used only to test the properties.    *)
(***************************************************************************)
EXTENDS Naturals, Sequences, FiniteSets, SequencesExt

CONSTANTS
    Jobs,         \* operation IDs (idempotency keys) of submitted jobs
    LegacyJobs,   \* jobs that an older release left in the table
    Admins, OwnerOf,
    Addresses,    \* alias addresses
    Subjects, SubjectOf,   \* verified Apple identities (region:DSID)
    Requests,     \* the address sequences an administrator may submit
    Listed,       \* Apple's directory at first: each address is active or not
    FaultKinds,   \* which kinds of setbacks the environment produces
    MaxFaults,    \* bound on setbacks
    MaxVersion    \* bound on password changes

ASSUME QueueAssumption ==
    /\ LegacyJobs \subseteq Jobs
    /\ OwnerOf \in [Jobs -> Admins]
    /\ SubjectOf \in [Addresses -> Subjects]
    /\ Requests \subseteq Seq(Addresses)
    /\ Listed \in [Addresses -> {"active", "inactive"}]
    /\ \A r \in Requests : r # <<>> /\ IsInjective(r)
    /\ FaultKinds \subseteq {"crash", "storage", "throttle", "login", "timeout"}
    /\ MaxFaults \in Nat /\ MaxVersion \in Nat

VARIABLES
    work,       \* alias_deletion_work, indexed by sequence
    job,        \* alias_deletion_jobs with its metadata and job_work rows
    pv,         \* admins.password_version
    proc,       \* the server process
    admitted,   \* the request that holds the admission channel (capacity 1)
    rotating,   \* aliasDeletionJobs.rotationPending
    blocked,    \* aliasDeletionJobs.blocked
    worker,     \* the worker of a subject (its key in aliasDeletionJobs.active)
    tokens,     \* claim tokens issued so far
    late,       \* saves of a dead process that may still reach the database
    remote,     \* Apple's directory
    wire,       \* delete requests that Apple may still apply
    local,      \* addresses that still have their local alias row
    unread,     \* works that sent a delete and saw no result or read since
    faults      \* setbacks so far

db == <<work, job>>
runtime == <<proc, admitted, rotating, blocked, worker>>
apple == <<remote, wire, local, unread>>
vars == <<db, pv, runtime, tokens, late, apple, faults>>

Terminal == {"succeeded", "failed", "cancelled"}
Idle == {"pending", "waiting", "paused"}
Active == Idle \cup {"running"}

NoWorker == [step |-> "none", work |-> 0, token |-> 0, reconcile |-> FALSE,
             mut |-> FALSE, status |-> "running", again |-> FALSE]
Absent == [status |-> "absent", cancel |-> FALSE, pv |-> 0, item |-> <<>>]

Fault(kind) == kind \in FaultKinds /\ faults < MaxFaults /\ faults' = faults + 1

-----------------------------------------------------------------------------
(* The SQL transactions as functions of the work table W and job table J.  *)

Done(it) == it.state \in Terminal

(* deletionJobStatus *)
JobStatus(r) ==
    LET items == {r.item[a] : a \in DOMAIN r.item}
    IN  CASE r.status = "interrupted" -> "interrupted"
          [] r.status # "interrupted" /\ \A it \in items : Done(it) -> "completed"
          [] OTHER -> IF \E it \in items : it.state # "pending" THEN "running" ELSE "queued"

(* writeDeletionSnapshotTx and auditDeletionItemsTx: the first snapshot in *)
(* which an item is done writes its audit record.                          *)
Snapshot(r) ==
    [r EXCEPT !.status = JobStatus(r),
              !.item = [a \in DOMAIN r.item |->
                  IF Done(r.item[a]) /\ r.item[a].audits = 0
                  THEN [r.item[a] EXCEPT !.audits = 1] ELSE r.item[a]]]

(* publishDeletionWorkTx, for a set S of works.                            *)
Publish_ActiveOnly(W, J, S) ==
    [j \in Jobs |->
        IF \E a \in DOMAIN J[j].item : J[j].item[a].work \in S
        THEN Snapshot([J[j] EXCEPT !.item = [a \in DOMAIN J[j].item |->
                 LET it == J[j].item[a] IN
                 IF it.work \in S /\ it.active
                 THEN [it EXCEPT !.state = W[it.work].status,
                                 !.active = W[it.work].status \notin Terminal]
                 ELSE it]])
        ELSE J[j]]
Publish_Overwrites(W, J, S) ==
    [j \in Jobs |->
        IF \E a \in DOMAIN J[j].item : J[j].item[a].work \in S
        THEN Snapshot([J[j] EXCEPT !.item = [a \in DOMAIN J[j].item |->
                 LET it == J[j].item[a] IN
                 IF it.work \in S
                 THEN [it EXCEPT !.state = W[it.work].status,
                                 !.active = it.active /\ W[it.work].status \notin Terminal]
                 ELSE it]])
        ELSE J[j]]
Publish(W, J, S) ==
    [j \in Jobs |->
        IF \E a \in DOMAIN J[j].item : J[j].item[a].work \in S
        THEN Snapshot([J[j] EXCEPT !.item = [a \in DOMAIN J[j].item |->
                 LET it == J[j].item[a] IN
                 IF it.work \in S
                 THEN [it EXCEPT !.state = IF Done(it) THEN it.state ELSE W[it.work].status,
                                 !.active = it.active /\ W[it.work].status \notin Terminal]
                 ELSE it]])
        ELSE J[j]]

(* cancelDeletionJobTx, for a set S of jobs: what is running or must be    *)
(* reconciled keeps its item open.                                         *)
CancelJobs(W, J, S, interrupted) ==
    [j \in Jobs |->
        IF j \in S
        THEN Snapshot([J[j] EXCEPT
                 !.cancel = TRUE,
                 !.status = IF interrupted THEN "interrupted" ELSE J[j].status,
                 !.item = [a \in DOMAIN J[j].item |->
                     LET it == J[j].item[a] IN
                     [it EXCEPT !.active = FALSE,
                                !.state = IF \/ Done(it) \/ W[it.work].status = "running"
                                             \/ W[it.work].reconcile
                                          THEN it.state ELSE "cancelled"]]])
        ELSE J[j]]

(* cancelDeletionWork *)
Cancelled(w) == [w EXCEPT !.status = "cancelled", !.token = 0, !.due = TRUE]

Subscribed(J, w) == \E j \in Jobs : \E a \in DOMAIN J[j].item :
                        J[j].item[a].work = w /\ J[j].item[a].active

(* cancelUnwantedDeletionWorkTx *)
Unwanted_Running(W, J) ==
    {w \in DOMAIN W : W[w].status \in Active /\ ~W[w].reconcile /\ ~Subscribed(J, w)}
Unwanted(W, J) ==
    {w \in DOMAIN W : W[w].status \in Idle /\ ~W[w].reconcile /\ ~Subscribed(J, w)}

CancelUnwanted(W, J) ==
    LET S == Unwanted(W, J)
        V == [w \in DOMAIN W |-> IF w \in S THEN Cancelled(W[w]) ELSE W[w]]
    IN  IF S = {} THEN [work |-> W, job |-> J]
                  ELSE [work |-> V, job |-> Publish(V, J, S)]

(* pruneDeletionSubscriptionsTx: jobs authorised by a password version     *)
(* that is no longer current are interrupted.                              *)
Stale(J) == {j \in Jobs : /\ J[j].status \in {"queued", "running"}
                          /\ J[j].pv # 0 /\ ~J[j].cancel
                          /\ J[j].pv # pv[OwnerOf[j]]}

Prune(W, J) ==
    IF Stale(J) = {} THEN CancelUnwanted(W, J)
                     ELSE CancelUnwanted(W, CancelJobs(W, J, Stale(J), TRUE))

(* deletionWorkWantedTx *)
Wanted_AnySubscriber(J, w) == \E j \in Jobs : \E a \in DOMAIN J[j].item : J[j].item[a].work = w
Wanted(J, w) == \E j \in Jobs : /\ ~J[j].cancel
                                /\ J[j].pv = pv[OwnerOf[j]]
                                /\ \E a \in DOMAIN J[j].item :
                                      J[j].item[a].work = w /\ J[j].item[a].active

(* The predicate shared by ListAliasDeletionQueueHeads and Claim.          *)
Subject(w) == SubjectOf[w.addr]

QueueHead_SkipsWaiting(W, w) ==
    /\ W[w].status \in Idle /\ W[w].due
    /\ ~\E e \in 1 .. w - 1 :
          Subject(W[e]) = Subject(W[w]) /\ W[e].status \in {"pending", "running"}
QueueHead(W, w) ==
    /\ W[w].status \in Idle /\ W[w].due
    /\ ~\E e \in 1 .. w - 1 : Subject(W[e]) = Subject(W[w]) /\ W[e].status \in Active

ActiveWork(W, a) == {w \in DOMAIN W : W[w].addr = a /\ W[w].status \in Active}

NewWork(a) == [addr |-> a, status |-> "pending", token |-> 0, reconcile |-> FALSE, due |-> TRUE]

(* SaveAliasDeletionWork, after its token check.                           *)
SavedWork(w, wk, wanted) ==
    IF ~wanted /\ wk.status \notin Terminal /\ ~wk.again
    THEN Cancelled(w)
    ELSE [w EXCEPT !.status = wk.status, !.reconcile = wk.again,
                   !.due = wk.status \notin {"waiting", "paused"}, !.token = 0]

Fenced(wk) == work[wk.work].status # "running" \/ work[wk.work].token # wk.token

-----------------------------------------------------------------------------
Init ==
    /\ work = <<>>
    /\ job \in [Jobs -> [status : {"absent", "queued", "running"}, cancel : {FALSE},
                         pv : {0}, item : {<<>>}]]
    /\ \A j \in Jobs : job[j].status = "absent" <=> j \notin LegacyJobs
    /\ pv = [m \in Admins |-> 1]
    /\ proc = "down" /\ admitted = {} /\ rotating = FALSE /\ blocked = {}
    /\ worker = [s \in Subjects |-> NoWorker]
    /\ tokens = 0
    /\ late = {}
    /\ remote = Listed
    /\ wire = {} /\ local = Addresses /\ unread = {}
    /\ faults = 0

(* StartAliasDeletionJobs: RecoverAliasDeletionQueue precedes serving.     *)
RecoveredWork_NoReconcile(W) ==
    [w \in DOMAIN W |-> IF W[w].status = "running"
                        THEN [W[w] EXCEPT !.status = "pending", !.token = 0, !.due = TRUE]
                        ELSE W[w]]
RecoveredWork_Nothing(W) == W
RecoveredWork(W) ==
    [w \in DOMAIN W |->
        IF W[w].status = "running"
        THEN [W[w] EXCEPT !.status = "pending", !.token = 0, !.reconcile = TRUE, !.due = TRUE]
        ELSE W[w]]

Start ==
    LET W == RecoveredWork(work)
        J == [j \in Jobs |-> IF job[j].pv = 0 /\ job[j].status \in {"queued", "running"}
                             THEN [job[j] EXCEPT !.status = "interrupted"] ELSE job[j]]
        P == Prune(W, Publish(W, J, {w \in DOMAIN W : work[w].status = "running"}))
    IN  /\ proc = "down"
        /\ proc' = "up"
        /\ work' = P.work /\ job' = P.job
        /\ late' = {}
        /\ UNCHANGED <<pv, admitted, rotating, blocked, worker, tokens, apple, faults>>

(* adminAPIStartAliasDeletionJob up to its preflight: the request takes    *)
(* the admission channel and carries its session's password version.       *)
Admit(j, r) ==
    /\ proc = "up" /\ admitted = {} /\ job[j].status = "absent"
    /\ ToSet(r) \subseteq local
    /\ admitted' = {[job |-> j, request |-> r, pv |-> pv[OwnerOf[j]]]}
    /\ UNCHANGED <<db, pv, proc, rotating, blocked, worker, tokens, late, apple, faults>>

(* The rest of the handler: refused while stopping or rotating or once the *)
(* password has changed, otherwise EnqueueAliasDeletionJob.                *)
Refuse(q) ==
    /\ q \in admitted
    /\ proc = "stopping" \/ rotating \/ q.pv # pv[OwnerOf[q.job]]
    /\ admitted' = {}
    /\ UNCHANGED <<db, pv, proc, rotating, blocked, worker, tokens, late, apple, faults>>

\* The addresses of a request that need a work of their own; the works get their
\* sequence numbers in the order of the request.
Fresh(W, r) == {i \in DOMAIN r : ActiveWork(W, r[i]) = {}}
Place(F, i) == Cardinality({k \in F : k <= i})
Enqueued(W, r) ==
    LET F == Fresh(W, r)
    IN  W \o [n \in 1 .. Cardinality(F) |-> NewWork(r[CHOOSE i \in F : Place(F, i) = n])]

Subscription(W, a) ==
    LET w == CHOOSE w \in ActiveWork(W, a) : TRUE
    IN  [work |-> w, state |-> W[w].status, active |-> TRUE, audits |-> 0]

Enqueue(q) ==
    LET P == Prune(work, job)
        W == Enqueued(P.work, q.request)
        r == [status |-> "queued", cancel |-> FALSE, pv |-> q.pv,
              item |-> [a \in ToSet(q.request) |-> Subscription(W, a)]]
    IN  /\ q \in admitted
        /\ proc = "up" /\ ~rotating /\ q.pv = pv[OwnerOf[q.job]]
        /\ admitted' = {}
        /\ work' = W
        /\ job' = [P.job EXCEPT ![q.job] = [r EXCEPT !.status = JobStatus(r)]]
        /\ UNCHANGED <<pv, proc, rotating, blocked, worker, tokens, late, apple, faults>>

(* CancelAliasDeletionJob *)
CancelJob(j) ==
    LET P == CancelUnwanted(work, CancelJobs(work, job, {j}, FALSE))
    IN  /\ proc # "down"
        /\ job[j].status \in {"queued", "running"} /\ job[j].pv # 0
        /\ work' = P.work /\ job' = P.job
        /\ UNCHANGED <<pv, runtime, tokens, late, apple, faults>>

(* A password change outside the rotation (store/admin.go).                *)
ChangePassword(m) ==
    /\ pv[m] < MaxVersion
    /\ pv' = [pv EXCEPT ![m] = @ + 1]
    /\ UNCHANGED <<db, runtime, tokens, late, apple, faults>>

(* beginAliasDeletionCredentialRotation ...                                *)
Free(s) == worker[s].step = "none"

BeginRotation ==
    /\ proc # "down" /\ ~rotating
    /\ \A s \in Subjects : Free(s)
    /\ rotating' = TRUE
    /\ UNCHANGED <<db, pv, proc, admitted, blocked, worker, tokens, late, apple, faults>>

(* ... and adminAPIRotateAllAliasCredentials under the rotation lock: the  *)
(* rotation commits with a new password version, or it fails.              *)
EndRotation(m) ==
    /\ rotating
    /\ rotating' = FALSE
    /\ \/ UNCHANGED pv
       \/ pv[m] < MaxVersion /\ pv' = [pv EXCEPT ![m] = @ + 1]
    /\ UNCHANGED <<db, proc, admitted, blocked, worker, tokens, late, apple, faults>>

-----------------------------------------------------------------------------
(* dispatchAliasDeletionQueue and ClaimAliasDeletionWork.  The scan of the *)
(* queue heads prunes too; Claim checks its (perhaps stale) head again.    *)
Scan ==
    LET P == Prune(work, job)
    IN  /\ proc = "up"
        /\ <<P.work, P.job>> # db
        /\ work' = P.work /\ job' = P.job
        /\ UNCHANGED <<pv, runtime, tokens, late, apple, faults>>

MayDispatch(s) == proc = "up" /\ ~rotating /\ Free(s) /\ s \notin blocked

Claim(w) ==
    LET P == Prune(work, job)
        s == Subject(work[w])
        W == [P.work EXCEPT ![w].status = "running", ![w].token = tokens + 1]
    IN  /\ MayDispatch(s)
        /\ QueueHead(P.work, w)
        /\ work' = W
        /\ job' = Publish(W, P.job, {w})
        /\ tokens' = tokens + 1
        /\ \/ /\ worker' = [worker EXCEPT ![s] =
                     [NoWorker EXCEPT !.step = "start", !.work = w, !.token = tokens + 1,
                                      !.reconcile = W[w].reconcile]]
              /\ UNCHANGED faults
           \/ (* the claim was committed but its caller saw an error *)
              Fault("storage") /\ UNCHANGED worker
        /\ UNCHANGED <<pv, proc, admitted, rotating, blocked, late, apple>>

(* NextRunAt of a waiting or paused work comes.                            *)
Elapse(w) ==
    /\ ~work[w].due
    /\ work' = [work EXCEPT ![w].due = TRUE]
    /\ UNCHANGED <<job, pv, runtime, tokens, late, apple, faults>>

-----------------------------------------------------------------------------
(* runAliasDeletionWork.  A worker keeps the reconcile flag it claimed;    *)
(* its result is a status and whether a later attempt must reconcile.      *)
Addr(s) == work[worker[s].work].addr

WorksOf(a) == {w \in DOMAIN work : work[w].addr = a}

Result(s, status, again) ==
    worker' = [worker EXCEPT ![s].step = "save", ![s].status = status, ![s].again = again]

Step(s, step) == worker' = [worker EXCEPT ![s].step = step]

(* The check before the attempt.  AliasDeletionWorkWanted prunes.          *)
CheckWanted(s) ==
    LET wk == worker[s]
        P == Prune(work, job)
    IN  /\ wk.step = "start"
        /\ \/ /\ proc = "stopping"
              /\ Result(s, "pending", wk.reconcile)
              /\ UNCHANGED <<db, faults>>
           \/ /\ Fault("storage")
              /\ Result(s, "paused", TRUE)
              /\ UNCHANGED db
           \/ /\ work' = P.work /\ job' = P.job
              /\ IF Wanted(P.job, wk.work) \/ wk.reconcile
                 THEN Step(s, "read") ELSE Result(s, "cancelled", FALSE)
              /\ UNCHANGED faults
        /\ UNCHANGED <<pv, proc, admitted, rotating, blocked, tokens, late, apple>>

(* An error of the attempt; during shutdown every error leaves the work    *)
(* pending and to be reconciled.                                           *)
Outcome(s, status, again) ==
    IF proc = "stopping" THEN Result(s, "pending", TRUE) ELSE Result(s, status, again)

(* The errors that keep the work open: Apple's throttle (a wait), a lost   *)
(* login (a pause that must reconcile if the attempt mutated Apple or      *)
(* inherited it), a timeout or a panic; all others fail the work.          *)
Setback(s) ==
    \/ Fault("throttle") /\ Outcome(s, "waiting", TRUE)
    \/ Fault("login") /\ Outcome(s, "paused", worker[s].reconcile \/ worker[s].mut)
    \/ Fault("timeout") /\ Outcome(s, "paused", TRUE)
    \/ UNCHANGED faults /\ Outcome(s, "failed", FALSE)

(* The durable quota refuses a slot, before the mutation it is asked for.  *)
QuotaWait(s) == Fault("throttle") /\ Outcome(s, "waiting", worker[s].reconcile)

(* deleteLocal after Apple confirmed that the address is gone.             *)
Confirmed_AnyAnswer(s) ==
    /\ Result(s, "succeeded", FALSE)
    /\ local' = local \ {Addr(s)}
    /\ unread' = unread \ WorksOf(Addr(s))
    /\ UNCHANGED faults
Confirmed(s) ==
    /\ remote[Addr(s)] = "gone"
    /\ Result(s, "succeeded", FALSE)
    /\ local' = local \ {Addr(s)}
    /\ unread' = unread \ WorksOf(Addr(s))
    /\ UNCHANGED faults

(* aliasDeletionBatch.delete up to its directory read: an absent address   *)
(* is deleted locally, a present one goes on to its mutations.             *)
ReadDirectory(s) ==
    /\ worker[s].step = "read"
    /\ \/ (Setback(s) \/ QuotaWait(s)) /\ UNCHANGED <<local, unread>>
       \/ Confirmed(s)
       \/ /\ remote[Addr(s)] # "gone"
          /\ Step(s, IF remote[Addr(s)] = "active" THEN "deactivate" ELSE "delete")
          /\ unread' = unread \ WorksOf(Addr(s))
          /\ UNCHANGED <<local, faults>>
    /\ UNCHANGED <<db, pv, proc, admitted, rotating, blocked, tokens, late, remote, wire>>

(* beforeRequest of a mutation asks again whether the work is wanted, in a *)
(* transaction of its own, and gives up with context.Canceled when it is   *)
(* not or when the process stops.  Its errors before that transaction are  *)
(* those of the step before it.                                            *)
BeforeRequest(s) ==
    LET P == Prune(work, job)
        ready == IF worker[s].step = "deactivate" THEN "deactivating" ELSE "deleting"
    IN  /\ worker[s].step \in {"deactivate", "delete"}
        /\ \/ /\ proc = "stopping"
              /\ Result(s, "pending", TRUE)
              /\ UNCHANGED db
           \/ /\ proc = "up"
              /\ Step(s, IF Wanted(P.job, worker[s].work) THEN ready ELSE "canceled")
              /\ work' = P.work /\ job' = P.job
        /\ UNCHANGED <<pv, proc, admitted, rotating, blocked, tokens, late, apple, faults>>

(* After the check anything may commit before the request leaves.  It does *)
(* not leave when the rest of beforeRequest, the quota's checkpoint        *)
(* (markSent) or the context ends the attempt.                             *)
Sending(s) == worker[s].step \in {"deactivating", "deleting"}

Unsent(s) ==
    /\ Sending(s)
    /\ \/ UNCHANGED faults /\ Outcome(s, "failed", FALSE)
       \/ Fault("timeout") /\ Outcome(s, "paused", TRUE)
    /\ UNCHANGED <<db, pv, proc, admitted, rotating, blocked, tokens, late, apple>>

(* DeactivateAlias is sent; Apple applies it or not ...                    *)
Deactivate(s) ==
    /\ worker[s].step = "deactivating"
    /\ \/ UNCHANGED remote
       \/ remote[Addr(s)] = "active" /\ remote' = [remote EXCEPT ![Addr(s)] = "inactive"]
    /\ worker' = [worker EXCEPT ![s].step = "deactivated", ![s].mut = TRUE]
    /\ UNCHANGED <<db, pv, proc, admitted, rotating, blocked, tokens, late, wire, local, unread,
                   faults>>

(* ... and its answer, or the read that reconciles an error, lets the      *)
(* deletion go on, perhaps with a new reservation.                         *)
DeactivateReturns(s) ==
    /\ worker[s].step = "deactivated"
    /\ \/ (Setback(s) \/ QuotaWait(s)) /\ UNCHANGED <<local, unread>>
       \/ Confirmed(s)
       \/ /\ remote[Addr(s)] = "inactive"
          /\ Step(s, "delete")
          /\ UNCHANGED <<local, unread, faults>>
    /\ UNCHANGED <<db, pv, proc, admitted, rotating, blocked, tokens, late, remote, wire>>

(* DeleteAlias is sent; Apple applies it now or, perhaps, later ...        *)
Delete(s) ==
    /\ worker[s].step = "deleting"
    /\ \/ remote' = [remote EXCEPT ![Addr(s)] = "gone"] /\ UNCHANGED wire
       \/ wire' = wire \cup {Addr(s)} /\ UNCHANGED remote
    /\ unread' = unread \cup {worker[s].work}
    /\ worker' = [worker EXCEPT ![s].step = "sent", ![s].mut = TRUE]
    /\ UNCHANGED <<db, pv, proc, admitted, rotating, blocked, tokens, late, local, faults>>

AppleApplies(a) ==
    /\ a \in wire
    /\ wire' = wire \ {a}
    /\ remote' = [remote EXCEPT ![a] = "gone"]
    /\ UNCHANGED <<db, pv, runtime, tokens, late, local, unread, faults>>

(* ... and its answer, or the read that reconciles an error, confirms it,  *)
(* shows the address still there, or is missing as well.                   *)
DeleteReturns(s) ==
    /\ worker[s].step = "sent"
    /\ \/ Setback(s) /\ UNCHANGED <<local, unread>>
       \/ Confirmed(s)
       \/ /\ remote[Addr(s)] # "gone"
          /\ Outcome(s, "failed", FALSE)
          /\ unread' = unread \ WorksOf(Addr(s))
          /\ UNCHANGED <<local, faults>>
    /\ UNCHANGED <<db, pv, proc, admitted, rotating, blocked, tokens, late, remote, wire>>

(* After context.Canceled the worker asks once more: an unwanted work is   *)
(* cancelled, any other fails with BATCH_DELETE_INTERRUPTED.               *)
RecheckWanted(s) ==
    LET P == Prune(work, job)
    IN  /\ worker[s].step = "canceled"
        /\ \/ /\ work' = P.work /\ job' = P.job
              /\ Result(s, IF Wanted(P.job, worker[s].work) THEN "failed" ELSE "cancelled", FALSE)
              /\ UNCHANGED faults
           \/ Fault("storage") /\ Result(s, "failed", FALSE) /\ UNCHANGED db
        /\ UNCHANGED <<pv, proc, admitted, rotating, blocked, tokens, late, apple>>

(* SaveAliasDeletionWork as a function of the tables.                      *)
SaveTx(wk) ==
    LET P == Prune(work, job)
        W == [P.work EXCEPT ![wk.work] = SavedWork(@, wk, Wanted(P.job, wk.work))]
    IN  [work |-> W, job |-> Publish(W, P.job, {wk.work})]

(* The deferred save of a worker, which then leaves aliasDeletionJobs.     *)
(* active; a refused or failed save blocks the subject until the restart.  *)
Save(s) ==
    LET wk == worker[s]
        T == SaveTx(wk)
    IN  /\ wk.step = "save"
        /\ worker' = [worker EXCEPT ![s] = NoWorker]
        /\ \/ /\ ~Fenced(wk)
              /\ work' = T.work /\ job' = T.job
              /\ \/ UNCHANGED <<blocked, faults>>
                 \/ Fault("storage") /\ blocked' = blocked \cup {s}
           \/ /\ (Fenced(wk) /\ UNCHANGED faults) \/ Fault("storage")
              /\ blocked' = blocked \cup {s}
              /\ UNCHANGED db
        /\ UNCHANGED <<pv, proc, admitted, rotating, tokens, late, apple>>

(* A save whose commit was on its way when the process died: it lands, or  *)
(* is lost, before the next process recovers the queue, because recovery   *)
(* locks the row that every change of the queue locks.                     *)
LateSave(wk) ==
    LET T == SaveTx(wk)
    IN  /\ wk \in late /\ proc = "down"
        /\ late' = late \ {wk}
        /\ IF Fenced(wk) THEN UNCHANGED db ELSE work' = T.work /\ job' = T.job
        /\ UNCHANGED <<pv, runtime, tokens, apple, faults>>

-----------------------------------------------------------------------------
(* The process is asked to stop, leaves when its workers have, or dies.    *)
Down ==
    /\ proc' = "down" /\ admitted' = {} /\ rotating' = FALSE /\ blocked' = {}
    /\ worker' = [s \in Subjects |-> NoWorker]

Stop ==
    /\ proc = "up" /\ Fault("crash")
    /\ proc' = "stopping"
    /\ UNCHANGED <<db, pv, admitted, rotating, blocked, worker, tokens, late, apple>>

Exit ==
    /\ proc = "stopping" /\ admitted = {} /\ ~rotating
    /\ \A s \in Subjects : Free(s)
    /\ Down
    /\ UNCHANGED <<db, pv, tokens, late, apple, faults>>

Crash ==
    /\ proc # "down" /\ Fault("crash")
    /\ \E S \in SUBSET {s \in Subjects : worker[s].step = "save"} :
          late' = late \cup {worker[s] : s \in S}
    /\ Down
    /\ UNCHANGED <<db, pv, tokens, apple>>

Worker(s) ==
    \/ CheckWanted(s) \/ ReadDirectory(s) \/ BeforeRequest(s) \/ Unsent(s) \/ Deactivate(s)
    \/ DeactivateReturns(s) \/ Delete(s) \/ DeleteReturns(s) \/ RecheckWanted(s) \/ Save(s)

Next ==
    \/ Start \/ Stop \/ Exit \/ Crash \/ Scan \/ BeginRotation
    \/ \E j \in Jobs : CancelJob(j) \/ \E r \in Requests : Admit(j, r)
    \/ \E q \in admitted : Refuse(q) \/ Enqueue(q)
    \/ \E m \in Admins : ChangePassword(m) \/ EndRotation(m)
    \/ \E w \in DOMAIN work : Claim(w) \/ Elapse(w)
    \/ \E s \in Subjects : Worker(s)
    \/ \E wk \in late : LateSave(wk)
    \/ \E a \in Addresses : AppleApplies(a)

Spec == Init /\ [][Next]_vars

(* The steps the runtime takes by itself: the process is restarted, a      *)
(* stopping one drains, an admitted request and a rotation end (they have  *)
(* deadlines), the dispatcher's ticker keeps scanning and claiming, time   *)
(* passes and every call of a worker returns.  Fairness of their           *)
(* disjunction is weaker than fairness of each.                            *)
Progress ==
    \/ Start \/ Exit \/ Scan
    \/ \E q \in admitted : Refuse(q) \/ Enqueue(q)
    \/ \E m \in Admins : EndRotation(m)
    \/ \E w \in DOMAIN work : Claim(w) \/ Elapse(w)
    \/ \E s \in Subjects : Worker(s)

FairSpec == Spec /\ WF_vars(Progress)

-----------------------------------------------------------------------------
(* Types of the tables, of the runtime and of Apple's directory.           *)
WorkType == [addr : Addresses, status : Active \cup Terminal, token : 0 .. tokens,
             reconcile : BOOLEAN, due : BOOLEAN]
ItemType == [work : DOMAIN work, state : Active \cup Terminal, active : BOOLEAN, audits : Nat]
WorkerType == [step : {"none", "start", "read", "deactivate", "deactivating", "deactivated",
                       "delete", "deleting", "sent", "canceled", "save"},
               work : Nat, token : 0 .. tokens, reconcile : BOOLEAN, mut : BOOLEAN,
               status : Active \cup Terminal, again : BOOLEAN]

TypeOK ==
    /\ work \in Seq(WorkType)
    /\ \A j \in Jobs :
          /\ job[j].status \in {"absent", "queued", "running", "completed", "interrupted"}
          /\ job[j].cancel \in BOOLEAN /\ job[j].pv \in Nat
          /\ DOMAIN job[j].item \subseteq Addresses
          /\ \A a \in DOMAIN job[j].item : job[j].item[a] \in ItemType
    /\ pv \in [Admins -> 1 .. MaxVersion]
    /\ proc \in {"down", "up", "stopping"} /\ rotating \in BOOLEAN /\ blocked \subseteq Subjects
    /\ Cardinality(admitted) <= 1
    /\ worker \in [Subjects -> WorkerType] /\ late \subseteq WorkerType
    /\ remote \in [Addresses -> {"active", "inactive", "gone"}]
    /\ wire \subseteq Addresses /\ local \subseteq Addresses /\ unread \subseteq DOMAIN work

Items == {i \in Jobs \X Addresses : i[2] \in DOMAIN job[i[1]].item}
Item(i) == job[i[1]].item[i[2]]

(* An open item always waits for a work that is still active, and it is    *)
(* subscribed to it unless its job was cancelled or lost its authorisation:*)
(* no result of a shared work is missed by a job that joined, left or was  *)
(* interrupted meanwhile (publishDeletionWorkTx, cancelDeletionJobTx).     *)
NoOrphanItem ==
    \A i \in Items : ~Done(Item(i)) =>
        /\ work[Item(i).work].status \in Active
        /\ Item(i).active \/ job[i[1]].cancel

(* A work that nobody wants any more, and that has nothing to reconcile,   *)
(* is not left idle in the queue, where it would hold up its subject       *)
(* (cancelUnwantedDeletionWorkTx runs in every transaction that drops a    *)
(* subscription).                                                          *)
NoUnwantedIdleWork == Unwanted(work, job) = {}

(* Exactly one audit record is written for an item, in the transaction     *)
(* that ends it, whether a save, a cancellation, a revoked authorisation   *)
(* or a recovery ends it (auditDeletionItemsTx).                           *)
AuditedOnce == \A i \in Items : Item(i).audits = IF Done(Item(i)) THEN 1 ELSE 0

(* ListAliasDeletionQueueHeads: "a waiting/running head prevents later     *)
(* items of that identity from overtaking": the running work is the oldest *)
(* active one of its subject, so at most one runs.                         *)
Fifo == \A w \in DOMAIN work : work[w].status = "running" =>
            ~\E e \in 1 .. w - 1 : /\ Subject(work[e]) = Subject(work[w])
                                   /\ work[e].status \in Active

(* One address has at most one active work, however submissions, results   *)
(* and cancellations interleave.                                           *)
UniqueActiveWork == \A x \in Addresses : Cardinality(ActiveWork(work, x)) <= 1

(* Jobs, works, subscriptions and the audit log agree after every          *)
(* transaction: each open item has its active work, each idle work someone *)
(* who wants it, each address one active work, each end its audit record.  *)
TablesAgree == NoOrphanItem /\ NoUnwantedIdleWork /\ UniqueActiveWork /\ AuditedOnce

(* A worker that still runs owns its claim: nobody else can have claimed,  *)
(* recovered, cancelled or finished its work.                              *)
WorkerOwnsClaim == \A s \in Subjects : ~Free(s) => ~Fenced(worker[s])

(* README "only after Apple confirmed the deletion is the local record     *)
(* removed": a succeeded work and a missing local row imply that Apple's   *)
(* directory no longer has the address.                                    *)
ConfirmedByApple ==
    /\ \A x \in Addresses \ local : remote[x] = "gone"
    /\ \A w \in DOMAIN work : work[w].status = "succeeded" => remote[work[w].addr] = "gone"

(* "Reconciliation survives the last subscriber disappearing": a work is   *)
(* never closed as cancelled while a delete that it sent has neither been  *)
(* answered nor been followed by a read of the directory.                  *)
CancelledIsReconciled ==
    \A w \in DOMAIN work : work[w].status = "cancelled" => w \notin unread

(* DeleteQueuedAlias: "a restart, a cooldown, or a missing local row       *)
(* always leads to a fresh authenticated directory read before another     *)
(* mutation".                                                              *)
ReadBeforeMutation ==
    \A s \in Subjects :
        worker[s].step \in {"deactivate", "delete"} \/ Sending(s) =>
            WorksOf(Addr(s)) \cap unread = {}

(* A delete whose outcome is unknown is looked up before anything builds   *)
(* on it: before its work is closed as cancelled, and before the next      *)
(* mutation of the address.                                                *)
UnknownIsReconciled == CancelledIsReconciled /\ ReadBeforeMutation

(* adminAPIRotateAllAliasCredentials: no worker runs while a rotation is   *)
(* pending, and none starts before it ends.                                *)
RotationExclusive == rotating => \A s \in Subjects : Free(s)

(* A worker acts alone: on a work that is its own, and never beside a      *)
(* rotation of the credentials.                                            *)
WorkerActsAlone == WorkerOwnsClaim /\ RotationExclusive

(* What is final stays final: a late worker, a recovery or a cancellation  *)
(* never rewrites the state of a finished item, of a finished work or of a *)
(* completed or interrupted job.                                           *)
FinalIsFinal ==
    [][/\ \A i \in Items : Done(Item(i)) => Item(i)' = Item(i)
       /\ \A w \in DOMAIN work : work[w].status \in Terminal => work'[w] = work[w]
       /\ \A j \in Jobs : job[j].status \in {"completed", "interrupted"}
                              => job'[j].status = job[j].status]_vars

(* What the queue promises, in terms of the tables: an order of a job is   *)
(* one of its items, still open or ended in some state; an address is      *)
(* cleared for one mutation while its worker is between the check and the  *)
(* request.                                                                *)
Cleared == {Addr(s) : s \in {t \in Subjects : Sending(t)}}

Orders == INSTANCE DeletionOrders WITH
    order <- [j \in Jobs |-> [x \in DOMAIN job[j].item |->
                 IF Done(job[j].item[x]) THEN job[j].item[x].state ELSE "open"]],
    revoked <- {j \in Jobs : job[j].cancel},
    cleared <- Cleared,
    directory <- remote,
    rows <- local

(* The queue keeps that promise: through sharing, claims, retries, crashes *)
(* and late saves each request that changes an alias follows a check of    *)
(* its own that found a job, not revoked, still waiting for it; a          *)
(* revocation after that check lets this one request through, and the      *)
(* orders it was sent for stay open until its outcome is known; all who    *)
(* wait for an address hear the same result once, and nobody's order is    *)
(* dropped unless a job that names its address was revoked (beforeRequest, *)
(* deletionWorkWantedTx, publishDeletionWorkTx,                            *)
(* pruneDeletionSubscriptionsTx).                                          *)
ImplementsOrders == Orders!Spec

(* README "cancelling does not revoke other jobs": an item ends cancelled  *)
(* only in a job that was itself cancelled or lost its authorisation.      *)
CancelsOnlyItself ==
    \A i \in Items : Item(i).state = "cancelled" => job[i[1]].cancel

(* Every accepted job ends, however it shares its works with others, is    *)
(* cancelled, loses its authorisation or is caught by a restart, once      *)
(* Apple stops throttling (the bound on setbacks), no storage fault hits   *)
(* it and administrators stop starting rotations, which hold up dispatch.  *)
EveryJobEnds ==
    <>[]~rotating =>
        \A j \in Jobs : job[j].status \in {"queued", "running"}
                            ~> job[j].status \in {"completed", "interrupted"}
=============================================================================
