---------------------- MODULE AliasDeletionQueueProofs ----------------------
(***************************************************************************)
(* Proofs about the durable deletion queue, for any jobs, addresses,       *)
(* identities and setbacks.                                                *)
(*                                                                         *)
(* The tables change by a few functions, which the transactions compose:   *)
(* each keeps the tables coherent (Coherent) and what is final as it is    *)
(* (Evolved), whatever it is applied to.  Coherent has a parameter, the    *)
(* works whose change the jobs have not been told yet, because a           *)
(* transaction changes the works first and publishes them then.  On the    *)
(* runtime's side most steps only prune the queue (Pruned), which touches  *)
(* no work that a worker has or that must be reconciled.                   *)
(*                                                                         *)
(* The second half shows that the queue implements DeletionOrders.         *)
(***************************************************************************)
EXTENDS AliasDeletionQueue, TLAPS, FiniteSetTheorems, SequenceTheorems

WorkRec == [addr : Addresses, status : Active \cup Terminal, token : Nat,
            reconcile : BOOLEAN, due : BOOLEAN]
ItemRec == [work : Nat, state : Active \cup Terminal, active : BOOLEAN, audits : Nat]
ItemMaps == UNION {[A -> ItemRec] : A \in SUBSET Addresses}
JobStates == {"absent", "queued", "running", "completed", "interrupted"}
JobRec == [status : JobStates, cancel : BOOLEAN, pv : Nat, item : ItemMaps]

\* A job agrees with the works W, but for those of S, which it has not been told of.
JobInv(W, r, S) ==
    /\ \A a \in DOMAIN r.item :
          LET it == r.item[a] IN
          /\ it.work \in DOMAIN W
          /\ it.audits = IF Done(it) THEN 1 ELSE 0
          /\ Done(it) => ~it.active
          /\ ~Done(it) => it.active \/ r.cancel
          /\ ~Done(it) /\ it.work \notin S => W[it.work].status \in Active
    /\ r.status = "absent" => DOMAIN r.item = {}
    /\ r.status = "completed" => \A a \in DOMAIN r.item : Done(r.item[a])

OneActive(W) ==
    \A v, w \in DOMAIN W :
        W[v].addr = W[w].addr /\ W[v].status \in Active /\ W[w].status \in Active => v = w

Coherent(W, J, S) ==
    /\ W \in Seq(WorkRec) /\ J \in [Jobs -> JobRec]
    /\ \A j \in Jobs : JobInv(W, J[j], S)
    /\ OneActive(W)

\* What is final in a job stays, and no job appears or disappears.
JobEvolves(r, k) ==
    /\ \A a \in DOMAIN r.item : Done(r.item[a]) => a \in DOMAIN k.item /\ k.item[a] = r.item[a]
    /\ r.status \in {"completed", "interrupted"} => k.status = r.status
    /\ r.status = "absent" <=> k.status = "absent"
Evolved(J, K) == \A j \in Jobs : JobEvolves(J[j], K[j])

-----------------------------------------------------------------------------
(* Records.                                                                *)
LEMMA EditedItem ==
    ASSUME NEW it \in ItemRec, NEW s \in Active \cup Terminal, NEW b \in BOOLEAN
    PROVE  /\ [it EXCEPT !.state = s, !.active = b] \in ItemRec
           /\ [it EXCEPT !.active = b, !.state = s] \in ItemRec
  BY Zenon DEF ItemRec

LEMMA AuditedItem ==
    ASSUME NEW it \in ItemRec, NEW n \in Nat
    PROVE  [it EXCEPT !.audits = n] \in ItemRec
  BY Zenon DEF ItemRec

LEMMA EditedJob ==
    ASSUME NEW r \in JobRec, NEW m \in ItemMaps
    PROVE  [r EXCEPT !.item = m] \in JobRec
  BY Zenon DEF JobRec

LEMMA MarkedJob ==
    ASSUME NEW r \in JobRec, NEW s \in JobStates, NEW m \in ItemMaps
    PROVE  [r EXCEPT !.status = s, !.item = m] \in JobRec
  BY Zenon DEF JobRec

LEMMA CancelledJob ==
    ASSUME NEW r \in JobRec, NEW s \in JobStates, NEW b \in BOOLEAN, NEW m \in ItemMaps
    PROVE  [r EXCEPT !.cancel = b, !.status = s, !.item = m] \in JobRec
  BY Zenon DEF JobRec

\* The rows of the work table.
LEMMA WorkRows ==
    ASSUME NEW W \in Seq(WorkRec)
    PROVE  /\ Len(W) \in Nat /\ DOMAIN W = 1 .. Len(W)
           /\ \A w \in DOMAIN W : W[w] \in WorkRec /\ W[w].status \in Active \cup Terminal
<1>1. Len(W) \in Nat /\ DOMAIN W = 1 .. Len(W)
  BY LenProperties
<1>2. \A w \in DOMAIN W : W[w] \in WorkRec
  BY <1>1, ElementOfSeq
<1> QED
  BY <1>1, <1>2 DEF WorkRec

LEMMA ItemsOfJob ==
    ASSUME NEW r \in JobRec
    PROVE  /\ DOMAIN r.item \subseteq Addresses
           /\ \A a \in DOMAIN r.item : r.item[a] \in ItemRec
           /\ \A f : /\ DOMAIN f = DOMAIN r.item /\ f = [a \in DOMAIN r.item |-> f[a]]
                     /\ \A a \in DOMAIN r.item : f[a] \in ItemRec
                     => f \in ItemMaps
<1>1. r.item \in ItemMaps
  BY DEF JobRec
<1>2. PICK A \in SUBSET Addresses : r.item \in [A -> ItemRec]
  BY <1>1 DEF ItemMaps
<1> QED
  BY <1>2 DEF ItemMaps

\* deletionJobStatus: interrupted is final, and completed means that all items are done.
LEMMA JobStatusFacts ==
    ASSUME NEW r
    PROVE  /\ JobStatus(r) \in JobStates \ {"absent"}
           /\ JobStatus(r) = "interrupted" <=> r.status = "interrupted"
           /\ JobStatus(r) = "completed" => \A a \in DOMAIN r.item : Done(r.item[a])
           /\ (\A a \in DOMAIN r.item : Done(r.item[a])) /\ r.status # "interrupted"
                 => JobStatus(r) = "completed"
<1> DEFINE items == {r.item[a] : a \in DOMAIN r.item}
<1>1. (\A it \in items : Done(it)) <=> \A a \in DOMAIN r.item : Done(r.item[a])
  OBVIOUS
<1>2. JobStatus(r) = CASE r.status = "interrupted" -> "interrupted"
                       [] r.status # "interrupted" /\ (\A it \in items : Done(it)) -> "completed"
                       [] OTHER -> IF \E it \in items : it.state # "pending"
                                   THEN "running" ELSE "queued"
  BY DEF JobStatus
<1> HIDE DEF items
<1> QED
  BY <1>1, <1>2 DEF JobStates

\* A snapshot audits what is done and keeps the rest of the items.
LEMMA SnapshotFacts ==
    ASSUME NEW r \in JobRec,
           \A a \in DOMAIN r.item :
              r.item[a].audits = 0 \/ (r.item[a].audits = 1 /\ Done(r.item[a]))
    PROVE  /\ Snapshot(r) \in JobRec
           /\ Snapshot(r).status = JobStatus(r)
           /\ Snapshot(r).cancel = r.cancel /\ Snapshot(r).pv = r.pv
           /\ DOMAIN Snapshot(r).item = DOMAIN r.item
           /\ \A a \in DOMAIN r.item :
                 LET it == r.item[a]
                     new == Snapshot(r).item[a]
                 IN  /\ new.work = it.work /\ new.state = it.state /\ new.active = it.active
                     /\ new.audits = IF Done(it) THEN 1 ELSE 0
                     /\ it.audits = 1 => new = it
<1> DEFINE f == [a \in DOMAIN r.item |-> IF Done(r.item[a]) /\ r.item[a].audits = 0
                                         THEN [r.item[a] EXCEPT !.audits = 1] ELSE r.item[a]]
<1>1. /\ \A a \in DOMAIN r.item : r.item[a] \in ItemRec
      /\ DOMAIN f = DOMAIN r.item
  BY ItemsOfJob
<1>2. \A a \in DOMAIN r.item :
         /\ f[a] \in ItemRec
         /\ f[a].work = r.item[a].work /\ f[a].state = r.item[a].state
         /\ f[a].active = r.item[a].active
         /\ f[a].audits = IF Done(r.item[a]) THEN 1 ELSE 0
         /\ r.item[a].audits = 1 => f[a] = r.item[a]
  <2> SUFFICES ASSUME NEW a \in DOMAIN r.item
               PROVE  /\ f[a] \in ItemRec
                      /\ f[a].work = r.item[a].work /\ f[a].state = r.item[a].state
                      /\ f[a].active = r.item[a].active
                      /\ f[a].audits = IF Done(r.item[a]) THEN 1 ELSE 0
                      /\ r.item[a].audits = 1 => f[a] = r.item[a]
    OBVIOUS
  <2>1. CASE Done(r.item[a]) /\ r.item[a].audits = 0
    <3>1. f[a] = [r.item[a] EXCEPT !.audits = 1]
      BY <2>1
    <3>2. f[a] \in ItemRec
      BY <1>1, <3>1, AuditedItem
    <3> QED
      BY <1>1, <2>1, <3>1, <3>2 DEF ItemRec
  <2>2. CASE ~(Done(r.item[a]) /\ r.item[a].audits = 0)
    BY <1>1, <2>2
  <2> QED
    BY <2>1, <2>2
<1>3. f = [a \in DOMAIN r.item |-> f[a]]
  OBVIOUS
<1>4. Snapshot(r) = [r EXCEPT !.status = JobStatus(r), !.item = f]
  BY DEF Snapshot
<1> HIDE DEF f
<1>5. f \in ItemMaps
  BY <1>1, <1>2, <1>3, ItemsOfJob
<1>6. JobStatus(r) \in JobStates
  BY JobStatusFacts, Zenon
<1>7. Snapshot(r) \in JobRec
  <2>1. [r EXCEPT !.status = JobStatus(r), !.item = f] \in JobRec
    BY <1>5, <1>6, MarkedJob
  <2> QED
    BY <1>4, <2>1
<1>8. /\ Snapshot(r).status = JobStatus(r) /\ Snapshot(r).item = f
      /\ Snapshot(r).cancel = r.cancel /\ Snapshot(r).pv = r.pv
  BY <1>4 DEF JobRec
<1> QED
  BY <1>1, <1>2, <1>7, <1>8

-----------------------------------------------------------------------------
(* publishDeletionWorkTx                                                   *)
LEMMA PublishedItem ==
    ASSUME NEW it \in ItemRec, NEW s \in Active \cup Terminal, Done(it) => ~it.active,
           NEW new, new = [it EXCEPT !.state = IF Done(it) THEN it.state ELSE s,
                                     !.active = it.active /\ s \notin Terminal]
    PROVE  /\ new \in ItemRec
           /\ new.work = it.work /\ new.audits = it.audits
           /\ new.state = IF Done(it) THEN it.state ELSE s
           /\ new.active <=> it.active /\ s \notin Terminal
           /\ Done(it) => new = it
<1> DEFINE st == IF Done(it) THEN it.state ELSE s
           ac == it.active /\ s \notin Terminal
<1>1. st \in Active \cup Terminal
  BY DEF ItemRec
<1>2. ac \in BOOLEAN
  BY Zenon
<1>3. new = [it EXCEPT !.state = st, !.active = ac]
  OBVIOUS
<1> HIDE DEF st, ac
<1>4. new \in ItemRec
  <2>1. [it EXCEPT !.state = st, !.active = ac] \in ItemRec
    BY <1>1, <1>2, EditedItem
  <2> QED
    BY <1>3, <2>1
<1>5. new.work = it.work /\ new.audits = it.audits /\ new.state = st /\ new.active = ac
  BY <1>3 DEF ItemRec
<1>6. ASSUME Done(it) PROVE new = it
  <2>1. st = it.state
    BY <1>6 DEF st
  <2>2. it.active = FALSE
    BY <1>6, Zenon DEF ItemRec
  <2>3. ac = FALSE
    BY <2>2, Zenon DEF ac
  <2> QED
    BY <1>3, <2>1, <2>2, <2>3 DEF ItemRec
<1> QED
  BY <1>4, <1>5, <1>6 DEF st, ac

LEMMA PublishFacts ==
    ASSUME NEW W, NEW J, NEW S, Coherent(W, J, S), NEW j \in Jobs,
           NEW k, k = Publish(W, J, S)[j]
    PROVE  /\ k \in JobRec /\ JobInv(W, k, {}) /\ JobEvolves(J[j], k)
           /\ k.cancel = J[j].cancel /\ k.pv = J[j].pv
           /\ k.status = "interrupted" <=> J[j].status = "interrupted"
           /\ DOMAIN k.item = DOMAIN J[j].item
           /\ \A a \in DOMAIN k.item :
                 LET it == J[j].item[a]
                 IN  /\ k.item[a].work = it.work
                     /\ k.item[a].state = IF it.work \in S /\ ~Done(it) THEN W[it.work].status
                                          ELSE it.state
                     /\ k.item[a].active <=>
                           it.active /\ (it.work \in S => W[it.work].status \notin Terminal)
<1> DEFINE r == J[j]
<1>1. r \in JobRec /\ JobInv(W, r, S)
  BY DEF Coherent
<1>2. \A a \in DOMAIN r.item : r.item[a] \in ItemRec
  BY <1>1, ItemsOfJob
<1>3. \A w \in DOMAIN W : W[w].status \in Active \cup Terminal
  BY WorkRows DEF Coherent
<1>4. CASE ~\E a \in DOMAIN r.item : r.item[a].work \in S
  <2>1. k = r
    BY <1>4 DEF Publish
  <2>2. JobInv(W, r, {})
    BY <1>1, <1>4 DEF JobInv
  <2> QED
    BY <1>1, <1>4, <2>1, <2>2 DEF JobEvolves
<1>5. CASE \E a \in DOMAIN r.item : r.item[a].work \in S
  <2> DEFINE f == [a \in DOMAIN r.item |->
                     IF r.item[a].work \in S
                     THEN [r.item[a] EXCEPT
                             !.state = IF Done(r.item[a]) THEN r.item[a].state
                                       ELSE W[r.item[a].work].status,
                             !.active = r.item[a].active
                                        /\ W[r.item[a].work].status \notin Terminal]
                     ELSE r.item[a]]
             m == [r EXCEPT !.item = f]
  <2>1. k = Snapshot(m)
    BY <1>5 DEF Publish
  <2>2. ASSUME NEW a \in DOMAIN r.item
        PROVE  LET it == r.item[a]
               IN  /\ f[a] \in ItemRec /\ f[a].work = it.work /\ f[a].audits = it.audits
                   /\ it.work \notin S => f[a] = it
                   /\ it.work \in S =>
                         /\ f[a].state = IF Done(it) THEN it.state ELSE W[it.work].status
                         /\ f[a].active <=> it.active /\ W[it.work].status \notin Terminal
                   /\ Done(it) => f[a] = it
    <3> DEFINE it == r.item[a]
               s == W[it.work].status
    <3>1. it \in ItemRec /\ s \in Active \cup Terminal /\ (Done(it) => ~it.active)
      BY <1>1, <1>2, <1>3 DEF JobInv
    <3>2. CASE it.work \in S
      <4>1. f[a] = [it EXCEPT !.state = IF Done(it) THEN it.state ELSE s,
                              !.active = it.active /\ s \notin Terminal]
        BY <3>2
      <4> HIDE DEF f, it, s
      <4>2. /\ f[a] \in ItemRec
            /\ f[a].work = it.work /\ f[a].audits = it.audits
            /\ f[a].state = IF Done(it) THEN it.state ELSE s
            /\ f[a].active <=> it.active /\ s \notin Terminal
            /\ Done(it) => f[a] = it
        BY <3>1, <4>1, PublishedItem
      <4> QED
        BY <3>2, <4>2 DEF it, s
    <3>3. CASE it.work \notin S
      BY <3>1, <3>3
    <3> QED
      BY <3>2, <3>3
  <2>3. DOMAIN f = DOMAIN r.item /\ f = [a \in DOMAIN r.item |-> f[a]]
    OBVIOUS
  <2> HIDE DEF f
  <2>4. f \in ItemMaps
    BY <1>1, <2>2, <2>3, ItemsOfJob
  <2>5. m \in JobRec
    BY <1>1, <2>4, EditedJob
  <2>6. /\ m.item = f /\ m.status = r.status /\ m.cancel = r.cancel /\ m.pv = r.pv
    BY <1>1 DEF JobRec
  <2>7. \A a \in DOMAIN m.item :
           m.item[a].audits = 0 \/ (m.item[a].audits = 1 /\ Done(m.item[a]))
    BY <1>1, <2>2, <2>3, <2>6 DEF JobInv
  <2> HIDE DEF m
  <2>8. /\ k \in JobRec /\ k.status = JobStatus(m)
        /\ k.cancel = r.cancel /\ k.pv = r.pv /\ DOMAIN k.item = DOMAIN r.item
        /\ \A a \in DOMAIN r.item :
              /\ k.item[a].work = f[a].work /\ k.item[a].state = f[a].state
              /\ k.item[a].active = f[a].active
              /\ k.item[a].audits = IF Done(f[a]) THEN 1 ELSE 0
              /\ f[a].audits = 1 => k.item[a] = f[a]
    BY <2>1, <2>3, <2>5, <2>6, <2>7, SnapshotFacts
  <2>9. /\ \A a \in DOMAIN r.item : Done(k.item[a]) <=> Done(f[a])
        /\ \A a \in DOMAIN r.item : Done(r.item[a]) => k.item[a] = r.item[a]
    BY <1>1, <2>2, <2>8 DEF JobInv, Done
  <2>10. r.status # "absent" /\ k.status # "absent"
    BY <1>1, <1>5, <2>8, JobStatusFacts DEF JobInv
  <2>11. /\ k.status = "completed" => \A a \in DOMAIN k.item : Done(k.item[a])
         /\ r.status \in {"completed", "interrupted"} => k.status = r.status
    <3>1. k.status = "completed" => \A a \in DOMAIN m.item : Done(m.item[a])
      <4>1. JobStatus(m) = "completed" => \A a \in DOMAIN m.item : Done(m.item[a])
        BY JobStatusFacts
      <4> QED
        BY <2>8, <4>1
    <3>2. m.status = "interrupted" <=> k.status = "interrupted"
      BY <2>8, JobStatusFacts
    <3>3. (\A a \in DOMAIN m.item : Done(m.item[a])) /\ m.status # "interrupted"
             => k.status = "completed"
      BY <2>8, JobStatusFacts
    <3>4. r.status = "completed" => \A a \in DOMAIN m.item : Done(m.item[a])
      BY <1>1, <2>2, <2>3, <2>6 DEF JobInv
    <3> QED
      BY <2>3, <2>6, <2>8, <2>9, <3>1, <3>2, <3>3, <3>4
  <2>12. JobEvolves(r, k)
    BY <2>8, <2>9, <2>10, <2>11 DEF JobEvolves
  <2>13. JobInv(W, k, {})
    <3>1. ASSUME NEW a \in DOMAIN k.item
          PROVE  LET it == k.item[a]
                 IN  /\ it.work \in DOMAIN W
                     /\ it.audits = IF Done(it) THEN 1 ELSE 0
                     /\ Done(it) => ~it.active
                     /\ ~Done(it) => it.active \/ k.cancel
                     /\ ~Done(it) => W[it.work].status \in Active
      <4>1. CASE r.item[a].work \in S
        BY <1>1, <1>3, <2>2, <2>8, <2>9, <4>1 DEF JobInv, Done
      <4>2. CASE r.item[a].work \notin S
        BY <1>1, <2>2, <2>8, <2>9, <4>2 DEF JobInv
      <4> QED
        BY <4>1, <4>2
    <3> QED
      BY <2>10, <2>11, <3>1 DEF JobInv
  <2>14. \A a \in DOMAIN k.item :
            LET it == r.item[a]
            IN  /\ k.item[a].work = it.work
                /\ k.item[a].state = IF it.work \in S /\ ~Done(it) THEN W[it.work].status
                                     ELSE it.state
                /\ k.item[a].active <=>
                      it.active /\ (it.work \in S => W[it.work].status \notin Terminal)
    BY <2>2, <2>8
  <2>15. k.status = "interrupted" <=> r.status = "interrupted"
    BY <2>6, <2>8, JobStatusFacts
  <2> QED
    BY <2>8, <2>12, <2>13, <2>14, <2>15
<1> QED
  BY <1>4, <1>5

\* Publishing what changed makes the tables agree; subscriptions to active works stay.
LEMMA PublishKeeps ==
    ASSUME NEW W, NEW J, NEW S, Coherent(W, J, S)
    PROVE  LET K == Publish(W, J, S)
           IN  /\ Coherent(W, K, {}) /\ Evolved(J, K)
               /\ \A w \in DOMAIN W : W[w].status \notin Terminal =>
                     (Subscribed(K, w) <=> Subscribed(J, w))
<1> DEFINE K == Publish(W, J, S)
<1>1. K = [j \in Jobs |-> K[j]]
  BY DEF Publish
<1> HIDE DEF K
<1>2. \A j \in Jobs :
         /\ K[j] \in JobRec /\ JobInv(W, K[j], {}) /\ JobEvolves(J[j], K[j])
         /\ DOMAIN K[j].item = DOMAIN J[j].item
         /\ \A a \in DOMAIN K[j].item :
               LET it == J[j].item[a]
               IN  /\ K[j].item[a].work = it.work
                   /\ K[j].item[a].active <=>
                         it.active /\ (it.work \in S => W[it.work].status \notin Terminal)
  BY PublishFacts DEF K
<1>3. Coherent(W, K, {}) /\ Evolved(J, K)
  BY <1>1, <1>2 DEF Coherent, Evolved
<1>4. ASSUME NEW w \in DOMAIN W, W[w].status \notin Terminal
      PROVE  Subscribed(K, w) <=> Subscribed(J, w)
  BY <1>2, <1>4 DEF Subscribed
<1> QED
  BY <1>3, <1>4 DEF K

-----------------------------------------------------------------------------
(* cancelDeletionJobTx                                                     *)
LEMMA CancelledItem ==
    ASSUME NEW it \in ItemRec, Done(it) => ~it.active, NEW c,
           NEW new, new = [it EXCEPT !.active = FALSE,
                                     !.state = IF Done(it) \/ c THEN it.state ELSE "cancelled"]
    PROVE  /\ new \in ItemRec
           /\ new.work = it.work /\ new.audits = it.audits
           /\ new.state = IF Done(it) \/ c THEN it.state ELSE "cancelled"
           /\ ~new.active
           /\ Done(it) => new = it
<1> DEFINE st == IF Done(it) \/ c THEN it.state ELSE "cancelled"
<1>1. st \in Active \cup Terminal
  BY DEF ItemRec, Terminal
<1>2. new = [it EXCEPT !.active = FALSE, !.state = st]
  OBVIOUS
<1>3. Done(it) => st = it.state
  OBVIOUS
<1> HIDE DEF st
<1>4. new \in ItemRec
  <2>1. [it EXCEPT !.active = FALSE, !.state = st] \in ItemRec
    BY <1>1, EditedItem
  <2> QED
    BY <1>2, <2>1
<1>5. new.work = it.work /\ new.audits = it.audits /\ new.state = st /\ ~new.active
  BY <1>2 DEF ItemRec
<1>6. ASSUME Done(it) PROVE new = it
  <2>1. it.active = FALSE
    BY <1>6, Zenon DEF ItemRec
  <2> QED
    BY <1>2, <1>3, <1>6, <2>1 DEF ItemRec
<1> QED
  BY <1>4, <1>5, <1>6 DEF st

\* A cancelled job keeps open only what is running or must be reconciled.
JobCancelled(W, r, k) ==
    /\ k.cancel /\ k.pv = r.pv /\ DOMAIN k.item = DOMAIN r.item
    /\ \A a \in DOMAIN r.item :
          LET it == r.item[a]
          IN  /\ k.item[a].work = it.work
              /\ k.item[a].state = IF \/ Done(it) \/ W[it.work].status = "running"
                                     \/ W[it.work].reconcile
                                  THEN it.state ELSE "cancelled"

LEMMA CancelJobsFacts ==
    ASSUME NEW W, NEW J, Coherent(W, J, {}), NEW C,
           \A j \in Jobs \cap C : J[j].status \in {"queued", "running"},
           NEW interrupted, NEW j \in Jobs, NEW k, k = CancelJobs(W, J, C, interrupted)[j]
    PROVE  /\ k \in JobRec /\ JobInv(W, k, {}) /\ JobEvolves(J[j], k)
           /\ j \notin C => k = J[j]
           /\ j \in C => JobCancelled(W, J[j], k)
<1> DEFINE r == J[j]
<1>1. r \in JobRec /\ JobInv(W, r, {})
  BY DEF Coherent
<1>2. \A a \in DOMAIN r.item : r.item[a] \in ItemRec
  BY <1>1, ItemsOfJob
<1>3. CASE j \notin C
  BY <1>1, <1>3 DEF CancelJobs, JobEvolves
<1>4. CASE j \in C
  <2> DEFINE open(it) == W[it.work].status = "running" \/ W[it.work].reconcile
             f == [a \in DOMAIN r.item |->
                     [r.item[a] EXCEPT !.active = FALSE,
                                       !.state = IF \/ Done(r.item[a])
                                                    \/ W[r.item[a].work].status = "running"
                                                    \/ W[r.item[a].work].reconcile
                                                 THEN r.item[a].state ELSE "cancelled"]]
             s == IF interrupted THEN "interrupted" ELSE r.status
             m == [r EXCEPT !.cancel = TRUE, !.status = s, !.item = f]
  <2>1. k = Snapshot(m)
    BY <1>4 DEF CancelJobs
  <2>2. ASSUME NEW a \in DOMAIN r.item
        PROVE  LET it == r.item[a]
               IN  /\ f[a] \in ItemRec /\ f[a].work = it.work /\ f[a].audits = it.audits
                   /\ f[a].state \in {it.state, "cancelled"} /\ ~f[a].active
                   /\ Done(it) => f[a] = it
                   /\ f[a].state = IF \/ Done(it) \/ W[it.work].status = "running"
                                     \/ W[it.work].reconcile
                                  THEN it.state ELSE "cancelled"
    <3> DEFINE it == r.item[a]
    <3>1. f[a] = [it EXCEPT !.active = FALSE,
                            !.state = IF Done(it) \/ open(it) THEN it.state ELSE "cancelled"]
      OBVIOUS
    <3>2. it \in ItemRec /\ (Done(it) => ~it.active)
      BY <1>1, <1>2 DEF JobInv
    <3> DEFINE c == open(it)
    <3>3. f[a] = [it EXCEPT !.active = FALSE,
                            !.state = IF Done(it) \/ c THEN it.state ELSE "cancelled"]
      BY <3>1
    <3> HIDE DEF f, c, open, it
    <3>4. /\ f[a] \in ItemRec
          /\ f[a].work = it.work /\ f[a].audits = it.audits
          /\ f[a].state = IF Done(it) \/ c THEN it.state ELSE "cancelled"
          /\ ~f[a].active
          /\ Done(it) => f[a] = it
      BY <3>2, <3>3, CancelledItem
    <3> QED
      BY <3>4 DEF it, c, open
  <2>3. DOMAIN f = DOMAIN r.item /\ f = [a \in DOMAIN r.item |-> f[a]]
    OBVIOUS
  <2>4. s \in JobStates /\ s # "absent" /\ s # "completed" /\ r.status \in {"queued", "running"}
    BY <1>4 DEF JobStates
  <2> HIDE DEF f, s
  <2>5. f \in ItemMaps
    BY <1>1, <2>2, <2>3, ItemsOfJob
  <2>6. m \in JobRec
    BY <1>1, <2>4, <2>5, CancelledJob
  <2>7. /\ m.item = f /\ m.status = s /\ m.cancel = TRUE /\ m.pv = r.pv
    BY <1>1 DEF JobRec
  <2>8. \A a \in DOMAIN m.item :
           m.item[a].audits = 0 \/ (m.item[a].audits = 1 /\ Done(m.item[a]))
    <3> SUFFICES ASSUME NEW a \in DOMAIN r.item
                 PROVE  f[a].audits = 0 \/ (f[a].audits = 1 /\ Done(f[a]))
      BY <2>3, <2>7
    <3>1. r.item[a].audits = IF Done(r.item[a]) THEN 1 ELSE 0
      BY <1>1 DEF JobInv
    <3>2. f[a].audits = r.item[a].audits /\ (Done(r.item[a]) => f[a] = r.item[a])
      BY <2>2
    <3> QED
      BY <3>1, <3>2
  <2> HIDE DEF m
  <2>9. /\ k \in JobRec /\ k.status = JobStatus(m)
        /\ k.cancel = TRUE /\ k.pv = r.pv /\ DOMAIN k.item = DOMAIN r.item
        /\ \A a \in DOMAIN r.item :
              /\ k.item[a].work = f[a].work /\ k.item[a].state = f[a].state
              /\ k.item[a].active = f[a].active
              /\ k.item[a].audits = IF Done(f[a]) THEN 1 ELSE 0
              /\ f[a].audits = 1 => k.item[a] = f[a]
    BY <2>1, <2>3, <2>6, <2>7, <2>8, SnapshotFacts
  <2>10. /\ \A a \in DOMAIN r.item : Done(k.item[a]) <=> Done(f[a])
         /\ \A a \in DOMAIN r.item : Done(r.item[a]) => k.item[a] = r.item[a]
    BY <1>1, <2>2, <2>9 DEF JobInv, Done
  <2>11. /\ JobStatus(m) \in JobStates \ {"absent"}
         /\ JobStatus(m) = "completed" => \A a \in DOMAIN m.item : Done(m.item[a])
    BY JobStatusFacts
  <2>12. JobEvolves(r, k)
    BY <2>4, <2>9, <2>10, <2>11 DEF JobEvolves
  <2>13. JobInv(W, k, {})
    <3>1. ASSUME NEW a \in DOMAIN k.item
          PROVE  LET it == k.item[a]
                 IN  /\ it.work \in DOMAIN W
                     /\ it.audits = IF Done(it) THEN 1 ELSE 0
                     /\ Done(it) => ~it.active
                     /\ ~Done(it) => it.active \/ k.cancel
                     /\ ~Done(it) => W[it.work].status \in Active
      BY <1>1, <2>2, <2>9, <2>10 DEF JobInv, Done, Terminal
    <3>2. k.status = "completed" => \A a \in DOMAIN k.item : Done(k.item[a])
      BY <2>3, <2>7, <2>9, <2>10, <2>11
    <3> QED
      BY <2>9, <2>11, <3>1, <3>2 DEF JobInv
  <2>14. JobCancelled(W, r, k)
    BY <2>2, <2>9 DEF JobCancelled
  <2> QED
    BY <1>4, <2>9, <2>12, <2>13, <2>14
<1> QED
  BY <1>3, <1>4

LEMMA CancelJobsKeeps ==
    ASSUME NEW W, NEW J, Coherent(W, J, {}), NEW C,
           \A j \in Jobs \cap C : J[j].status \in {"queued", "running"}, NEW interrupted
    PROVE  LET K == CancelJobs(W, J, C, interrupted)
           IN  Coherent(W, K, {}) /\ Evolved(J, K)
<1> DEFINE K == CancelJobs(W, J, C, interrupted)
<1>1. K = [j \in Jobs |-> K[j]]
  BY DEF CancelJobs
<1> HIDE DEF K
<1>2. \A j \in Jobs : K[j] \in JobRec /\ JobInv(W, K[j], {}) /\ JobEvolves(J[j], K[j])
  BY CancelJobsFacts DEF K
<1>3. Coherent(W, K, {}) /\ Evolved(J, K)
  BY <1>1, <1>2 DEF Coherent, Evolved
<1> QED
  BY <1>3 DEF K

-----------------------------------------------------------------------------
(* cancelUnwantedDeletionWorkTx and pruneDeletionSubscriptionsTx           *)

\* Works are closed or stay active, and the jobs are to be told of S.
LEMMA ChangedWorks ==
    ASSUME NEW W, NEW J, Coherent(W, J, {}), NEW V \in Seq(WorkRec), NEW S,
           DOMAIN V = DOMAIN W,
           \A w \in DOMAIN W :
              /\ V[w].addr = W[w].addr
              /\ V[w].status \in Active => W[w].status \in Active
              /\ w \notin S => V[w].status = W[w].status
    PROVE  Coherent(V, J, S)
  BY DEF Coherent, JobInv, OneActive

LEMMA EvolvedTransitive ==
    ASSUME NEW J, NEW K, NEW L, Evolved(J, K), Evolved(K, L)
    PROVE  Evolved(J, L)
  BY DEF Evolved, JobEvolves

\* A prune closes idle works that nobody wants and that have nothing to reconcile.
RowPruned(o, n) == n = o \/ (o.status \in Idle /\ ~o.reconcile /\ n = Cancelled(o))
Pruned(W, V, X) ==
    /\ V \in Seq(WorkRec) /\ DOMAIN V = DOMAIN W
    /\ \A w \in DOMAIN W \ X : RowPruned(W[w], V[w])

LEMMA CancelledWork ==
    ASSUME NEW w \in WorkRec
    PROVE  /\ Cancelled(w) \in WorkRec /\ Cancelled(w).status = "cancelled"
           /\ Cancelled(w).addr = w.addr /\ Cancelled(w).due
  BY DEF Cancelled, WorkRec, Active, Idle, Terminal

LEMMA TableOf ==
    ASSUME NEW n \in Nat, NEW V, V = [w \in 1 .. n |-> V[w]], \A w \in 1 .. n : V[w] \in WorkRec
    PROVE  V \in Seq(WorkRec) /\ DOMAIN V = 1 .. n
  BY IsASeq

LEMMA CancelUnwantedKeeps ==
    ASSUME NEW W, NEW J, Coherent(W, J, {})
    PROVE  LET T == CancelUnwanted(W, J)
           IN  /\ Coherent(T.work, T.job, {}) /\ Evolved(J, T.job)
               /\ Unwanted(T.work, T.job) = {} /\ Pruned(W, T.work, {})
<1> DEFINE T == CancelUnwanted(W, J)
           S == Unwanted(W, J)
           V == [w \in DOMAIN W |-> IF w \in S THEN Cancelled(W[w]) ELSE W[w]]
<1>1. /\ Len(W) \in Nat /\ DOMAIN W = 1 .. Len(W)
      /\ \A w \in DOMAIN W : W[w] \in WorkRec /\ W[w].status \in Active \cup Terminal
      /\ W \in Seq(WorkRec)
  BY WorkRows DEF Coherent
<1>2. CASE S = {}
  <2>1. T.work = W /\ T.job = J
    BY <1>2 DEF CancelUnwanted
  <2>2. Evolved(J, J)
    BY DEF Evolved, JobEvolves
  <2> QED
    BY <1>1, <1>2, <2>1, <2>2 DEF Pruned, RowPruned
<1>3. CASE S # {}
  <2> DEFINE K == Publish(V, J, S)
  <2>1. T.work = V /\ T.job = K
    BY <1>3 DEF CancelUnwanted
  <2>2. \A w \in S : w \in DOMAIN W /\ W[w].status \in Idle /\ ~W[w].reconcile
    BY DEF Unwanted
  <2>3. \A w \in DOMAIN W : V[w] = IF w \in S THEN Cancelled(W[w]) ELSE W[w]
    OBVIOUS
  <2>4. V = [w \in 1 .. Len(W) |-> V[w]]
    BY <1>1
  <2> HIDE DEF S, V, T, K
  <2>5. \A w \in DOMAIN W : V[w] \in WorkRec /\ V[w].addr = W[w].addr
    BY <1>1, <2>3, CancelledWork
  <2>6. V \in Seq(WorkRec) /\ DOMAIN V = DOMAIN W
    BY <1>1, <2>4, <2>5, TableOf
  <2>7. Pruned(W, V, {})
    BY <2>2, <2>3, <2>6 DEF Pruned, RowPruned
  <2>8. \A w \in S : V[w].status = "cancelled"
    BY <1>1, <2>2, <2>3, CancelledWork
  <2>9. Coherent(V, J, S)
    <3>1. \A w \in DOMAIN W : /\ V[w].status \in Active => W[w].status \in Active
                              /\ w \notin S => V[w].status = W[w].status
      BY <2>3, <2>8 DEF Active, Idle
    <3> QED
      BY <2>5, <2>6, <3>1, ChangedWorks
  <2>10. /\ Coherent(V, K, {}) /\ Evolved(J, K)
         /\ \A w \in DOMAIN V : V[w].status \notin Terminal =>
               (Subscribed(K, w) <=> Subscribed(J, w))
    BY <2>9, PublishKeeps DEF K
  <2>11. Unwanted(V, K) = {}
    <3> SUFFICES ASSUME NEW w \in DOMAIN V, V[w].status \in Idle, ~V[w].reconcile,
                        ~Subscribed(K, w)
                 PROVE  FALSE
      BY DEF Unwanted
    <3>1. w \notin S /\ V[w] = W[w]
      BY <2>3, <2>6, <2>8 DEF Idle
    <3>2. ~Subscribed(J, w)
      BY <2>10 DEF Idle, Terminal
    <3> QED
      BY <2>6, <3>1, <3>2 DEF S, Unwanted
  <2> QED
    BY <2>1, <2>7, <2>10, <2>11 DEF T
<1> QED
  BY <1>2, <1>3

LEMMA PruneKeeps ==
    ASSUME NEW W, NEW J, Coherent(W, J, {})
    PROVE  LET T == Prune(W, J)
           IN  /\ Coherent(T.work, T.job, {}) /\ Evolved(J, T.job)
               /\ Unwanted(T.work, T.job) = {} /\ Pruned(W, T.work, {})
<1>1. CASE Stale(J) = {}
  BY <1>1, CancelUnwantedKeeps DEF Prune
<1>2. CASE Stale(J) # {}
  <2> DEFINE K == CancelJobs(W, J, Stale(J), TRUE)
  <2>1. Coherent(W, K, {}) /\ Evolved(J, K)
    <3>1. \A j \in Jobs \cap Stale(J) : J[j].status \in {"queued", "running"}
      BY DEF Stale
    <3> QED
      BY <3>1, CancelJobsKeeps
  <2>2. Prune(W, J) = CancelUnwanted(W, K)
    BY <1>2 DEF Prune
  <2> HIDE DEF K
  <2> QED
    BY <2>1, <2>2, CancelUnwantedKeeps, EvolvedTransitive
<1> QED
  BY <1>1, <1>2

-----------------------------------------------------------------------------
(* EnqueueAliasDeletionJob                                                 *)

\* The places of a finite set of positions are its first numbers, each taken once.
LEMMA Places ==
    ASSUME NEW F, NEW m \in Nat, F \subseteq 1 .. m
    PROVE  /\ IsFiniteSet(F) /\ Cardinality(F) \in Nat
           /\ \A i \in F : Place(F, i) \in 1 .. Cardinality(F)
           /\ \A i, k \in F : Place(F, i) = Place(F, k) => i = k
           /\ \A n \in 1 .. Cardinality(F) : \E i \in F : Place(F, i) = n
<1> DEFINE Upto(i) == {k \in F : k <= i}
<1>1. IsFiniteSet(F) /\ Cardinality(F) \in Nat
  <2>1. IsFiniteSet(1 .. m)
    BY FS_Interval
  <2> QED
    BY <2>1, FS_Subset, FS_CardinalityType
<1>2. \A i \in F : /\ IsFiniteSet(Upto(i)) /\ Cardinality(Upto(i)) \in 1 .. Cardinality(F)
  <2> SUFFICES ASSUME NEW i \in F
               PROVE  IsFiniteSet(Upto(i)) /\ Cardinality(Upto(i)) \in 1 .. Cardinality(F)
    OBVIOUS
  <2>1. i \in Upto(i) /\ Upto(i) \in SUBSET F
    OBVIOUS
  <2> HIDE DEF Upto
  <2>2. IsFiniteSet(Upto(i)) /\ Cardinality(Upto(i)) <= Cardinality(F)
    BY <1>1, <2>1, FS_Subset
  <2>3. Cardinality(Upto(i)) \in Nat /\ Cardinality(Upto(i)) # 0
    BY <2>1, <2>2, FS_CardinalityType, FS_EmptySet
  <2> QED
    BY <1>1, <2>2, <2>3
<1>3. ASSUME NEW i \in F, NEW k \in F, i < k
      PROVE  Cardinality(Upto(i)) # Cardinality(Upto(k))
  <2>0. i \in Int /\ k \in Int /\ \A x \in F : x \in Int
    OBVIOUS
  <2>1. \A x \in F : x <= i => x <= k
    BY <1>3, <2>0
  <2>2. Upto(i) \subseteq Upto(k)
    BY <2>1
  <2>3. k \in Upto(k) /\ k \notin Upto(i)
    BY <1>3, <2>0
  <2> HIDE DEF Upto
  <2> QED
    BY <1>2, <2>2, <2>3, FS_Subset
<1>4. \A i, k \in F : Cardinality(Upto(i)) = Cardinality(Upto(k)) => i = k
  <2> SUFFICES ASSUME NEW i \in F, NEW k \in F, Cardinality(Upto(i)) = Cardinality(Upto(k))
               PROVE  i = k
    OBVIOUS
  <2> HIDE DEF Upto
  <2>1. ~(i < k) /\ ~(k < i)
    BY <1>3
  <2> QED
    BY <2>1
<1> DEFINE f == [i \in F |-> Cardinality(Upto(i))]
           T == 1 .. Cardinality(F)
<1>5. f \in Surjection(F, T)
  <2>1. f \in [F -> T]
    BY <1>2
  <2>2. f \in Injection(F, T)
    <3> HIDE DEF Upto
    <3>1. \A i, k \in F : f[i] = f[k] => i = k
      BY <1>4
    <3> HIDE DEF f, T
    <3> QED
      BY <2>1, <3>1 DEF Injection, IsInjective
  <2>3. IsFiniteSet(T) /\ Cardinality(T) = Cardinality(F)
    BY <1>1, FS_Interval
  <2> HIDE DEF f, T
  <2> QED
    BY <2>2, <2>3, FS_Injection
<1>6. \A n \in T : \E i \in F : f[i] = n
  <2> HIDE DEF f, T
  <2> QED
    BY <1>5 DEF Surjection
<1>7. \A i \in F : Place(F, i) = Cardinality(Upto(i)) /\ f[i] = Cardinality(Upto(i))
  BY DEF Place
<1> HIDE DEF Upto, f
<1> QED
  BY <1>1, <1>2, <1>4, <1>6, <1>7

\* The new works follow the old ones, each for one address that had no active work.
LEMMA EnqueuedFacts ==
    ASSUME NEW W \in Seq(WorkRec), OneActive(W), NEW r \in Requests,
           NEW V, V = Enqueued(W, r)
    PROVE  /\ V \in Seq(WorkRec) /\ DOMAIN W \subseteq DOMAIN V
           /\ \A w \in DOMAIN W : V[w] = W[w]
           /\ \A w \in DOMAIN V \ DOMAIN W :
                 w > Len(W) /\ \E a \in Addresses : a \in ToSet(r) /\ V[w] = NewWork(a)
           /\ \A a \in ToSet(r) : ActiveWork(V, a) # {}
           /\ OneActive(V)
<1> DEFINE F == Fresh(W, r)
           c == Cardinality(F)
           at(n) == CHOOSE i \in F : Place(F, i) = n
           X == [n \in 1 .. c |-> NewWork(r[at(n)])]
<1>1. r \in Seq(Addresses) /\ \A i, k \in DOMAIN r : r[i] = r[k] => i = k
  BY QueueAssumption DEF IsInjective
<1>2. Len(r) \in Nat /\ DOMAIN r = 1 .. Len(r) /\ \A i \in DOMAIN r : r[i] \in Addresses
  BY <1>1, LenProperties, ElementOfSeq
<1>3. F \subseteq 1 .. Len(r)
  BY <1>2 DEF Fresh
<1> HIDE DEF F
<1>4. /\ c \in Nat
      /\ \A i \in F : Place(F, i) \in 1 .. c
      /\ \A i, k \in F : Place(F, i) = Place(F, k) => i = k
      /\ \A n \in 1 .. c : \E i \in F : Place(F, i) = n
  BY <1>2, <1>3, Places
<1>5. \A n \in 1 .. c : at(n) \in F /\ Place(F, at(n)) = n
  BY <1>4
<1>6. \A i \in F : at(Place(F, i)) = i
  BY <1>4, <1>5
<1> HIDE DEF at, c
<1>7. \A n \in 1 .. c : /\ X[n] = NewWork(r[at(n)]) /\ X[n] \in WorkRec
                        /\ r[at(n)] \in Addresses
  BY <1>2, <1>3, <1>5 DEF NewWork, WorkRec, Active, Idle
<1>8. X \in Seq(WorkRec) /\ Len(X) = c
  <2>1. X = [n \in 1 .. c |-> X[n]]
    OBVIOUS
  <2> HIDE DEF X
  <2> QED
    BY <1>4, <1>7, <2>1, IsASeq, LenProperties
<1>9. V = W \o X
  BY DEF Enqueued, F, c, at
<1> HIDE DEF X
<1>10. /\ Len(W) \in Nat /\ DOMAIN W = 1 .. Len(W)
       /\ \A w \in DOMAIN W : W[w] \in WorkRec /\ W[w].status \in Active \cup Terminal
  BY WorkRows
<1>11. /\ V \in Seq(WorkRec) /\ Len(V) = Len(W) + c /\ DOMAIN V = 1 .. Len(W) + c
       /\ \A w \in 1 .. Len(W) + c : V[w] = IF w <= Len(W) THEN W[w] ELSE X[w - Len(W)]
  <2>1. V \in Seq(WorkRec) /\ Len(V) = Len(W) + Len(X)
    BY <1>8, <1>9, ConcatProperties
  <2>2. \A w \in 1 .. Len(W) + Len(X) : V[w] = IF w <= Len(W) THEN W[w] ELSE X[w - Len(W)]
    BY <1>8, <1>9, ConcatProperties
  <2>3. DOMAIN V = 1 .. Len(V)
    BY <2>1, LenProperties
  <2> QED
    BY <1>8, <2>1, <2>2, <2>3
<1>12. DOMAIN W \subseteq DOMAIN V /\ \A w \in DOMAIN W : V[w] = W[w]
  BY <1>4, <1>10, <1>11
<1>13. \A w \in DOMAIN V \ DOMAIN W :
          /\ w > Len(W) /\ w - Len(W) \in 1 .. c
          /\ V[w] = NewWork(r[at(w - Len(W))])
  BY <1>4, <1>7, <1>10, <1>11
<1>14. \A i \in F : ActiveWork(W, r[i]) = {}
  BY DEF F, Fresh
<1>15. \A a \in ToSet(r) : ActiveWork(V, a) # {}
  <2> SUFFICES ASSUME NEW i \in DOMAIN r PROVE ActiveWork(V, r[i]) # {}
    BY DEF ToSet
  <2>1. CASE i \in F
    <3> DEFINE w == Len(W) + Place(F, i)
    <3>1. w \in DOMAIN V \ DOMAIN W /\ w - Len(W) = Place(F, i)
      BY <1>4, <1>10, <1>11, <2>1
    <3>2. V[w] = NewWork(r[i])
      BY <1>6, <1>13, <2>1, <3>1
    <3> HIDE DEF w
    <3> QED
      BY <3>1, <3>2 DEF ActiveWork, NewWork, Active, Idle
  <2>2. CASE i \notin F
    BY <1>12, <2>2 DEF F, Fresh, ActiveWork
  <2> QED
    BY <2>1, <2>2
<1>16. OneActive(V)
  <2> SUFFICES ASSUME NEW v \in DOMAIN V, NEW w \in DOMAIN V, V[v].addr = V[w].addr,
                      V[v].status \in Active, V[w].status \in Active
               PROVE  v = w
    BY DEF OneActive
  <2>1. CASE v \in DOMAIN W /\ w \in DOMAIN W
    BY <1>12, <2>1 DEF OneActive
  <2>2. ASSUME NEW x \in DOMAIN W, NEW y \in DOMAIN V \ DOMAIN W,
               V[x].addr = V[y].addr, V[x].status \in Active
        PROVE  FALSE
    <3> DEFINE i == at(y - Len(W))
    <3>1. i \in F /\ V[y] = NewWork(r[i])
      BY <1>5, <1>13, <2>2
    <3> HIDE DEF i
    <3>2. x \in ActiveWork(W, r[i])
      BY <1>12, <2>2, <3>1 DEF ActiveWork, NewWork
    <3> QED
      BY <1>14, <3>1, <3>2
  <2>3. CASE v \notin DOMAIN W /\ w \notin DOMAIN W
    <3>1. /\ at(v - Len(W)) \in F /\ at(w - Len(W)) \in F
          /\ V[v] = NewWork(r[at(v - Len(W))]) /\ V[w] = NewWork(r[at(w - Len(W))])
          /\ Place(F, at(v - Len(W))) = v - Len(W) /\ Place(F, at(w - Len(W))) = w - Len(W)
      BY <1>5, <1>13, <2>3
    <3>2. r[at(v - Len(W))] = r[at(w - Len(W))]
      BY <3>1 DEF NewWork
    <3>3. v - Len(W) = w - Len(W)
      BY <1>1, <1>2, <1>3, <3>1, <3>2
    <3> QED
      BY <1>10, <1>11, <3>3
  <2> QED
    BY <2>1, <2>2, <2>3
<1>17. \A w \in DOMAIN V \ DOMAIN W :
          w > Len(W) /\ \E a \in Addresses : a \in ToSet(r) /\ V[w] = NewWork(a)
  BY <1>2, <1>3, <1>5, <1>13 DEF ToSet
<1> QED
  BY <1>11, <1>12, <1>15, <1>16, <1>17

\* The job that an admitted request becomes.
EnqueuedJob(W, r, n) == [status |-> "queued", cancel |-> FALSE, pv |-> n,
                         item |-> [a \in ToSet(r) |-> Subscription(W, a)]]
WithJob(J, j, k) == [J EXCEPT ![j] = [k EXCEPT !.status = JobStatus(k)]]

LEMMA SubscribedItem ==
    ASSUME NEW w \in Nat, NEW s \in Active \cup Terminal
    PROVE  [work |-> w, state |-> s, active |-> TRUE, audits |-> 0] \in ItemRec
  BY DEF ItemRec

LEMMA QueuedJob ==
    ASSUME NEW s \in JobStates, NEW n \in Nat, NEW m \in ItemMaps
    PROVE  [status |-> s, cancel |-> FALSE, pv |-> n, item |-> m] \in JobRec
  BY Zenon DEF JobRec

LEMMA StatusedJob ==
    ASSUME NEW r \in JobRec, NEW s \in JobStates
    PROVE  [r EXCEPT !.status = s] \in JobRec
  BY Zenon DEF JobRec

LEMMA EnqueueKeeps ==
    ASSUME NEW W, NEW J, Coherent(W, J, {}), Unwanted(W, J) = {},
           NEW r \in Requests, NEW n \in Nat, NEW j \in Jobs, J[j].status = "absent"
    PROVE  LET V == Enqueued(W, r)
               K == WithJob(J, j, EnqueuedJob(V, r, n))
           IN  Coherent(V, K, {}) /\ Unwanted(V, K) = {} /\ K[j].status # "absent"
<1> DEFINE V == Enqueued(W, r)
           k == EnqueuedJob(V, r, n)
           K == WithJob(J, j, k)
<1>1. W \in Seq(WorkRec) /\ OneActive(W) /\ J \in [Jobs -> JobRec]
  BY DEF Coherent
<1>2. /\ V \in Seq(WorkRec) /\ DOMAIN W \subseteq DOMAIN V
      /\ \A w \in DOMAIN W : V[w] = W[w]
      /\ \A w \in DOMAIN V \ DOMAIN W :
            w > Len(W) /\ \E a \in Addresses : a \in ToSet(r) /\ V[w] = NewWork(a)
      /\ \A a \in ToSet(r) : ActiveWork(V, a) # {}
      /\ OneActive(V)
  BY <1>1, EnqueuedFacts
<1> HIDE DEF V
<1>3. /\ DOMAIN V \subseteq Nat
      /\ \A w \in DOMAIN V : V[w].status \in Active \cup Terminal
  BY <1>2, WorkRows
<1>4. ToSet(r) \subseteq Addresses
  BY QueueAssumption, ElementOfSeq, LenProperties DEF ToSet
<1> DEFINE sub(a) == CHOOSE w \in ActiveWork(V, a) : TRUE
<1>5. \A a \in ToSet(r) :
         /\ sub(a) \in DOMAIN V /\ V[sub(a)].addr = a /\ V[sub(a)].status \in Active
         /\ Subscription(V, a) = [work |-> sub(a), state |-> V[sub(a)].status,
                                  active |-> TRUE, audits |-> 0]
  <2>1. \A a \in ToSet(r) : sub(a) \in ActiveWork(V, a)
    BY <1>2
  <2> QED
    BY <2>1 DEF ActiveWork, Subscription
<1> HIDE DEF sub
<1> DEFINE m == [a \in ToSet(r) |-> Subscription(V, a)]
<1>6. \A a \in ToSet(r) :
         /\ m[a] \in ItemRec /\ m[a].work = sub(a) /\ m[a].state \in Active
         /\ m[a].active /\ m[a].audits = 0
  <2> SUFFICES ASSUME NEW a \in ToSet(r)
               PROVE  /\ m[a] \in ItemRec /\ m[a].work = sub(a) /\ m[a].state \in Active
                      /\ m[a].active /\ m[a].audits = 0
    OBVIOUS
  <2>1. m[a] = [work |-> sub(a), state |-> V[sub(a)].status, active |-> TRUE, audits |-> 0]
    BY <1>5
  <2>2. [work |-> sub(a), state |-> V[sub(a)].status, active |-> TRUE, audits |-> 0]
           \in ItemRec
    BY <1>3, <1>5, SubscribedItem
  <2> HIDE DEF m
  <2> QED
    BY <1>5, <2>1, <2>2
<1>7. m \in ItemMaps /\ DOMAIN m = ToSet(r)
  <2>1. m \in [ToSet(r) -> ItemRec]
    BY <1>6
  <2> QED
    BY <1>4, <2>1 DEF ItemMaps
<1>8. /\ k = [status |-> "queued", cancel |-> FALSE, pv |-> n, item |-> m]
      /\ k.item = m /\ k.status = "queued"
  BY DEF EnqueuedJob
<1> HIDE DEF m, k
<1> DEFINE s == JobStatus(k)
           q == [k EXCEPT !.status = s]
<1>9. /\ s \in JobStates \ {"absent"}
      /\ s = "completed" => \A a \in DOMAIN k.item : Done(k.item[a])
  BY JobStatusFacts
<1> HIDE DEF s
<1>10. k \in JobRec
  <2>1. "queued" \in JobStates
    BY DEF JobStates
  <2>2. [status |-> "queued", cancel |-> FALSE, pv |-> n, item |-> m] \in JobRec
    BY <1>7, <2>1, QueuedJob
  <2> QED
    BY <1>8, <2>2
<1>11. q \in JobRec
  BY <1>9, <1>10, StatusedJob
<1>12. q.item = m /\ q.status = s
  BY <1>8, <1>10 DEF JobRec
<1>13. /\ K \in [Jobs -> JobRec] /\ K[j] = q
       /\ \A i \in Jobs \ {j} : K[i] = J[i]
  <2>1. K = [J EXCEPT ![j] = q]
    BY DEF s, WithJob
  <2> HIDE DEF q, K
  <2> QED
    BY <1>1, <1>11, <2>1
<1> HIDE DEF q, K
<1>14. JobInv(V, q, {})
  BY <1>5, <1>6, <1>7, <1>8, <1>9, <1>12 DEF JobInv, Done, Active, Idle, Terminal
<1>15. \A i \in Jobs \ {j} : JobInv(V, K[i], {})
  BY <1>2, <1>13 DEF Coherent, JobInv
<1>16. Coherent(V, K, {})
  BY <1>2, <1>13, <1>14, <1>15 DEF Coherent
<1>17. Unwanted(V, K) = {}
  <2> SUFFICES ASSUME NEW w \in DOMAIN V, V[w].status \in Idle, ~V[w].reconcile,
                      ~Subscribed(K, w)
               PROVE  FALSE
    BY DEF Unwanted
  <2>1. CASE w \in DOMAIN W
    <3>1. Subscribed(J, w)
      BY <1>2, <2>1 DEF Unwanted
    <3>2. \A a \in DOMAIN J[j].item : FALSE
      BY DEF Coherent, JobInv
    <3> QED
      BY <1>13, <3>1, <3>2 DEF Subscribed
  <2>2. CASE w \notin DOMAIN W
    <3>1. PICK a \in ToSet(r) : V[w] = NewWork(a)
      BY <1>2, <2>2
    <3>2. V[w].addr = a /\ V[w].status \in Active
      BY <3>1 DEF NewWork, Active, Idle
    <3>3. sub(a) = w
      BY <1>2, <1>5, <3>2 DEF OneActive
    <3> QED
      BY <1>6, <1>7, <1>12, <1>13, <3>3 DEF Subscribed
  <2> QED
    BY <2>1, <2>2
<1> QED
  BY <1>9, <1>12, <1>13, <1>16, <1>17 DEF V, k, K

-----------------------------------------------------------------------------
(* The other transactions.                                                 *)
LEMMA SavedRow ==
    ASSUME NEW w \in WorkRec, NEW s \in Active \cup Terminal, NEW t \in Nat,
           NEW b \in BOOLEAN, NEW d \in BOOLEAN
    PROVE  [w EXCEPT !.status = s, !.reconcile = b, !.due = d, !.token = t] \in WorkRec
  BY Zenon DEF WorkRec

LEMMA ClaimedRow ==
    ASSUME NEW w \in WorkRec, NEW s \in Active \cup Terminal, NEW t \in Nat
    PROVE  [w EXCEPT !.status = s, !.token = t] \in WorkRec
  BY Zenon DEF WorkRec

LEMMA DueRow ==
    ASSUME NEW w \in WorkRec
    PROVE  [w EXCEPT !.due = TRUE] \in WorkRec
  BY Zenon DEF WorkRec

LEMMA RecoveredRow ==
    ASSUME NEW w \in WorkRec, NEW s \in Active \cup Terminal, NEW t \in Nat
    PROVE  [w EXCEPT !.status = s, !.token = t, !.reconcile = TRUE, !.due = TRUE] \in WorkRec
  BY Zenon DEF WorkRec

\* The row a worker saves: its result, or cancelled when nobody waits for it any more.
LEMMA SavedWorkFacts ==
    ASSUME NEW w \in WorkRec, NEW wk, wk.status \in Active \cup Terminal, wk.again \in BOOLEAN,
           NEW wanted, NEW n, n = SavedWork(w, wk, wanted)
    PROVE  /\ n \in WorkRec /\ n.addr = w.addr /\ (n.status \in Terminal => n.due)
           /\ \/ ~wanted /\ wk.status \notin Terminal /\ ~wk.again /\ n.status = "cancelled"
              \/ /\ wanted \/ wk.status \in Terminal \/ wk.again
                 /\ n.status = wk.status /\ n.reconcile = wk.again
<1>1. CASE ~wanted /\ wk.status \notin Terminal /\ ~wk.again
  <2>1. n = Cancelled(w)
    BY <1>1 DEF SavedWork
  <2> QED
    BY <1>1, <2>1, CancelledWork
<1>2. CASE ~(~wanted /\ wk.status \notin Terminal /\ ~wk.again)
  <2> DEFINE d == wk.status \notin {"waiting", "paused"}
             s == wk.status
             b == wk.again
  <2>1. n = [w EXCEPT !.status = s, !.reconcile = b, !.due = d, !.token = 0]
    BY <1>2 DEF SavedWork
  <2>2. d \in BOOLEAN
    BY Zenon
  <2>3. s \in Active \cup Terminal /\ b \in BOOLEAN
    OBVIOUS
  <2> HIDE DEF d, s, b
  <2>4. n \in WorkRec
    <3>1. [w EXCEPT !.status = s, !.reconcile = b, !.due = d, !.token = 0] \in WorkRec
      BY <2>2, <2>3, SavedRow
    <3> QED
      BY <2>1, <3>1
  <2>5. n.addr = w.addr /\ n.status = s /\ n.reconcile = b /\ n.due = d
    BY <2>1 DEF WorkRec
  <2>6. s \in Terminal => d
    BY DEF Terminal, s, d
  <2> QED
    BY <1>2, <2>4, <2>5, <2>6 DEF s, b
<1> QED
  BY <1>1, <1>2

LEMMA SaveKeeps ==
    ASSUME Coherent(work, job, {}), NEW wk, wk.work \in DOMAIN work,
           work[wk.work].status = "running",
           wk.status \in (Active \cup Terminal) \ {"running"}, wk.again \in BOOLEAN
    PROVE  LET T == SaveTx(wk)
               n == T.work[wk.work]
           IN  /\ Coherent(T.work, T.job, {}) /\ Evolved(job, T.job)
               /\ Unwanted(T.work, T.job) = {}
               /\ DOMAIN T.work = DOMAIN work /\ n.addr = work[wk.work].addr
               /\ n.status \in Terminal => n.due
               /\ \/ wk.status \notin Terminal /\ ~wk.again /\ n.status = "cancelled"
                  \/ n.status = wk.status /\ n.reconcile = wk.again
               /\ Pruned(work, T.work, {wk.work})
<1> DEFINE P == Prune(work, job)
           x == wk.work
           wanted == Wanted(P.job, wk.work)
           n == SavedWork(P.work[x], wk, wanted)
           V == [P.work EXCEPT ![x] = n]
           K == Publish(V, P.job, {x})
           T == SaveTx(wk)
<1>1. /\ Coherent(P.work, P.job, {}) /\ Evolved(job, P.job)
      /\ Unwanted(P.work, P.job) = {} /\ Pruned(work, P.work, {})
  BY PruneKeeps
<1>2. T.work = V /\ T.job = K
  BY DEF SaveTx
<1>3. wanted => Subscribed(P.job, x)
  BY DEF Wanted, Subscribed
<1> HIDE DEF P, T, K, wanted, x
<1>4. /\ Len(P.work) \in Nat /\ DOMAIN P.work = 1 .. Len(P.work)
      /\ \A w \in DOMAIN P.work : P.work[w] \in WorkRec
      /\ P.work \in Seq(WorkRec)
  BY <1>1, WorkRows DEF Coherent
<1>5. x \in DOMAIN P.work /\ P.work[x] = work[x] /\ DOMAIN P.work = DOMAIN work
  BY <1>1 DEF Pruned, RowPruned, Idle, x
<1>6. /\ n \in WorkRec /\ n.addr = work[x].addr /\ (n.status \in Terminal => n.due)
      /\ \/ ~wanted /\ wk.status \notin Terminal /\ ~wk.again /\ n.status = "cancelled"
         \/ /\ wanted \/ wk.status \in Terminal \/ wk.again
            /\ n.status = wk.status /\ n.reconcile = wk.again
  <2> HIDE DEF n
  <2>1. n = SavedWork(P.work[x], wk, wanted)
    BY DEF n
  <2> QED
    BY <1>4, <1>5, <2>1, SavedWorkFacts
<1> HIDE DEF n
<1>7. /\ V[x] = n /\ DOMAIN V = DOMAIN P.work
      /\ \A w \in DOMAIN P.work \ {x} : V[w] = P.work[w]
  BY <1>5
<1>8. V \in Seq(WorkRec)
  BY <1>4, <1>5, <1>6, ExceptSeq
<1> HIDE DEF V
<1>9. Coherent(V, P.job, {x})
  <2>1. P.work[x].status \in Active
    BY <1>5 DEF Active, x
  <2>2. \A w \in DOMAIN P.work :
           /\ V[w].addr = P.work[w].addr
           /\ V[w].status \in Active => P.work[w].status \in Active
           /\ w \notin {x} => V[w].status = P.work[w].status
    BY <1>5, <1>6, <1>7, <2>1
  <2> QED
    BY <1>1, <1>7, <1>8, <2>2, ChangedWorks
<1>10. /\ Coherent(V, K, {}) /\ Evolved(P.job, K)
       /\ \A w \in DOMAIN V : V[w].status \notin Terminal =>
             (Subscribed(K, w) <=> Subscribed(P.job, w))
  BY <1>9, PublishKeeps DEF K
<1>11. Evolved(job, K)
  BY <1>1, <1>10, EvolvedTransitive
<1>12. Unwanted(V, K) = {}
  <2> SUFFICES ASSUME NEW w \in DOMAIN V, V[w].status \in Idle, ~V[w].reconcile,
                      ~Subscribed(K, w)
               PROVE  FALSE
    BY DEF Unwanted
  <2>1. ~Subscribed(P.job, w)
    BY <1>10 DEF Idle, Terminal
  <2>2. CASE w = x
    BY <1>3, <1>6, <1>7, <2>1, <2>2 DEF Idle, Terminal
  <2>3. CASE w # x
    BY <1>1, <1>7, <2>1, <2>3 DEF Unwanted
  <2> QED
    BY <2>2, <2>3
<1>13. Pruned(work, V, {x})
  BY <1>1, <1>5, <1>7, <1>8 DEF Pruned
<1> QED
  BY <1>2, <1>5, <1>6, <1>7, <1>10, <1>11, <1>12, <1>13 DEF T, x

\* The rows after a claim and after the time of a work has come.
Claimed(W, w, t) == [W EXCEPT ![w].status = "running", ![w].token = t]
Elapsed(W, w) == [W EXCEPT ![w].due = TRUE]

LEMMA ClaimKeeps ==
    ASSUME Coherent(work, job, {}), NEW w \in DOMAIN work, NEW t \in Nat,
           QueueHead(Prune(work, job).work, w)
    PROVE  LET W == Prune(work, job).work
               V == Claimed(W, w, t)
               K == Publish(V, Prune(work, job).job, {w})
           IN  /\ Coherent(V, K, {}) /\ Evolved(job, K) /\ Unwanted(V, K) = {}
               /\ Pruned(work, W, {}) /\ Pruned(work, V, {w})
               /\ work[w].status \in Idle /\ W[w] = work[w]
               /\ V[w].addr = work[w].addr /\ V[w].reconcile = work[w].reconcile
               /\ V[w].status = "running" /\ V[w].token = t
<1> DEFINE W == Prune(work, job).work
           J == Prune(work, job).job
           V == Claimed(W, w, t)
           K == Publish(V, J, {w})
           n == [W[w] EXCEPT !.status = "running", !.token = t]
<1>0. QueueHead(W, w)
  OBVIOUS
<1>1. /\ Coherent(W, J, {}) /\ Evolved(job, J)
      /\ Unwanted(W, J) = {} /\ Pruned(work, W, {})
  BY PruneKeeps
<1> HIDE DEF W, J
<1>2. /\ Len(W) \in Nat /\ DOMAIN W = 1 .. Len(W)
      /\ \A x \in DOMAIN W : W[x] \in WorkRec
      /\ W \in Seq(WorkRec)
  BY <1>1, WorkRows DEF Coherent
<1>3. DOMAIN W = DOMAIN work /\ W[w].status \in Idle
  BY <1>0, <1>1 DEF Pruned, QueueHead
<1>4. W[w] = work[w]
  <2>1. work[w] \in WorkRec
    BY WorkRows DEF Coherent
  <2>2. Cancelled(work[w]).status \notin Idle
    BY <2>1, CancelledWork DEF Idle
  <2> QED
    BY <1>1, <1>3, <2>2 DEF Pruned, RowPruned
<1>5. n \in WorkRec
  <2>1. "running" \in Active \cup Terminal
    BY DEF Active
  <2>2. W[w] \in WorkRec
    BY <1>2, <1>3
  <2> QED
    BY <2>1, <2>2, ClaimedRow
<1>6. /\ n.addr = work[w].addr /\ n.reconcile = work[w].reconcile
      /\ n.status = "running" /\ n.token = t
  BY <1>2, <1>3, <1>4 DEF WorkRec
<1>7. V = [W EXCEPT ![w] = n]
  BY DEF Claimed
<1> HIDE DEF n, K, V
<1>8. V \in Seq(WorkRec)
  BY <1>2, <1>3, <1>5, <1>7, ExceptSeq
<1>9. V[w] = n /\ DOMAIN V = DOMAIN W /\ \A x \in DOMAIN W \ {w} : V[x] = W[x]
  BY <1>3, <1>7
<1>10. Coherent(V, J, {w})
  <2>1. \A x \in DOMAIN W :
           /\ V[x].addr = W[x].addr
           /\ V[x].status \in Active => W[x].status \in Active
           /\ x \notin {w} => V[x].status = W[x].status
    BY <1>3, <1>4, <1>6, <1>9 DEF Active
  <2> QED
    BY <1>1, <1>8, <1>9, <2>1, ChangedWorks
<1>11. /\ Coherent(V, K, {}) /\ Evolved(J, K)
       /\ \A x \in DOMAIN V : V[x].status \notin Terminal =>
             (Subscribed(K, x) <=> Subscribed(J, x))
  BY <1>10, PublishKeeps DEF K
<1>12. Evolved(job, K)
  BY <1>1, <1>11, EvolvedTransitive
<1>13. Unwanted(V, K) = {}
  <2> SUFFICES ASSUME NEW x \in DOMAIN V, V[x].status \in Idle, ~V[x].reconcile,
                      ~Subscribed(K, x)
               PROVE  FALSE
    BY DEF Unwanted
  <2>1. ~Subscribed(J, x) /\ x # w
    BY <1>6, <1>9, <1>11 DEF Idle, Terminal
  <2> QED
    BY <1>1, <1>9, <2>1 DEF Unwanted
<1>14. Pruned(work, V, {w})
  BY <1>1, <1>3, <1>8, <1>9 DEF Pruned
<1> QED
  BY <1>1, <1>3, <1>4, <1>6, <1>9, <1>11, <1>12, <1>13, <1>14 DEF K, V, W, J

LEMMA ElapseKeeps ==
    ASSUME Coherent(work, job, {}), Unwanted(work, job) = {}, NEW w \in DOMAIN work
    PROVE  LET V == Elapsed(work, w)
           IN  /\ Coherent(V, job, {}) /\ Unwanted(V, job) = {}
               /\ DOMAIN V = DOMAIN work
               /\ \A x \in DOMAIN work :
                     /\ V[x].addr = work[x].addr /\ V[x].status = work[x].status
                     /\ V[x].token = work[x].token /\ V[x].reconcile = work[x].reconcile
                     /\ x # w => V[x] = work[x]
<1> DEFINE V == Elapsed(work, w)
           n == [work[w] EXCEPT !.due = TRUE]
<1>1. /\ Len(work) \in Nat /\ DOMAIN work = 1 .. Len(work) /\ work \in Seq(WorkRec)
      /\ work[w] \in WorkRec
  BY WorkRows DEF Coherent
<1>2. n \in WorkRec
  BY <1>1, DueRow
<1>3. /\ n.addr = work[w].addr /\ n.status = work[w].status
      /\ n.token = work[w].token /\ n.reconcile = work[w].reconcile
  BY <1>1 DEF WorkRec
<1>4. V = [work EXCEPT ![w] = n]
  BY DEF Elapsed
<1> HIDE DEF n, V
<1>5. V \in Seq(WorkRec)
  <2>1. w \in 1 .. Len(work)
    BY <1>1
  <2>2. [work EXCEPT ![w] = n] \in Seq(WorkRec)
    BY <1>1, <1>2, <2>1, ExceptSeq
  <2> QED
    BY <1>4, <2>2
<1>6. V[w] = n /\ DOMAIN V = DOMAIN work /\ \A x \in DOMAIN work \ {w} : V[x] = work[x]
  BY <1>4
<1>7. \A x \in DOMAIN work :
         /\ V[x].addr = work[x].addr /\ V[x].status = work[x].status
         /\ V[x].token = work[x].token /\ V[x].reconcile = work[x].reconcile
         /\ x # w => V[x] = work[x]
  BY <1>3, <1>6
<1>8. Coherent(V, job, {})
  BY <1>5, <1>6, <1>7, ChangedWorks
<1>9. Unwanted(V, job) = {}
  BY <1>6, <1>7 DEF Unwanted
<1> QED
  BY <1>6, <1>7, <1>8, <1>9 DEF V

LEMMA CancelJobKeeps ==
    ASSUME Coherent(work, job, {}), NEW j \in Jobs, job[j].status \in {"queued", "running"}
    PROVE  LET T == CancelUnwanted(work, CancelJobs(work, job, {j}, FALSE))
           IN  /\ Coherent(T.work, T.job, {}) /\ Evolved(job, T.job)
               /\ Unwanted(T.work, T.job) = {} /\ Pruned(work, T.work, {})
<1> DEFINE K == CancelJobs(work, job, {j}, FALSE)
<1>1. Coherent(work, K, {}) /\ Evolved(job, K)
  <2>1. \A i \in Jobs \cap {j} : job[i].status \in {"queued", "running"}
    OBVIOUS
  <2> QED
    BY <2>1, CancelJobsKeeps
<1> HIDE DEF K
<1>2. LET T == CancelUnwanted(work, K)
      IN  /\ Coherent(T.work, T.job, {}) /\ Evolved(job, T.job)
          /\ Unwanted(T.work, T.job) = {} /\ Pruned(work, T.work, {})
  BY <1>1, CancelUnwantedKeeps, EvolvedTransitive
<1> QED
  BY <1>2 DEF K

\* Recovery leaves no work running; those that ran have to be reconciled.
LEMMA RecoveredFacts ==
    ASSUME NEW W \in Seq(WorkRec), NEW V, V = RecoveredWork(W)
    PROVE  /\ V \in Seq(WorkRec) /\ DOMAIN V = DOMAIN W
           /\ \A w \in DOMAIN W :
                 /\ V[w].addr = W[w].addr
                 /\ W[w].status # "running" => V[w] = W[w]
                 /\ W[w].status = "running" => V[w].status = "pending" /\ V[w].reconcile
<1>1. /\ Len(W) \in Nat /\ DOMAIN W = 1 .. Len(W)
      /\ \A w \in DOMAIN W : W[w] \in WorkRec
  BY WorkRows
<1>2. /\ DOMAIN V = DOMAIN W
      /\ \A w \in DOMAIN W :
            V[w] = IF W[w].status = "running"
                   THEN [W[w] EXCEPT !.status = "pending", !.token = 0,
                                     !.reconcile = TRUE, !.due = TRUE]
                   ELSE W[w]
  BY DEF RecoveredWork
<1>3. V = [w \in 1 .. Len(W) |-> V[w]]
  BY <1>1 DEF RecoveredWork
<1>4. ASSUME NEW w \in DOMAIN W
      PROVE  /\ V[w] \in WorkRec /\ V[w].addr = W[w].addr
             /\ W[w].status # "running" => V[w] = W[w]
             /\ W[w].status = "running" => V[w].status = "pending" /\ V[w].reconcile
  <2>1. CASE W[w].status = "running"
    <3>1. V[w] = [W[w] EXCEPT !.status = "pending", !.token = 0,
                              !.reconcile = TRUE, !.due = TRUE]
      BY <1>2, <2>1
    <3>2. V[w] \in WorkRec
      <4>1. "pending" \in Active \cup Terminal /\ 0 \in Nat /\ W[w] \in WorkRec
        BY <1>1 DEF Active, Idle
      <4>2. [W[w] EXCEPT !.status = "pending", !.token = 0,
                         !.reconcile = TRUE, !.due = TRUE] \in WorkRec
        BY <4>1, RecoveredRow
      <4> QED
        BY <3>1, <4>2
    <3> QED
      BY <1>1, <2>1, <3>1, <3>2 DEF WorkRec
  <2>2. CASE W[w].status # "running"
    BY <1>1, <1>2, <2>2
  <2> QED
    BY <2>1, <2>2
<1>5. V \in Seq(WorkRec)
  BY <1>1, <1>3, <1>4, TableOf
<1> QED
  BY <1>2, <1>4, <1>5

\* The jobs that an older release left are interrupted, before they are told of recovery.
LEMMA LegacyEnds ==
    ASSUME Coherent(work, job, {}), NEW W, W = RecoveredWork(work),
           NEW J, J = [j \in Jobs |-> IF job[j].pv = 0 /\ job[j].status \in {"queued", "running"}
                                      THEN [job[j] EXCEPT !.status = "interrupted"] ELSE job[j]],
           NEW S, S = {w \in DOMAIN W : work[w].status = "running"}
    PROVE  /\ Coherent(W, J, S) /\ Evolved(job, J)
           /\ \A j \in Jobs : /\ J[j].item = job[j].item /\ J[j].cancel = job[j].cancel
                             /\ J[j].pv = job[j].pv
                             /\ J[j].status \in {job[j].status, "interrupted"}
                             /\ J[j].status = "interrupted" =>
                                   job[j].status = "interrupted" \/ job[j].pv = 0
<1>1. work \in Seq(WorkRec) /\ job \in [Jobs -> JobRec]
  BY DEF Coherent
<1>2. /\ W \in Seq(WorkRec) /\ DOMAIN W = DOMAIN work
      /\ \A w \in DOMAIN work :
            /\ W[w].addr = work[w].addr
            /\ work[w].status # "running" => W[w] = work[w]
            /\ work[w].status = "running" => W[w].status = "pending" /\ W[w].reconcile
  BY <1>1, RecoveredFacts
<1>3. Coherent(W, job, S)
  <2>1. \A w \in DOMAIN work :
           /\ W[w].addr = work[w].addr
           /\ W[w].status \in Active => work[w].status \in Active
           /\ w \notin S => W[w].status = work[w].status
    BY <1>2 DEF Active
  <2> QED
    BY <1>2, <2>1, ChangedWorks
<1>4. ASSUME NEW j \in Jobs
      PROVE  /\ J[j] \in JobRec /\ JobInv(W, J[j], S) /\ JobEvolves(job[j], J[j])
             /\ J[j].item = job[j].item /\ J[j].cancel = job[j].cancel
             /\ J[j].pv = job[j].pv /\ J[j].status \in {job[j].status, "interrupted"}
             /\ J[j].status = "interrupted" => job[j].status = "interrupted" \/ job[j].pv = 0
  <2>1. job[j] \in JobRec /\ JobInv(W, job[j], S)
    BY <1>1, <1>3 DEF Coherent
  <2>2. CASE job[j].pv = 0 /\ job[j].status \in {"queued", "running"}
    <3>1. J[j] = [job[j] EXCEPT !.status = "interrupted"]
      BY <2>2
    <3>2. J[j] \in JobRec
      <4>1. "interrupted" \in JobStates
        BY DEF JobStates
      <4>2. [job[j] EXCEPT !.status = "interrupted"] \in JobRec
        BY <2>1, <4>1, StatusedJob
      <4> QED
        BY <3>1, <4>2
    <3>3. /\ J[j].status = "interrupted" /\ J[j].item = job[j].item
          /\ J[j].cancel = job[j].cancel /\ J[j].pv = job[j].pv
      BY <2>1, <3>1 DEF JobRec
    <3> QED
      BY <2>1, <2>2, <3>2, <3>3 DEF JobInv, JobEvolves
  <2>3. CASE ~(job[j].pv = 0 /\ job[j].status \in {"queued", "running"})
    BY <2>1, <2>3 DEF JobEvolves
  <2> QED
    BY <2>2, <2>3
<1>5. Coherent(W, J, S) /\ Evolved(job, J)
  <2>1. J = [j \in Jobs |-> J[j]]
    OBVIOUS
  <2> QED
    BY <1>3, <1>4, <2>1 DEF Coherent, Evolved
<1> QED
  BY <1>4, <1>5

LEMMA StartKeeps ==
    ASSUME Coherent(work, job, {}), NEW W, W = RecoveredWork(work),
           NEW J, J = [j \in Jobs |-> IF job[j].pv = 0 /\ job[j].status \in {"queued", "running"}
                                      THEN [job[j] EXCEPT !.status = "interrupted"] ELSE job[j]]
    PROVE  LET T == Prune(W, Publish(W, J, {w \in DOMAIN W : work[w].status = "running"}))
           IN  /\ Coherent(T.work, T.job, {}) /\ Evolved(job, T.job)
               /\ Unwanted(T.work, T.job) = {} /\ Pruned(W, T.work, {})
<1> DEFINE S == {w \in DOMAIN W : work[w].status = "running"}
           K == Publish(W, J, S)
<1>1. Coherent(W, J, S) /\ Evolved(job, J)
  <2> HIDE DEF S
  <2> QED
    BY LegacyEnds DEF S
<1>2. Coherent(W, K, {}) /\ Evolved(J, K)
  <2> HIDE DEF S
  <2> QED
    BY <1>1, PublishKeeps
<1> HIDE DEF K
<1>3. LET T == Prune(W, K)
      IN  /\ Coherent(T.work, T.job, {}) /\ Evolved(K, T.job)
          /\ Unwanted(T.work, T.job) = {} /\ Pruned(W, T.work, {})
  BY <1>2, PruneKeeps
<1>4. Evolved(job, Prune(W, K).job)
  BY <1>1, <1>2, <1>3, EvolvedTransitive
<1> QED
  BY <1>3, <1>4 DEF K, S

-----------------------------------------------------------------------------
(* The inductive invariant.  A worker has claimed the row that it works on *)
(* (WorkerInv); what it is about to save, or a dead process may still save,*)
(* can be relied on (ResultInv); rows are closed only for a reason         *)
(* (RowsInv).                                                              *)
Steps == {"none", "start", "read", "deactivate", "deactivating", "deactivated",
          "delete", "deleting", "sent", "canceled", "save"}
\* Between the read of the directory and the delete nothing is unread for the address.
Afresh == {"deactivate", "deactivating", "deactivated", "delete", "deleting", "canceled"}
WorkerRec == [step : Steps, work : Nat, token : Nat, reconcile : BOOLEAN, mut : BOOLEAN,
              status : Active \cup Terminal, again : BOOLEAN]

RuntimeType ==
    /\ worker \in [Subjects -> WorkerRec] /\ late \subseteq WorkerRec
    /\ tokens \in Nat /\ pv \in [Admins -> Nat]
    /\ remote \in [Addresses -> {"active", "inactive", "gone"}]
    /\ admitted \subseteq [job : Jobs, request : Requests, pv : Nat]

\* In these R is Apple's directory and U the works with an unread outcome.
ResultInv(wk, W, R, U) ==
    /\ wk.work \in DOMAIN W
    /\ wk.status # "running"
    /\ wk.status = "succeeded" => R[W[wk.work].addr] = "gone"
    /\ wk.work \in U => wk.status # "cancelled" /\ (wk.status \notin Terminal => wk.again)

WorkerInv(wk, s, W, R, U) ==
    /\ wk.work \in DOMAIN W /\ Subject(W[wk.work]) = s
    /\ W[wk.work].status = "running" /\ W[wk.work].token = wk.token
    /\ wk.step \in {"start", "read"} /\ wk.work \in U => wk.reconcile
    /\ wk.step \in Afresh =>
          \A w \in U : W[w].addr # W[wk.work].addr
    /\ wk.step = "sent" => wk.mut
    /\ wk.step = "save" => ResultInv(wk, W, R, U)

\* The running work is the oldest active one of its subject.
Ordered(W) == \A e, w \in DOMAIN W :
    W[w].status = "running" /\ e < w /\ Subject(W[e]) = Subject(W[w]) => W[e].status \notin Active

RowsInv(W, R, U) ==
    /\ U \subseteq DOMAIN W
    /\ \A w \in U : W[w].status # "cancelled" /\ (W[w].status \in Idle => W[w].reconcile)
    /\ \A w \in DOMAIN W :
          /\ W[w].status = "succeeded" => R[W[w].addr] = "gone"
          /\ W[w].status \in Terminal => W[w].due
    /\ Ordered(W)

TablesInv == Coherent(work, job, {}) /\ Unwanted(work, job) = {}
Exclusive ==
    /\ proc = "down" \/ rotating => \A s \in Subjects : Free(s)
    /\ proc # "down" => late = {}
AdmittedInv == \A q \in admitted : job[q.job].status = "absent"
WorkersInv == \A s \in Subjects : Free(s) \/ WorkerInv(worker[s], s, work, remote, unread)
LateInv == \A wk \in late : ResultInv(wk, work, remote, unread)
LocalInv == \A a \in Addresses \ local : remote[a] = "gone"

IInv ==
    /\ TablesInv /\ RuntimeType /\ Exclusive /\ AdmittedInv
    /\ WorkersInv /\ LateInv /\ RowsInv(work, remote, unread) /\ LocalInv

-----------------------------------------------------------------------------
(* How the invariant's parts move from one state of the tables to another. *)
LEMMA PrunedRows ==
    ASSUME NEW W \in Seq(WorkRec), NEW V, NEW X, Pruned(W, V, X)
    PROVE  \A w \in DOMAIN W \ X :
              /\ V[w].addr = W[w].addr
              /\ \/ V[w] = W[w]
                 \/ /\ W[w].status \in Idle /\ ~W[w].reconcile
                    /\ V[w].status = "cancelled" /\ V[w].due
<1> SUFFICES ASSUME NEW w \in DOMAIN W \ X
             PROVE  /\ V[w].addr = W[w].addr
                    /\ \/ V[w] = W[w]
                       \/ /\ W[w].status \in Idle /\ ~W[w].reconcile
                          /\ V[w].status = "cancelled" /\ V[w].due
  OBVIOUS
<1>1. W[w] \in WorkRec
  BY WorkRows
<1>2. RowPruned(W[w], V[w])
  BY DEF Pruned
<1> QED
  BY <1>1, <1>2, CancelledWork DEF RowPruned

LEMMA RowsMove ==
    ASSUME NEW W \in Seq(WorkRec), NEW V, NEW X \in SUBSET DOMAIN W, Pruned(W, V, X),
           NEW R, NEW U, RowsInv(W, R, U), NEW Q, NEW Y,
           \A a \in Addresses : R[a] = "gone" => Q[a] = "gone",
           \A w \in Y : w \in U \/ (w \in DOMAIN W /\ W[w].status = "running"),
           \A x \in X :
              /\ V[x].addr = W[x].addr /\ W[x].status \in Active
              /\ V[x].status = "running" =>
                    \/ W[x].status = "running"
                    \/ \A e \in DOMAIN W : e < x /\ Subject(V[e]) = Subject(V[x])
                                              => V[e].status \notin Active
              /\ V[x].status = "succeeded" => Q[V[x].addr] = "gone"
              /\ V[x].status \in Terminal => V[x].due
              /\ x \in Y => V[x].status # "cancelled" /\ (V[x].status \in Idle => V[x].reconcile)
    PROVE  RowsInv(V, Q, Y)
<1>1. /\ Len(W) \in Nat /\ DOMAIN W = 1 .. Len(W)
      /\ \A w \in DOMAIN W : W[w] \in WorkRec
  BY WorkRows
<1>2. \A w \in DOMAIN W \ X :
         /\ V[w].addr = W[w].addr
         /\ \/ V[w] = W[w]
            \/ /\ W[w].status \in Idle /\ ~W[w].reconcile
               /\ V[w].status = "cancelled" /\ V[w].due
  BY PrunedRows
<1>3. DOMAIN V = DOMAIN W /\ \A w \in DOMAIN W : V[w].addr = W[w].addr
  BY <1>2 DEF Pruned
<1>4. \A w \in DOMAIN W : W[w].addr \in Addresses
  BY <1>1 DEF WorkRec
<1>5. Y \subseteq DOMAIN V
  BY <1>3 DEF RowsInv
<1>6. ASSUME NEW w \in Y
      PROVE  V[w].status # "cancelled" /\ (V[w].status \in Idle => V[w].reconcile)
  <2>1. CASE w \in X
    BY <2>1
  <2>2. CASE w \notin X
    BY <1>2, <1>3, <1>5, <2>2 DEF RowsInv, Idle
  <2> QED
    BY <2>1, <2>2
<1>7. ASSUME NEW w \in DOMAIN V
      PROVE  /\ V[w].status = "succeeded" => Q[V[w].addr] = "gone"
             /\ V[w].status \in Terminal => V[w].due
  <2>1. CASE w \in X
    BY <2>1
  <2>2. CASE w \notin X
    BY <1>2, <1>3, <1>4, <2>2 DEF RowsInv
  <2> QED
    BY <2>1, <2>2
<1>8. \A w \in DOMAIN W : V[w].status \in Active => W[w].status \in Active
  BY <1>2 DEF Active, Idle
<1>9. Ordered(V)
  <2> SUFFICES ASSUME NEW e \in DOMAIN W, NEW w \in DOMAIN W, V[w].status = "running", e < w,
                      Subject(V[e]) = Subject(V[w]), V[e].status \in Active
               PROVE  FALSE
    BY <1>3 DEF Ordered
  <2>1. W[w].status # "running"
    BY <1>3, <1>8 DEF RowsInv, Ordered, Subject
  <2>2. w \in X
    BY <1>2, <2>1 DEF Idle
  <2> QED
    BY <2>1, <2>2
<1> QED
  BY <1>5, <1>6, <1>7, <1>9 DEF RowsInv

LEMMA ResultMoves ==
    ASSUME NEW wk, NEW W, NEW R, NEW U, ResultInv(wk, W, R, U), NEW V, NEW Q, NEW Y,
           wk.work \in DOMAIN V, V[wk.work].addr = W[wk.work].addr, W[wk.work].addr \in Addresses,
           \A a \in Addresses : R[a] = "gone" => Q[a] = "gone",
           wk.work \in Y => wk.work \in U
    PROVE  ResultInv(wk, V, Q, Y)
  BY DEF ResultInv

LEMMA WorkerMoves ==
    ASSUME NEW wk, NEW s, NEW W, NEW R, NEW U, WorkerInv(wk, s, W, R, U), U \subseteq DOMAIN W,
           NEW V, NEW Q, NEW Y, DOMAIN W \subseteq DOMAIN V,
           \A w \in DOMAIN W : V[w].addr = W[w].addr /\ W[w].addr \in Addresses,
           V[wk.work].status = "running", V[wk.work].token = W[wk.work].token,
           \A a \in Addresses : R[a] = "gone" => Q[a] = "gone",
           \A w \in Y : w \in U \/ (w \in DOMAIN W /\ Subject(W[w]) # s)
    PROVE  WorkerInv(wk, s, V, Q, Y)
<1>1. /\ wk.work \in DOMAIN W /\ Subject(W[wk.work]) = s
      /\ wk.work \in DOMAIN V /\ V[wk.work].addr = W[wk.work].addr
  BY DEF WorkerInv
<1>2. Subject(V[wk.work]) = s
  BY <1>1 DEF Subject
<1>3. wk.work \in Y => wk.work \in U
  BY <1>1
<1>4. ASSUME wk.step \in Afresh, NEW w \in Y
      PROVE  V[w].addr # V[wk.work].addr
  <2>1. CASE w \in U
    BY <1>1, <1>4, <2>1 DEF WorkerInv
  <2>2. CASE w \in DOMAIN W /\ Subject(W[w]) # s
    BY <1>1, <2>2 DEF Subject
  <2> QED
    BY <2>1, <2>2
<1>5. wk.step = "save" => ResultInv(wk, V, Q, Y)
  <2> SUFFICES ASSUME wk.step = "save" PROVE ResultInv(wk, V, Q, Y)
    OBVIOUS
  <2>1. ResultInv(wk, W, R, U)
    BY DEF WorkerInv
  <2> QED
    BY <1>1, <1>3, <2>1, ResultMoves
<1>6. /\ wk.step \in {"start", "read"} /\ wk.work \in Y => wk.reconcile
      /\ wk.step = "sent" => wk.mut
      /\ V[wk.work].token = wk.token
  BY <1>3 DEF WorkerInv
<1> QED
  BY <1>1, <1>2, <1>4, <1>5, <1>6 DEF WorkerInv

-----------------------------------------------------------------------------
(* The attempt of a worker.                                                *)

LEMMA ResultRec ==
    ASSUME NEW wk \in WorkerRec, NEW p \in Steps, NEW s \in Active \cup Terminal,
           NEW b \in BOOLEAN
    PROVE  [wk EXCEPT !.step = p, !.status = s, !.again = b] \in WorkerRec
  BY Zenon DEF WorkerRec

LEMMA StepRec ==
    ASSUME NEW wk \in WorkerRec, NEW p \in Steps
    PROVE  [wk EXCEPT !.step = p] \in WorkerRec
  BY Zenon DEF WorkerRec

LEMMA MutRec ==
    ASSUME NEW wk \in WorkerRec, NEW p \in Steps
    PROVE  [wk EXCEPT !.step = p, !.mut = TRUE] \in WorkerRec
  BY Zenon DEF WorkerRec

\* The worker of s goes on with its work, in a state that its row and Apple bear out.
Made(s) == \E wk \in WorkerRec :
    /\ worker' = [worker EXCEPT ![s] = wk]
    /\ wk.step # "none" /\ WorkerInv(wk, s, work', remote', unread')

\* What holds of every step of an attempt, before its result is looked at.
Attempts(s) ==
    /\ worker \in [Subjects -> WorkerRec]
    /\ WorkerInv(worker[s], s, work, remote, unread)
    /\ work \in Seq(WorkRec) /\ Pruned(work, work', {})
    /\ unread' \subseteq DOMAIN work

LEMMA AttemptRow ==
    ASSUME NEW s \in Subjects, Attempts(s)
    PROVE  LET x == worker[s].work
           IN  /\ x \in DOMAIN work /\ x \in DOMAIN work' /\ work'[x] = work[x]
               /\ Subject(work[x]) = s /\ work[x].status = "running"
               /\ work[x].token = worker[s].token /\ work[x].addr = Addr(s)
               /\ \A w \in DOMAIN work : work'[w].addr = work[w].addr
               /\ worker[s] \in WorkerRec
<1> DEFINE x == worker[s].work
<1>1. /\ x \in DOMAIN work /\ Subject(work[x]) = s /\ work[x].status = "running"
      /\ work[x].token = worker[s].token
  BY DEF Attempts, WorkerInv
<1>2. \A w \in DOMAIN work :
         /\ work'[w].addr = work[w].addr
         /\ \/ work'[w] = work[w]
            \/ work[w].status \in Idle
  BY PrunedRows DEF Attempts
<1>3. DOMAIN work' = DOMAIN work
  BY DEF Attempts, Pruned
<1> QED
  BY <1>1, <1>2, <1>3 DEF Attempts, Addr, Idle

LEMMA ResultAttempt ==
    ASSUME NEW s \in Subjects, Attempts(s), NEW st \in (Active \cup Terminal) \ {"running"},
           NEW ag \in BOOLEAN, Result(s, st, ag), st = "succeeded" => remote'[Addr(s)] = "gone",
           worker[s].work \in unread' => st # "cancelled" /\ (st \notin Terminal => ag)
    PROVE  Made(s)
<1> DEFINE o == worker[s]
           wk == [o EXCEPT !.step = "save", !.status = st, !.again = ag]
<1>1. o \in WorkerRec
  BY AttemptRow
<1>2. wk \in WorkerRec
  <2>1. "save" \in Steps
    BY DEF Steps
  <2> HIDE DEF o
  <2> QED
    BY <1>1, <2>1, ResultRec
<1>3. worker' = [worker EXCEPT ![s] = wk]
  BY DEF Result
<1>4. /\ wk.step = "save" /\ wk.status = st /\ wk.again = ag
      /\ wk.work = o.work /\ wk.token = o.token
  BY <1>1 DEF WorkerRec
<1> HIDE DEF wk
<1>5. WorkerInv(wk, s, work', remote', unread')
  <2>1. ResultInv(wk, work', remote', unread')
    BY <1>4, AttemptRow DEF ResultInv
  <2> QED
    BY <1>4, <2>1, AttemptRow DEF WorkerInv, Subject, Afresh
<1> QED
  BY <1>2, <1>3, <1>4, <1>5 DEF Made

\* The steps that go on: a read or a mutation, which needs that nothing is unread.
LEMMA GoesOn ==
    ASSUME NEW s \in Subjects, Attempts(s), NEW wk \in WorkerRec,
           worker' = [worker EXCEPT ![s] = wk], wk.step \in Steps \ {"none", "start", "save"},
           wk.work = worker[s].work, wk.token = worker[s].token,
           wk.step = "read" /\ worker[s].work \in unread' => wk.reconcile,
           wk.step \in Afresh =>
              \A w \in unread' : work[w].addr # Addr(s),
           wk.step = "sent" => wk.mut
    PROVE  Made(s)
<1>1. WorkerInv(wk, s, work', remote', unread')
  BY AttemptRow DEF WorkerInv, Subject, Attempts
<1> QED
  BY <1>1 DEF Made

LEMMA StepAttempt ==
    ASSUME NEW s \in Subjects, Attempts(s), NEW p \in {"read"} \cup Afresh, Step(s, p),
           p = "read" /\ worker[s].work \in unread' => worker[s].reconcile,
           p # "read" => \A w \in unread' : work[w].addr # Addr(s)
    PROVE  Made(s)
<1> DEFINE o == worker[s]
           wk == [o EXCEPT !.step = p]
<1>1. o \in WorkerRec /\ p \in Steps
  BY AttemptRow DEF Steps, Afresh
<1>2. wk \in WorkerRec
  <2> HIDE DEF o
  <2> QED
    BY <1>1, StepRec
<1>3. worker' = [worker EXCEPT ![s] = wk]
  BY DEF Step
<1>4. wk.step = p /\ wk.work = o.work /\ wk.token = o.token /\ wk.reconcile = o.reconcile
  BY <1>1 DEF WorkerRec
<1> HIDE DEF wk
<1> QED
  BY <1>1, <1>2, <1>3, <1>4, GoesOn DEF Steps, Afresh

LEMMA MutationAttempt ==
    ASSUME NEW s \in Subjects, Attempts(s), NEW p \in {"deactivated", "sent"},
           worker' = [worker EXCEPT ![s].step = p, ![s].mut = TRUE],
           p = "deactivated" => \A w \in unread' : work[w].addr # Addr(s)
    PROVE  Made(s)
<1> DEFINE o == worker[s]
           wk == [o EXCEPT !.step = p, !.mut = TRUE]
<1>1. o \in WorkerRec /\ p \in Steps /\ p # "none"
  BY AttemptRow DEF Steps, Afresh
<1>2. wk \in WorkerRec
  <2> HIDE DEF o
  <2> QED
    BY <1>1, MutRec
<1>3. worker' = [worker EXCEPT ![s] = wk]
  OBVIOUS
<1>4. wk.step = p /\ wk.work = o.work /\ wk.token = o.token /\ wk.mut = TRUE
  BY <1>1 DEF WorkerRec
<1> HIDE DEF wk
<1> QED
  BY <1>1, <1>2, <1>3, <1>4, GoesOn DEF Steps, Afresh

\* Every error of an attempt is a result that the worker may save.
LEMMA SetbackAttempt ==
    ASSUME NEW s \in Subjects, Attempts(s),
           \/ Setback(s) /\ (worker[s].work \in unread' => worker[s].reconcile \/ worker[s].mut)
           \/ QuotaWait(s) /\ (worker[s].work \in unread' => worker[s].reconcile)
    PROVE  Made(s)
<1>1. worker[s].reconcile \in BOOLEAN /\ worker[s].mut \in BOOLEAN
  BY AttemptRow DEF WorkerRec
<1>2. {"waiting", "paused", "failed", "pending"} \subseteq (Active \cup Terminal) \ {"running"}
  BY DEF Active, Idle, Terminal
<1>3. ASSUME NEW st \in {"waiting", "paused", "failed"}, NEW ag \in BOOLEAN, Outcome(s, st, ag),
             worker[s].work \in unread' /\ st # "failed" => ag
      PROVE  Made(s)
  <2>1. CASE Result(s, "pending", TRUE)
    BY <1>2, <2>1, ResultAttempt
  <2>2. CASE Result(s, st, ag)
    BY <1>2, <1>3, <2>2, ResultAttempt DEF Terminal
  <2> QED
    BY <1>3, <2>1, <2>2 DEF Outcome
<1>4. CASE QuotaWait(s) /\ (worker[s].work \in unread' => worker[s].reconcile)
  BY <1>1, <1>3, <1>4 DEF QuotaWait
<1>5. CASE Setback(s) /\ (worker[s].work \in unread' => worker[s].reconcile \/ worker[s].mut)
  <2>1. CASE Outcome(s, "waiting", TRUE)
    BY <1>3, <2>1
  <2>2. CASE Outcome(s, "paused", worker[s].reconcile \/ worker[s].mut)
    <3> DEFINE b == worker[s].reconcile \/ worker[s].mut
    <3>1. b \in BOOLEAN /\ (worker[s].work \in unread' => b) /\ Outcome(s, "paused", b)
      BY <1>5, <2>2
    <3> HIDE DEF b
    <3> QED
      BY <1>3, <3>1
  <2>3. CASE Outcome(s, "paused", TRUE)
    BY <1>3, <2>3
  <2>4. CASE Outcome(s, "failed", FALSE)
    BY <1>3, <2>4
  <2> QED
    BY <1>5, <2>1, <2>2, <2>3, <2>4 DEF Setback
<1> QED
  BY <1>4, <1>5

LEMMA DatabasePrunes ==
    ASSUME TablesInv,
           \/ UNCHANGED db
           \/ work' = Prune(work, job).work /\ job' = Prune(work, job).job
    PROVE  TablesInv' /\ Evolved(job, job') /\ Pruned(work, work', {})
<1>1. CASE UNCHANGED db
  <2>1. work' = work /\ job' = job
    BY <1>1 DEF db
  <2>2. Evolved(job, job) /\ Pruned(work, work, {})
    BY DEF Evolved, JobEvolves, Pruned, RowPruned, TablesInv, Coherent
  <2>3. Coherent(work', job', {}) /\ Unwanted(work', job') = {}
    BY <2>1 DEF TablesInv
  <2> QED
    BY <2>1, <2>2, <2>3 DEF TablesInv
<1>2. CASE work' = Prune(work, job).work /\ job' = Prune(work, job).job
  <2>1. LET T == Prune(work, job)
        IN  /\ Coherent(T.work, T.job, {}) /\ Evolved(job, T.job)
            /\ Unwanted(T.work, T.job) = {} /\ Pruned(work, T.work, {})
    BY PruneKeeps DEF TablesInv
  <2>2. Coherent(work', job', {}) /\ Unwanted(work', job') = {}
    BY <1>2, <2>1
  <2> QED
    BY <1>2, <2>1, <2>2 DEF TablesInv
<1> QED
  BY <1>1, <1>2

\* What an attempt's step does to the rest of the state.
Attempted(s) ==
    /\ TablesInv' /\ Evolved(job, job') /\ Pruned(work, work', {})
    /\ UNCHANGED <<pv, proc, admitted, rotating, tokens, late>>
    /\ worker[s].step # "none" /\ Made(s)
    /\ remote' \in [Addresses -> {"active", "inactive", "gone"}]
    /\ \A a \in Addresses : remote[a] = "gone" => remote'[a] = "gone"
    /\ \A w \in unread' : w \in unread \/ w = worker[s].work
    /\ LocalInv'

LEMMA BeforeAttempt ==
    ASSUME IInv, NEW s \in Subjects, worker[s].step # "none",
           Pruned(work, work', {}), \A w \in unread' : w \in unread \/ w = worker[s].work
    PROVE  /\ Attempts(s) /\ WorkerInv(worker[s], s, work, remote, unread)
           /\ Addr(s) \in Addresses /\ work[worker[s].work].addr = Addr(s)
           /\ worker[s].work \in DOMAIN work
           /\ worker[s].work \in WorksOf(Addr(s))
           /\ \A w \in DOMAIN work : w \notin WorksOf(Addr(s)) => work[w].addr # Addr(s)
<1>1. WorkerInv(worker[s], s, work, remote, unread)
  BY DEF IInv, WorkersInv, Free
<1>2. worker \in [Subjects -> WorkerRec] /\ work \in Seq(WorkRec)
  BY DEF IInv, RuntimeType, TablesInv, Coherent
<1>3. worker[s].work \in DOMAIN work /\ unread \subseteq DOMAIN work
  BY <1>1 DEF WorkerInv, IInv, RowsInv
<1>4. Attempts(s)
  BY <1>1, <1>2, <1>3 DEF Attempts
<1>5. work[worker[s].work] \in WorkRec
  BY <1>2, <1>3, WorkRows
<1> QED
  BY <1>1, <1>3, <1>4, <1>5 DEF Addr, WorksOf, WorkRec

LEMMA CheckWantedAttempts ==
    ASSUME IInv, NEW s \in Subjects, CheckWanted(s)
    PROVE  Attempted(s)
<1>1. TablesInv' /\ Evolved(job, job') /\ Pruned(work, work', {})
  BY DatabasePrunes DEF CheckWanted, IInv
<1>2. unread' = unread /\ remote' = remote /\ local' = local /\ worker[s].step = "start"
  BY DEF CheckWanted, apple
<1>3. /\ Attempts(s) /\ (worker[s].work \in unread => worker[s].reconcile)
      /\ worker[s].reconcile \in BOOLEAN
  <2>1. Attempts(s) /\ WorkerInv(worker[s], s, work, remote, unread)
    BY <1>1, <1>2, BeforeAttempt
  <2> QED
    BY <1>2, <2>1, AttemptRow DEF WorkerInv, WorkerRec
<1>4. Made(s)
  <2>0. /\ {"pending", "paused", "cancelled"} \subseteq (Active \cup Terminal) \ {"running"}
        /\ "pending" \notin Terminal /\ "paused" \notin Terminal /\ "cancelled" \in Terminal
    BY DEF Active, Idle, Terminal
  <2>1. CASE Result(s, "pending", worker[s].reconcile)
    BY <1>2, <1>3, <2>0, <2>1, ResultAttempt
  <2>2. CASE Result(s, "paused", TRUE)
    BY <1>2, <1>3, <2>0, <2>2, ResultAttempt
  <2>3. CASE Step(s, "read")
    BY <1>2, <1>3, <2>3, StepAttempt
  <2>4. CASE ~worker[s].reconcile /\ Result(s, "cancelled", FALSE)
    BY <1>2, <1>3, <2>0, <2>4, ResultAttempt
  <2> QED
    BY <2>1, <2>2, <2>3, <2>4 DEF CheckWanted
<1> QED
  BY <1>1, <1>2, <1>4 DEF Attempted, CheckWanted, IInv, RuntimeType, LocalInv

LEMMA ConfirmedAttempt ==
    ASSUME IInv, NEW s \in Subjects, worker[s].step # "none", Confirmed(s),
           UNCHANGED <<db, remote>>
    PROVE  Made(s) /\ LocalInv' /\ unread' \subseteq unread
<1>1. unread' \subseteq unread /\ remote' = remote /\ remote[Addr(s)] = "gone"
  BY DEF Confirmed
<1>2. Pruned(work, work', {})
  BY DatabasePrunes DEF IInv
<1>3. Attempts(s) /\ worker[s].work \notin unread'
  <2>1. Attempts(s) /\ worker[s].work \in WorksOf(Addr(s))
    BY <1>1, <1>2, BeforeAttempt
  <2> QED
    BY <2>1 DEF Confirmed
<1>4. Made(s)
  <2>1. "succeeded" \in (Active \cup Terminal) \ {"running"}
    BY DEF Terminal
  <2>2. Result(s, "succeeded", FALSE)
    BY DEF Confirmed
  <2> QED
    BY <1>1, <1>3, <2>1, <2>2, ResultAttempt
<1>5. LocalInv'
  BY <1>1 DEF Confirmed, LocalInv, IInv
<1> QED
  BY <1>1, <1>4, <1>5

LEMMA ReadDirectoryAttempts ==
    ASSUME IInv, NEW s \in Subjects, ReadDirectory(s)
    PROVE  Attempted(s)
<1>1. TablesInv' /\ Evolved(job, job') /\ Pruned(work, work', {})
  BY DatabasePrunes DEF ReadDirectory, IInv
<1>2. worker[s].step = "read" /\ remote' = remote /\ UNCHANGED <<db, remote>>
  BY DEF ReadDirectory
<1>3. ASSUME unread' \subseteq unread
      PROVE  /\ Attempts(s) /\ (worker[s].work \in unread => worker[s].reconcile)
             /\ \A w \in DOMAIN work : w \notin WorksOf(Addr(s)) => work[w].addr # Addr(s)
  <2>1. /\ Attempts(s) /\ WorkerInv(worker[s], s, work, remote, unread)
        /\ \A w \in DOMAIN work : w \notin WorksOf(Addr(s)) => work[w].addr # Addr(s)
    BY <1>1, <1>2, <1>3, BeforeAttempt
  <2> QED
    BY <1>2, <2>1 DEF WorkerInv
<1>4. CASE (Setback(s) \/ QuotaWait(s)) /\ UNCHANGED <<local, unread>>
  <2>1. Made(s)
    BY <1>3, <1>4, SetbackAttempt
  <2>2. LocalInv'
    BY <1>2, <1>4 DEF LocalInv, IInv
  <2> QED
    BY <1>1, <1>2, <1>4, <2>1, <2>2 DEF Attempted, ReadDirectory, IInv, RuntimeType
<1>5. CASE Confirmed(s)
  <2>1. Made(s) /\ LocalInv' /\ unread' \subseteq unread
    BY <1>2, <1>5, ConfirmedAttempt
  <2> QED
    BY <1>1, <1>2, <2>1 DEF Attempted, ReadDirectory, IInv, RuntimeType
<1>6. CASE /\ Step(s, IF remote[Addr(s)] = "active" THEN "deactivate" ELSE "delete")
           /\ unread' = unread \ WorksOf(Addr(s)) /\ UNCHANGED local
  <2> DEFINE p == IF remote[Addr(s)] = "active" THEN "deactivate" ELSE "delete"
  <2>1. p \in {"deactivate", "delete"} /\ Step(s, p)
    BY <1>6
  <2> HIDE DEF p
  <2>2. \A w \in unread' : work[w].addr # Addr(s)
    BY <1>3, <1>6 DEF IInv, RowsInv
  <2>3. Made(s)
    BY <1>3, <1>6, <2>1, <2>2, StepAttempt DEF Afresh
  <2>4. LocalInv'
    BY <1>2, <1>6 DEF LocalInv, IInv
  <2> QED
    BY <1>1, <1>2, <1>6, <2>3, <2>4 DEF Attempted, ReadDirectory, IInv, RuntimeType
<1> QED
  BY <1>4, <1>5, <1>6 DEF ReadDirectory

\* Where nothing is unread for the worker's address.
LEMMA NothingUnread ==
    ASSUME IInv, NEW s \in Subjects,
           worker[s].step \in Afresh,
           Pruned(work, work', {}), unread' \subseteq unread
    PROVE  /\ Attempts(s) /\ worker[s].work \notin unread
           /\ \A w \in unread : work[w].addr # Addr(s)
<1>1. /\ Attempts(s) /\ WorkerInv(worker[s], s, work, remote, unread)
      /\ work[worker[s].work].addr = Addr(s)
  <2>1. worker[s].step # "none" /\ \A w \in unread' : w \in unread
    BY DEF Afresh
  <2> QED
    BY <2>1, BeforeAttempt DEF Addr
<1> QED
  BY <1>1 DEF WorkerInv

LEMMA BeforeRequestAttempts ==
    ASSUME IInv, NEW s \in Subjects, BeforeRequest(s)
    PROVE  Attempted(s)
<1>1. TablesInv' /\ Evolved(job, job') /\ Pruned(work, work', {})
  BY DatabasePrunes DEF BeforeRequest, IInv
<1>2. unread' = unread /\ remote' = remote /\ local' = local
  BY DEF BeforeRequest, apple
<1>3. worker[s].step \in {"deactivate", "delete"}
  BY DEF BeforeRequest
<1>4. Attempts(s) /\ worker[s].work \notin unread /\ \A w \in unread : work[w].addr # Addr(s)
  BY <1>1, <1>2, <1>3, NothingUnread DEF Afresh
<1>5. Made(s)
  <2>1. CASE Result(s, "pending", TRUE)
    <3>1. "pending" \in (Active \cup Terminal) \ {"running"}
      BY DEF Active, Idle
    <3> QED
      BY <1>2, <1>4, <2>1, <3>1, ResultAttempt
  <2>2. CASE \E p \in {"canceled", "deactivating", "deleting"} : Step(s, p)
    BY <1>2, <1>4, <2>2, StepAttempt DEF Afresh
  <2> QED
    BY <2>1, <2>2 DEF BeforeRequest
<1>6. LocalInv'
  BY <1>2 DEF LocalInv, IInv
<1> QED
  BY <1>1, <1>2, <1>3, <1>5, <1>6 DEF Attempted, BeforeRequest, IInv, RuntimeType

LEMMA UnsentAttempts ==
    ASSUME IInv, NEW s \in Subjects, Unsent(s)
    PROVE  Attempted(s)
<1>1. TablesInv' /\ Evolved(job, job') /\ Pruned(work, work', {})
  BY DatabasePrunes DEF Unsent, IInv
<1>2. unread' = unread /\ remote' = remote /\ local' = local
  BY DEF Unsent, apple
<1>3. worker[s].step \in {"deactivating", "deleting"}
  BY DEF Unsent, Sending
<1>4. Attempts(s) /\ worker[s].work \notin unread
  BY <1>1, <1>2, <1>3, NothingUnread DEF Afresh
<1>5. Made(s)
  <2>1. /\ {"failed", "paused", "pending"} \subseteq (Active \cup Terminal) \ {"running"}
    BY DEF Active, Idle, Terminal
  <2>2. \/ Result(s, "pending", TRUE) \/ Result(s, "failed", FALSE)
        \/ Result(s, "paused", TRUE)
    BY DEF Unsent, Outcome
  <2> QED
    BY <1>2, <1>4, <2>1, <2>2, ResultAttempt
<1>6. LocalInv'
  BY <1>2 DEF LocalInv, IInv
<1> QED
  BY <1>1, <1>2, <1>3, <1>5, <1>6 DEF Attempted, Unsent, IInv, RuntimeType

LEMMA DeactivateAttempts ==
    ASSUME IInv, NEW s \in Subjects, Deactivate(s)
    PROVE  Attempted(s)
<1>1. TablesInv' /\ Evolved(job, job') /\ Pruned(work, work', {})
  BY DatabasePrunes DEF Deactivate, IInv
<1>2. unread' = unread /\ local' = local /\ worker[s].step = "deactivating"
  BY DEF Deactivate
<1>3. Attempts(s) /\ worker[s].work \notin unread /\ \A w \in unread : work[w].addr # Addr(s)
  BY <1>1, <1>2, NothingUnread DEF Afresh
<1>4. Made(s)
  BY <1>2, <1>3, MutationAttempt DEF Deactivate
<1>5. /\ remote' \in [Addresses -> {"active", "inactive", "gone"}]
      /\ \A a \in Addresses : remote[a] = "gone" => remote'[a] = "gone"
  BY DEF Deactivate, IInv, RuntimeType
<1>6. LocalInv'
  BY <1>2, <1>5 DEF LocalInv, IInv
<1> QED
  BY <1>1, <1>2, <1>4, <1>5, <1>6 DEF Attempted, Deactivate

LEMMA DeactivateReturnsAttempts ==
    ASSUME IInv, NEW s \in Subjects, DeactivateReturns(s)
    PROVE  Attempted(s)
<1>1. TablesInv' /\ Evolved(job, job') /\ Pruned(work, work', {})
  BY DatabasePrunes DEF DeactivateReturns, IInv
<1>2. worker[s].step = "deactivated" /\ remote' = remote /\ UNCHANGED <<db, remote>>
  BY DEF DeactivateReturns
<1>3. CASE (Setback(s) \/ QuotaWait(s) \/ Step(s, "delete")) /\ UNCHANGED <<local, unread>>
  <2>1. Attempts(s) /\ worker[s].work \notin unread /\ \A w \in unread : work[w].addr # Addr(s)
    BY <1>1, <1>2, <1>3, NothingUnread DEF Afresh
  <2>2. Made(s)
    <3>1. CASE Setback(s) \/ QuotaWait(s)
      BY <1>3, <2>1, <3>1, SetbackAttempt
    <3>2. CASE Step(s, "delete")
      BY <1>3, <2>1, <3>2, StepAttempt DEF Afresh
    <3> QED
      BY <1>3, <3>1, <3>2
  <2>3. LocalInv'
    BY <1>2, <1>3 DEF LocalInv, IInv
  <2> QED
    BY <1>1, <1>2, <1>3, <2>2, <2>3 DEF Attempted, DeactivateReturns, IInv, RuntimeType
<1>4. CASE Confirmed(s)
  <2>1. Made(s) /\ LocalInv' /\ unread' \subseteq unread
    BY <1>2, <1>4, ConfirmedAttempt
  <2> QED
    BY <1>1, <1>2, <2>1 DEF Attempted, DeactivateReturns, IInv, RuntimeType
<1> QED
  BY <1>3, <1>4 DEF DeactivateReturns

LEMMA DeleteAttempts ==
    ASSUME IInv, NEW s \in Subjects, Delete(s)
    PROVE  Attempted(s)
<1>1. TablesInv' /\ Evolved(job, job') /\ Pruned(work, work', {})
  BY DatabasePrunes DEF Delete, IInv
<1>2. /\ unread' = unread \cup {worker[s].work} /\ local' = local
      /\ worker[s].step = "deleting"
  BY DEF Delete
<1>3. Attempts(s) /\ Addr(s) \in Addresses
  BY <1>1, <1>2, BeforeAttempt
<1>4. Made(s)
  BY <1>3, MutationAttempt DEF Delete
<1>5. /\ remote' \in [Addresses -> {"active", "inactive", "gone"}]
      /\ \A a \in Addresses : remote[a] = "gone" => remote'[a] = "gone"
  BY <1>3 DEF Delete, IInv, RuntimeType
<1>6. LocalInv'
  BY <1>2, <1>5 DEF LocalInv, IInv
<1> QED
  BY <1>1, <1>2, <1>4, <1>5, <1>6 DEF Attempted, Delete

LEMMA DeleteReturnsAttempts ==
    ASSUME IInv, NEW s \in Subjects, DeleteReturns(s)
    PROVE  Attempted(s)
<1>1. TablesInv' /\ Evolved(job, job') /\ Pruned(work, work', {})
  BY DatabasePrunes DEF DeleteReturns, IInv
<1>2. worker[s].step = "sent" /\ remote' = remote /\ UNCHANGED <<db, remote>>
  BY DEF DeleteReturns
<1>3. ASSUME unread' \subseteq unread
      PROVE  Attempts(s) /\ worker[s].mut /\ worker[s].work \in WorksOf(Addr(s))
  <2>1. /\ Attempts(s) /\ WorkerInv(worker[s], s, work, remote, unread)
        /\ worker[s].work \in WorksOf(Addr(s))
    BY <1>1, <1>2, <1>3, BeforeAttempt
  <2> QED
    BY <1>2, <2>1 DEF WorkerInv
<1>4. CASE Setback(s) /\ UNCHANGED <<local, unread>>
  <2>1. Made(s)
    BY <1>3, <1>4, SetbackAttempt
  <2>2. LocalInv'
    BY <1>2, <1>4 DEF LocalInv, IInv
  <2> QED
    BY <1>1, <1>2, <1>4, <2>1, <2>2 DEF Attempted, DeleteReturns, IInv, RuntimeType
<1>5. CASE Confirmed(s)
  <2>1. Made(s) /\ LocalInv' /\ unread' \subseteq unread
    BY <1>2, <1>5, ConfirmedAttempt
  <2> QED
    BY <1>1, <1>2, <2>1 DEF Attempted, DeleteReturns, IInv, RuntimeType
<1>6. CASE /\ Outcome(s, "failed", FALSE)
           /\ unread' = unread \ WorksOf(Addr(s)) /\ UNCHANGED local
  <2>1. Attempts(s) /\ worker[s].work \notin unread'
    BY <1>3, <1>6
  <2>2. Made(s)
    <3>1. {"failed", "pending"} \subseteq (Active \cup Terminal) \ {"running"}
      BY DEF Active, Idle, Terminal
    <3>2. CASE Result(s, "failed", FALSE)
      BY <2>1, <3>1, <3>2, ResultAttempt
    <3>3. CASE Result(s, "pending", TRUE)
      BY <2>1, <3>1, <3>3, ResultAttempt
    <3> QED
      BY <1>6, <3>2, <3>3 DEF Outcome
  <2>3. LocalInv'
    BY <1>2, <1>6 DEF LocalInv, IInv
  <2> QED
    BY <1>1, <1>2, <1>6, <2>2, <2>3 DEF Attempted, DeleteReturns, IInv, RuntimeType
<1> QED
  BY <1>4, <1>5, <1>6 DEF DeleteReturns

LEMMA RecheckWantedAttempts ==
    ASSUME IInv, NEW s \in Subjects, RecheckWanted(s)
    PROVE  Attempted(s)
<1>1. TablesInv' /\ Evolved(job, job') /\ Pruned(work, work', {})
  BY DatabasePrunes DEF RecheckWanted, IInv
<1>2. unread' = unread /\ remote' = remote /\ local' = local /\ worker[s].step = "canceled"
  BY DEF RecheckWanted, apple
<1>3. Attempts(s) /\ worker[s].work \notin unread'
  BY <1>1, <1>2, NothingUnread DEF Afresh
<1>4. Made(s)
  <2>1. {"failed", "cancelled"} \subseteq (Active \cup Terminal) \ {"running"}
    BY DEF Terminal
  <2>2. Result(s, "failed", FALSE) \/ Result(s, "cancelled", FALSE)
    BY DEF RecheckWanted
  <2> QED
    BY <1>3, <2>1, <2>2, ResultAttempt
<1>5. LocalInv'
  BY <1>2 DEF LocalInv, IInv
<1> QED
  BY <1>1, <1>2, <1>4, <1>5 DEF Attempted, RecheckWanted, IInv, RuntimeType

\* An attempt's step keeps the invariant.
LEMMA AttemptKeeps ==
    ASSUME IInv, NEW s \in Subjects, Attempted(s)
    PROVE  IInv'
<1>1. PICK wk \in WorkerRec : /\ worker' = [worker EXCEPT ![s] = wk] /\ wk.step # "none"
                              /\ WorkerInv(wk, s, work', remote', unread')
  BY DEF Attempted, Made
<1>2. /\ work \in Seq(WorkRec) /\ DOMAIN work' = DOMAIN work
      /\ \A w \in DOMAIN work : work[w].addr \in Addresses
      /\ unread \subseteq DOMAIN work
  <2>1. work \in Seq(WorkRec)
    BY DEF IInv, TablesInv, Coherent
  <2>2. \A w \in DOMAIN work : work[w] \in WorkRec
    BY <2>1, WorkRows
  <2> QED
    BY <2>1, <2>2 DEF WorkRec, Attempted, Pruned, IInv, RowsInv
<1>3. \A w \in DOMAIN work :
         /\ work'[w].addr = work[w].addr
         /\ work[w].status = "running" => work'[w] = work[w]
  BY <1>2, PrunedRows DEF Attempted, Idle
<1>4. WorkerInv(worker[s], s, work, remote, unread)
  BY DEF Attempted, IInv, WorkersInv, Free
<1>5. /\ worker[s].work \in DOMAIN work /\ Subject(work[worker[s].work]) = s
      /\ work[worker[s].work].status = "running"
  BY <1>4 DEF WorkerInv
<1>6. RowsInv(work', remote', unread')
  <2>1. Pruned(work, work', {}) /\ RowsInv(work, remote, unread)
    BY DEF Attempted, IInv
  <2>2. \A a \in Addresses : remote[a] = "gone" => remote'[a] = "gone"
    BY DEF Attempted
  <2>3. \A w \in unread' : w \in unread \/ (w \in DOMAIN work /\ work[w].status = "running")
    BY <1>5 DEF Attempted
  <2> QED
    BY <1>2, <2>1, <2>2, <2>3, RowsMove
<1>7. WorkersInv'
  <2> SUFFICES ASSUME NEW t \in Subjects, t # s, worker[t].step # "none"
               PROVE  WorkerInv(worker[t], t, work', remote', unread')
    BY <1>1 DEF WorkersInv, Free, IInv, RuntimeType
  <2>1. WorkerInv(worker[t], t, work, remote, unread)
    BY DEF IInv, WorkersInv, Free
  <2>2. work'[worker[t].work] = work[worker[t].work] /\ work[worker[t].work].status = "running"
    BY <1>3, <2>1 DEF WorkerInv
  <2>3. \A w \in unread' : w \in unread \/ (w \in DOMAIN work /\ Subject(work[w]) # t)
    BY <1>5 DEF Attempted
  <2>4. \A a \in Addresses : remote[a] = "gone" => remote'[a] = "gone"
    BY DEF Attempted
  <2> QED
    BY <1>2, <1>3, <2>1, <2>2, <2>3, <2>4, WorkerMoves
<1>8. Exclusive' /\ LateInv'
  <2>1. proc # "down" /\ ~rotating /\ late = {}
    BY DEF Attempted, IInv, Exclusive, Free
  <2> QED
    BY <2>1 DEF Attempted, Exclusive, LateInv
<1>9. AdmittedInv'
  BY DEF Attempted, AdmittedInv, Evolved, JobEvolves, IInv, RuntimeType
<1>10. RuntimeType'
  BY <1>1 DEF Attempted, IInv, RuntimeType
<1> QED
  BY <1>6, <1>7, <1>8, <1>9, <1>10 DEF IInv, Attempted

-----------------------------------------------------------------------------
(* The other steps.                                                        *)

\* What FinalIsFinal says of one step.
FinalKept ==
    /\ \A i \in Items : Done(Item(i)) => Item(i)' = Item(i)
    /\ \A w \in DOMAIN work : work[w].status \in Terminal => work'[w] = work[w]
    /\ \A j \in Jobs : job[j].status \in {"completed", "interrupted"}
                           => job'[j].status = job[j].status

LEMMA EvolvedIsFinal ==
    ASSUME IInv, Evolved(job, job'), NEW X, Pruned(work, work', X),
           \A x \in X : work[x].status \notin Terminal
    PROVE  FinalKept
<1>1. \A i \in Items : Done(Item(i)) => Item(i)' = Item(i)
  BY DEF Items, Item, Evolved, JobEvolves
<1>2. ASSUME NEW w \in DOMAIN work, work[w].status \in Terminal
      PROVE  work'[w] = work[w]
  BY <1>2 DEF Pruned, RowPruned, Idle, Terminal
<1> QED
  BY <1>1, <1>2 DEF FinalKept, Evolved, JobEvolves

\* The rows stay, nothing comes back at Apple, and no outcome becomes unread.
Forward ==
    /\ DOMAIN work \subseteq DOMAIN work'
    /\ \A w \in DOMAIN work : work'[w].addr = work[w].addr
    /\ \A a \in Addresses : remote[a] = "gone" => remote'[a] = "gone"
    /\ unread' \subseteq unread

LEMMA Table ==
    ASSUME IInv
    PROVE  /\ Coherent(work, job, {}) /\ Unwanted(work, job) = {}
           /\ work \in Seq(WorkRec) /\ unread \subseteq DOMAIN work
           /\ \A w \in DOMAIN work : /\ work[w] \in WorkRec /\ work[w].addr \in Addresses
                                     /\ work[w].status \in Active \cup Terminal
           /\ Len(work) \in Nat /\ DOMAIN work = 1 .. Len(work)
<1>1. Coherent(work, job, {}) /\ Unwanted(work, job) = {} /\ work \in Seq(WorkRec)
  BY DEF IInv, TablesInv, Coherent
<1>2. \A w \in DOMAIN work : work[w] \in WorkRec
  BY <1>1, WorkRows
<1> QED
  BY <1>1, <1>2, WorkRows DEF IInv, RowsInv, WorkRec

LEMMA LateMoves ==
    ASSUME IInv, Forward, late' \subseteq late
    PROVE  LateInv'
<1> SUFFICES ASSUME NEW wk \in late
             PROVE  ResultInv(wk, work', remote', unread')
  BY DEF LateInv
<1>1. ResultInv(wk, work, remote, unread)
  BY DEF IInv, LateInv
<1>2. wk.work \in DOMAIN work
  BY <1>1 DEF ResultInv
<1> QED
  BY <1>1, <1>2, Table, ResultMoves DEF Forward

LEMMA WorkersMove ==
    ASSUME IInv, Forward, NEW t \in Subjects, worker'[t] = worker[t],
           worker[t].step # "none" => work'[worker[t].work] = work[worker[t].work]
    PROVE  worker'[t].step = "none" \/ WorkerInv(worker'[t], t, work', remote', unread')
<1> SUFFICES ASSUME worker[t].step # "none"
             PROVE  WorkerInv(worker[t], t, work', remote', unread')
  OBVIOUS
<1>1. WorkerInv(worker[t], t, work, remote, unread)
  BY DEF IInv, WorkersInv, Free
<1>2. work[worker[t].work].status = "running"
  BY <1>1 DEF WorkerInv
<1>3. unread \subseteq DOMAIN work /\ \A w \in DOMAIN work : work[w].addr \in Addresses
  BY Table
<1> QED
  BY <1>1, <1>2, <1>3, WorkerMoves DEF Forward

LEMMA OwnRow ==
    ASSUME IInv, NEW t \in Subjects, worker[t].step # "none"
    PROVE  /\ worker[t].work \in DOMAIN work /\ work[worker[t].work].status = "running"
           /\ Subject(work[worker[t].work]) = t
  BY DEF IInv, WorkersInv, WorkerInv, Free

LEMMA PrunedForward ==
    ASSUME IInv, NEW X, Pruned(work, work', X), \A x \in X : work'[x].addr = work[x].addr,
           \A a \in Addresses : remote[a] = "gone" => remote'[a] = "gone", unread' \subseteq unread
    PROVE  /\ Forward
           /\ \A w \in DOMAIN work \ X : work[w].status = "running" => work'[w] = work[w]
<1>1. work \in Seq(WorkRec)
  BY Table
<1>2. \A w \in DOMAIN work \ X :
         /\ work'[w].addr = work[w].addr
         /\ work'[w] = work[w] \/ work[w].status \in Idle
  BY <1>1, PrunedRows
<1>3. DOMAIN work' = DOMAIN work
  BY DEF Pruned
<1> QED
  BY <1>2, <1>3 DEF Forward, Idle

\* Steps of the database or of the runtime that leave the workers alone.
LEMMA QuietKeeps ==
    ASSUME IInv, TablesInv', Evolved(job, job'), Pruned(work, work', {}),
           UNCHANGED <<worker, late, unread, local>>, RuntimeType', Exclusive',
           \A q \in admitted' : job[q.job].status = "absent",
           \A a \in Addresses : remote[a] = "gone" => remote'[a] = "gone"
    PROVE  IInv' /\ FinalKept
<1>1. /\ Forward
      /\ \A w \in DOMAIN work : work[w].status = "running" => work'[w] = work[w]
  BY PrunedForward
<1>2. WorkersInv'
  <2> SUFFICES ASSUME NEW t \in Subjects
               PROVE  worker'[t].step = "none" \/ WorkerInv(worker'[t], t, work', remote', unread')
    BY DEF WorkersInv, Free
  <2> QED
    BY <1>1, OwnRow, WorkersMove
<1>3. LateInv'
  BY <1>1, LateMoves
<1>4. RowsInv(work', remote', unread')
  BY Table, RowsMove DEF IInv
<1>5. LocalInv'
  BY DEF LocalInv, IInv
<1>6. AdmittedInv'
  BY DEF AdmittedInv, Evolved, JobEvolves, RuntimeType
<1>7. FinalKept
  BY EvolvedIsFinal
<1> QED
  BY <1>2, <1>3, <1>4, <1>5, <1>6, <1>7 DEF IInv

\* Steps that leave the database alone.
LEMMA IdleDatabase ==
    ASSUME IInv, UNCHANGED db
    PROVE  TablesInv' /\ Evolved(job, job') /\ Pruned(work, work', {})
  BY DatabasePrunes DEF IInv

LEMMA RuntimeSteps ==
    ASSUME IInv,
           \/ Scan \/ Stop \/ BeginRotation
           \/ \E j \in Jobs : CancelJob(j) \/ \E r \in Requests : Admit(j, r)
           \/ \E q \in admitted : Refuse(q)
           \/ \E m \in Admins : ChangePassword(m) \/ EndRotation(m)
           \/ \E a \in Addresses : AppleApplies(a)
    PROVE  IInv' /\ FinalKept
<1>1. RuntimeType /\ Exclusive /\ AdmittedInv /\ TablesInv
  BY DEF IInv
<1>2. CASE Scan
  <2>1. TablesInv' /\ Evolved(job, job') /\ Pruned(work, work', {})
    BY <1>1, <1>2, DatabasePrunes DEF Scan
  <2> QED
    BY <1>1, <1>2, <2>1, QuietKeeps
    DEF Scan, runtime, apple, RuntimeType, Exclusive, AdmittedInv, Free
<1>3. CASE Stop
  <2>1. TablesInv' /\ Evolved(job, job') /\ Pruned(work, work', {})
    BY <1>3, IdleDatabase DEF Stop
  <2> QED
    BY <1>1, <1>3, <2>1, QuietKeeps
       DEF Stop, apple, RuntimeType, Exclusive, AdmittedInv, Free
<1>4. CASE BeginRotation
  <2>1. TablesInv' /\ Evolved(job, job') /\ Pruned(work, work', {})
    BY <1>4, IdleDatabase DEF BeginRotation
  <2> QED
    BY <1>1, <1>4, <2>1, QuietKeeps
    DEF BeginRotation, apple, RuntimeType, Exclusive, AdmittedInv, Free
<1>5. ASSUME NEW j \in Jobs, CancelJob(j)
      PROVE  IInv' /\ FinalKept
  <2>1. LET T == CancelUnwanted(work, CancelJobs(work, job, {j}, FALSE))
        IN  /\ Coherent(T.work, T.job, {}) /\ Evolved(job, T.job)
            /\ Unwanted(T.work, T.job) = {} /\ Pruned(work, T.work, {})
    BY <1>1, <1>5, CancelJobKeeps DEF CancelJob, TablesInv
  <2>2. TablesInv' /\ Evolved(job, job') /\ Pruned(work, work', {})
    <3>1. Coherent(work', job', {}) /\ Unwanted(work', job') = {}
      BY <1>5, <2>1 DEF CancelJob
    <3> QED
      BY <1>5, <2>1, <3>1 DEF CancelJob, TablesInv
  <2> QED
    BY <1>1, <1>5, <2>2, QuietKeeps
    DEF CancelJob, runtime, apple, RuntimeType, Exclusive, AdmittedInv, Free
<1>6. ASSUME NEW j \in Jobs, NEW r \in Requests, Admit(j, r)
      PROVE  IInv' /\ FinalKept
  <2>1. TablesInv' /\ Evolved(job, job') /\ Pruned(work, work', {})
    BY <1>6, IdleDatabase DEF Admit
  <2>2. /\ admitted' = {[job |-> j, request |-> r, pv |-> pv[OwnerOf[j]]]}
        /\ job[j].status = "absent" /\ pv[OwnerOf[j]] \in Nat
    BY <1>1, <1>6, QueueAssumption DEF Admit, RuntimeType
  <2>3. RuntimeType' /\ \A q \in admitted' : job[q.job].status = "absent"
    BY <1>1, <1>6, <2>2 DEF Admit, RuntimeType, apple
  <2>4. Exclusive'
    BY <1>1, <1>6 DEF Admit, Exclusive, Free
  <2> QED
    BY <1>1, <1>6, <2>1, <2>3, <2>4, QuietKeeps DEF Admit, apple
<1>7. ASSUME NEW q \in admitted, Refuse(q)
      PROVE  IInv' /\ FinalKept
  <2>1. TablesInv' /\ Evolved(job, job') /\ Pruned(work, work', {})
    BY <1>7, IdleDatabase DEF Refuse
  <2> QED
    BY <1>1, <1>7, <2>1, QuietKeeps DEF Refuse, apple, RuntimeType, Exclusive, Free
<1>8. ASSUME NEW m \in Admins, ChangePassword(m)
      PROVE  IInv' /\ FinalKept
  <2>1. TablesInv' /\ Evolved(job, job') /\ Pruned(work, work', {})
    BY <1>8, IdleDatabase DEF ChangePassword
  <2> QED
    BY <1>1, <1>8, <2>1, QuietKeeps
    DEF ChangePassword, runtime, apple, RuntimeType, Exclusive, AdmittedInv, Free
<1>9. ASSUME NEW m \in Admins, EndRotation(m)
      PROVE  IInv' /\ FinalKept
  <2>1. TablesInv' /\ Evolved(job, job') /\ Pruned(work, work', {})
    BY <1>9, IdleDatabase DEF EndRotation
  <2>2. pv' \in [Admins -> Nat]
    BY <1>1, <1>9 DEF EndRotation, RuntimeType
  <2> QED
    BY <1>1, <1>9, <2>1, <2>2, QuietKeeps
    DEF EndRotation, apple, RuntimeType, Exclusive, AdmittedInv, Free
<1>10. ASSUME NEW a \in Addresses, AppleApplies(a)
       PROVE  IInv' /\ FinalKept
  <2>1. TablesInv' /\ Evolved(job, job') /\ Pruned(work, work', {})
    BY <1>10, IdleDatabase DEF AppleApplies
  <2>2. /\ remote' \in [Addresses -> {"active", "inactive", "gone"}]
        /\ \A x \in Addresses : remote[x] = "gone" => remote'[x] = "gone"
    BY <1>1, <1>10 DEF AppleApplies, RuntimeType
  <2> QED
    BY <1>1, <1>10, <2>1, <2>2, QuietKeeps
    DEF AppleApplies, runtime, RuntimeType, Exclusive, AdmittedInv, Free
<1> QED
  BY <1>2, <1>3, <1>4, <1>5, <1>6, <1>7, <1>8, <1>9, <1>10

LEMMA ElapseStep ==
    ASSUME IInv, NEW w \in DOMAIN work, Elapse(w)
    PROVE  IInv' /\ FinalKept
<1>1. /\ work' = Elapsed(work, w) /\ job' = job /\ ~work[w].due
      /\ UNCHANGED <<pv, proc, admitted, rotating, blocked, worker, tokens, late>>
      /\ UNCHANGED <<remote, wire, local, unread>>
  BY DEF Elapse, Elapsed, runtime, apple
<1>2. /\ Coherent(work', job, {}) /\ Unwanted(work', job) = {} /\ DOMAIN work' = DOMAIN work
      /\ \A x \in DOMAIN work :
            /\ work'[x].addr = work[x].addr /\ work'[x].status = work[x].status
            /\ work'[x].token = work[x].token /\ work'[x].reconcile = work[x].reconcile
            /\ x # w => work'[x] = work[x]
  BY <1>1, Table, ElapseKeeps
<1>3. Pruned(work, work', {w})
  BY <1>2 DEF Pruned, RowPruned, Coherent
<1>4. work[w].status \in Active /\ work[w].status \notin Terminal
  BY <1>1, Table DEF IInv, RowsInv, Active, Idle, Terminal
<1>5. RowsInv(work', remote', unread')
  <2>1. RowsInv(work, remote, unread)
    BY DEF IInv
  <2>2. work'[w].status # "succeeded" /\ work'[w].status \notin Terminal
    BY <1>2, <1>4 DEF Terminal
  <2>3. w \in unread => /\ work'[w].status # "cancelled"
                        /\ work'[w].status \in Idle => work'[w].reconcile
    BY <1>2, <2>1 DEF RowsInv
  <2>4. \A x \in {w} :
           /\ work'[x].addr = work[x].addr /\ work[x].status \in Active
           /\ work'[x].status = "running" => work[x].status = "running"
           /\ work'[x].status = "succeeded" => remote[work'[x].addr] = "gone"
           /\ work'[x].status \in Terminal => work'[x].due
           /\ x \in unread => /\ work'[x].status # "cancelled"
                              /\ work'[x].status \in Idle => work'[x].reconcile
    BY <1>2, <1>4, <2>2, <2>3
  <2>5. {w} \in SUBSET DOMAIN work
    OBVIOUS
  <2>6. RowsInv(work', remote, unread)
    BY <1>3, <2>1, <2>4, <2>5, Table, RowsMove
  <2> QED
    BY <1>1, <2>6
<1>6. Forward
  BY <1>1, <1>2 DEF Forward
<1>7. WorkersInv'
  <2> SUFFICES ASSUME NEW t \in Subjects, worker[t].step # "none"
               PROVE  WorkerInv(worker[t], t, work', remote', unread')
    BY <1>1 DEF WorkersInv, Free
  <2>1. WorkerInv(worker[t], t, work, remote, unread)
    BY DEF IInv, WorkersInv, Free
  <2>2. /\ work'[worker[t].work].status = "running"
        /\ work'[worker[t].work].token = work[worker[t].work].token
    BY <1>2, <2>1 DEF WorkerInv
  <2>3. /\ unread \subseteq DOMAIN work /\ DOMAIN work \subseteq DOMAIN work'
        /\ \A x \in DOMAIN work : work'[x].addr = work[x].addr /\ work[x].addr \in Addresses
    BY <1>2, Table
  <2>4. WorkerInv(worker[t], t, work', remote, unread)
    BY <2>1, <2>2, <2>3, WorkerMoves
  <2> QED
    BY <1>1, <2>4
<1>8. LateInv'
  BY <1>1, <1>6, LateMoves
<1>9. TablesInv' /\ RuntimeType' /\ Exclusive' /\ AdmittedInv' /\ LocalInv'
  BY <1>1, <1>2 DEF TablesInv, RuntimeType, Exclusive, AdmittedInv, LocalInv, Free, IInv
<1>10. FinalKept
  <2>1. Evolved(job, job')
    BY <1>1 DEF Evolved, JobEvolves
  <2> QED
    BY <1>3, <1>4, <2>1, EvolvedIsFinal
<1> QED
  BY <1>5, <1>7, <1>8, <1>9, <1>10 DEF IInv

LEMMA NoWorkerRec == NoWorker \in WorkerRec /\ NoWorker.step = "none"
  BY DEF NoWorker, WorkerRec, Steps, Active

LEMMA ClaimingRec ==
    ASSUME NEW o \in WorkerRec, NEW p \in Steps, NEW w \in Nat, NEW t \in Nat, NEW b \in BOOLEAN
    PROVE  [o EXCEPT !.step = p, !.work = w, !.token = t, !.reconcile = b] \in WorkerRec
  BY Zenon DEF WorkerRec

LEMMA ClaimStep ==
    ASSUME IInv, NEW w \in DOMAIN work, Claim(w)
    PROVE  IInv' /\ FinalKept
<1> DEFINE W == Prune(work, job).work
           J == Prune(work, job).job
           s == Subject(work[w])
           t == tokens + 1
           V == Claimed(W, w, t)
<1>1. /\ QueueHead(W, w) /\ work' = V /\ job' = Publish(V, J, {w}) /\ tokens' = t
      /\ UNCHANGED <<pv, proc, admitted, rotating, blocked, late>>
      /\ UNCHANGED <<remote, wire, local, unread>>
      /\ MayDispatch(s)
      /\ \/ worker' = [worker EXCEPT ![s] =
              [NoWorker EXCEPT !.step = "start", !.work = w, !.token = t,
                               !.reconcile = V[w].reconcile]]
         \/ worker' = worker
  BY DEF Claim, Claimed, apple
<1>2. t \in Nat
  BY DEF IInv, RuntimeType
<1>3. s \in Subjects
  BY Table, QueueAssumption DEF Subject
<1>4. /\ Coherent(V, Publish(V, J, {w}), {}) /\ Evolved(job, Publish(V, J, {w}))
      /\ Unwanted(V, Publish(V, J, {w})) = {}
      /\ Pruned(work, W, {}) /\ Pruned(work, V, {w})
      /\ work[w].status \in Idle /\ W[w] = work[w]
      /\ V[w].addr = work[w].addr /\ V[w].reconcile = work[w].reconcile
      /\ V[w].status = "running" /\ V[w].token = t
  <2>1. Coherent(work, job, {})
    BY Table
  <2>2. QueueHead(Prune(work, job).work, w)
    BY <1>1
  <2> HIDE DEF t
  <2> QED
    BY <1>2, <2>1, <2>2, ClaimKeeps
<1>5. \A e \in DOMAIN work : e < w /\ Subject(V[e]) = Subject(V[w]) => V[e].status \notin Active
  <2> SUFFICES ASSUME NEW e \in DOMAIN work, e < w, Subject(V[e]) = Subject(V[w])
               PROVE  V[e].status \notin Active
    OBVIOUS
  <2>1. DOMAIN W = DOMAIN work
    BY <1>4 DEF Pruned
  <2>2. e \in 1 .. w - 1 /\ e # w
    BY Table
  <2>3. V[e] = W[e]
    BY <2>1, <2>2 DEF Claimed
  <2>4. Subject(W[w]) = Subject(V[w])
    BY <1>4 DEF Subject
  <2> HIDE DEF V, W
  <2> QED
    BY <1>1, <2>2, <2>3, <2>4 DEF QueueHead
<1> HIDE DEF W, J, s, t, V
<1>6. RowsInv(work', remote', unread')
  <2>1. RowsInv(work, remote, unread)
    BY DEF IInv
  <2>2. work[w].status \in Active
    BY <1>4 DEF Active
  <2>3. "running" \notin Idle /\ "running" \notin Terminal
    BY DEF Idle, Terminal
  <2> QED
    BY <1>1, <1>4, <1>5, <2>1, <2>2, <2>3, Table, RowsMove
<1>7. /\ Forward
      /\ \A x \in DOMAIN work \ {w} : work[x].status = "running" => work'[x] = work[x]
  BY <1>1, <1>4, PrunedForward
<1>8. ASSUME NEW u \in Subjects, worker'[u] = worker[u]
      PROVE  worker'[u].step = "none" \/ WorkerInv(worker'[u], u, work', remote', unread')
  <2>1. worker[u].step # "none" => work'[worker[u].work] = work[worker[u].work]
    BY <1>4, <1>7, OwnRow DEF Idle
  <2> QED
    BY <1>7, <1>8, <2>1, WorkersMove
<1>9. worker' \in [Subjects -> WorkerRec] /\ WorkersInv'
  <2>1. CASE worker' = worker
    BY <1>8, <2>1 DEF WorkersInv, Free, IInv, RuntimeType
  <2>2. CASE worker' = [worker EXCEPT ![s] =
              [NoWorker EXCEPT !.step = "start", !.work = w, !.token = t,
                               !.reconcile = V[w].reconcile]]
    <3> DEFINE b == V[w].reconcile
               wk == [NoWorker EXCEPT !.step = "start", !.work = w, !.token = t, !.reconcile = b]
    <3>1. w \in Nat /\ b \in BOOLEAN
      BY <1>4, Table DEF WorkRec
    <3> HIDE DEF b
    <3>2. wk \in WorkerRec
      <4>1. "start" \in Steps
        BY DEF Steps
      <4> QED
        BY <1>2, <3>1, <4>1, NoWorkerRec, ClaimingRec
    <3>3. wk.step = "start" /\ wk.work = w /\ wk.token = t /\ wk.reconcile = b
      BY NoWorkerRec DEF WorkerRec
    <3>4. worker' = [worker EXCEPT ![s] = wk]
      BY <2>2 DEF b
    <3> HIDE DEF wk
    <3>5. /\ worker' \in [Subjects -> WorkerRec] /\ worker'[s] = wk
          /\ \A u \in Subjects \ {s} : worker'[u] = worker[u]
      BY <1>3, <3>2, <3>4 DEF IInv, RuntimeType
    <3>6. WorkerInv(wk, s, work', remote', unread')
      <4>1. w \in unread => work[w].reconcile
        BY <1>4 DEF IInv, RowsInv
      <4>2. w \in DOMAIN work' /\ Subject(work'[w]) = s
        BY <1>1, <1>4 DEF Pruned, Subject, s
      <4> QED
        BY <1>1, <1>4, <3>3, <4>1, <4>2 DEF WorkerInv, Afresh, b
    <3> QED
      BY <1>8, <3>3, <3>5, <3>6 DEF WorkersInv, Free
  <2> QED
    BY <1>1, <2>1, <2>2 DEF t, V
<1>10. LateInv'
  BY <1>1, <1>7, LateMoves
<1>11. TablesInv'
  <2>1. Coherent(work', job', {}) /\ Unwanted(work', job') = {}
    BY <1>1, <1>4
  <2> QED
    BY <2>1 DEF TablesInv
<1>12. Evolved(job, job') /\ FinalKept
  <2>1. Evolved(job, job')
    BY <1>1, <1>4
  <2>2. Pruned(work, work', {w}) /\ work[w].status \notin Terminal
    BY <1>1, <1>4 DEF Idle, Terminal
  <2> QED
    BY <2>1, <2>2, EvolvedIsFinal
<1>13. RuntimeType' /\ AdmittedInv' /\ LocalInv'
  BY <1>1, <1>2, <1>9, <1>12
  DEF RuntimeType, AdmittedInv, LocalInv, IInv, Evolved, JobEvolves
<1>14. Exclusive'
  BY <1>1 DEF MayDispatch, Exclusive, IInv
<1> QED
  BY <1>6, <1>9, <1>10, <1>11, <1>12, <1>13, <1>14 DEF IInv

\* A save that is let through.
LEMMA SaveRows ==
    ASSUME IInv, NEW wk \in WorkerRec, ResultInv(wk, work, remote, unread), ~Fenced(wk),
           work' = SaveTx(wk).work, job' = SaveTx(wk).job, remote' = remote, unread' = unread
    PROVE  /\ TablesInv' /\ Evolved(job, job') /\ Pruned(work, work', {wk.work})
           /\ work[wk.work].status = "running" /\ work'[wk.work].addr = work[wk.work].addr
           /\ RowsInv(work', remote', unread')
<1> DEFINE x == wk.work
           n == work'[x]
<1>1. /\ x \in DOMAIN work /\ work[x].status = "running"
      /\ wk.status \in (Active \cup Terminal) \ {"running"} /\ wk.again \in BOOLEAN
  BY DEF ResultInv, Fenced, WorkerRec
<1>2. /\ Coherent(work', job', {}) /\ Evolved(job, job') /\ Unwanted(work', job') = {}
      /\ n.addr = work[x].addr /\ (n.status \in Terminal => n.due)
      /\ \/ wk.status \notin Terminal /\ ~wk.again /\ n.status = "cancelled"
         \/ n.status = wk.status /\ n.reconcile = wk.again
      /\ Pruned(work, work', {x})
  <2>1. LET T == SaveTx(wk)
        IN  /\ Coherent(T.work, T.job, {}) /\ Evolved(job, T.job)
            /\ Unwanted(T.work, T.job) = {} /\ Pruned(work, T.work, {wk.work})
            /\ T.work[wk.work].addr = work[wk.work].addr
            /\ T.work[wk.work].status \in Terminal => T.work[wk.work].due
            /\ \/ wk.status \notin Terminal /\ ~wk.again /\ T.work[wk.work].status = "cancelled"
               \/ T.work[wk.work].status = wk.status /\ T.work[wk.work].reconcile = wk.again
    BY <1>1, Table, SaveKeeps
  <2> QED
    BY <2>1
<1>3. TablesInv'
  BY <1>2 DEF TablesInv
<1>4. RowsInv(work', remote', unread')
  <2>1. RowsInv(work, remote, unread) /\ work[x].status \in Active
    BY <1>1 DEF IInv, Active
  <2>2. n.status # "running"
    BY <1>1, <1>2
  <2>3. n.status = "succeeded" => remote[n.addr] = "gone"
    BY <1>2 DEF ResultInv
  <2>4. x \in unread => n.status # "cancelled" /\ (n.status \in Idle => n.reconcile)
    BY <1>2 DEF ResultInv, Idle, Terminal
  <2> QED
    BY <1>1, <1>2, <2>1, <2>2, <2>3, <2>4, Table, RowsMove
<1> QED
  BY <1>1, <1>2, <1>3, <1>4

LEMMA SaveStep ==
    ASSUME IInv, NEW s \in Subjects, Save(s)
    PROVE  IInv' /\ FinalKept
<1> DEFINE wk == worker[s]
<1>1. /\ wk.step = "save" /\ worker' = [worker EXCEPT ![s] = NoWorker]
      /\ UNCHANGED <<pv, proc, admitted, rotating, tokens, late>>
      /\ UNCHANGED <<remote, wire, local, unread>>
      /\ \/ ~Fenced(wk) /\ work' = SaveTx(wk).work /\ job' = SaveTx(wk).job
         \/ UNCHANGED db
  BY DEF Save, apple
<1>2. wk \in WorkerRec /\ WorkerInv(wk, s, work, remote, unread)
  BY <1>1 DEF IInv, RuntimeType, WorkersInv, Free
<1>3. ResultInv(wk, work, remote, unread) /\ work[wk.work].status = "running"
  BY <1>1, <1>2 DEF WorkerInv
<1>4. /\ TablesInv' /\ Evolved(job, job') /\ Pruned(work, work', {wk.work})
      /\ work'[wk.work].addr = work[wk.work].addr
      /\ RowsInv(work', remote', unread')
  <2>1. CASE ~Fenced(wk) /\ work' = SaveTx(wk).work /\ job' = SaveTx(wk).job
    BY <1>1, <1>2, <1>3, <2>1, SaveRows
  <2>2. CASE UNCHANGED db
    <3>1. TablesInv' /\ Evolved(job, job') /\ Pruned(work, work', {}) /\ work' = work
      BY <2>2, IdleDatabase DEF db
    <3> QED
      BY <1>1, <3>1 DEF Pruned, IInv
  <2> QED
    BY <1>1, <2>1, <2>2
<1>5. /\ Forward
      /\ \A w \in DOMAIN work \ {wk.work} : work[w].status = "running" => work'[w] = work[w]
  BY <1>1, <1>4, PrunedForward
<1>6. /\ worker' \in [Subjects -> WorkerRec] /\ worker'[s].step = "none"
      /\ \A t \in Subjects \ {s} : worker'[t] = worker[t]
  <2> QED
    BY <1>1, NoWorkerRec DEF IInv, RuntimeType
<1>7. WorkersInv'
  <2> SUFFICES ASSUME NEW t \in Subjects \ {s}
               PROVE  worker'[t].step = "none" \/ WorkerInv(worker'[t], t, work', remote', unread')
    BY <1>6 DEF WorkersInv, Free
  <2>1. worker[t].step # "none" => work'[worker[t].work] = work[worker[t].work]
    BY <1>2, <1>5, OwnRow DEF WorkerInv
  <2> QED
    BY <1>5, <1>6, <2>1, WorkersMove
<1>8. LateInv'
  BY <1>1, <1>5, LateMoves
<1>9. FinalKept
  BY <1>3, <1>4, EvolvedIsFinal DEF Terminal
<1>10. RuntimeType' /\ AdmittedInv' /\ LocalInv' /\ Exclusive'
  BY <1>1, <1>4, <1>6
  DEF RuntimeType, AdmittedInv, LocalInv, Exclusive, Free, IInv, Evolved, JobEvolves
<1> QED
  BY <1>4, <1>7, <1>8, <1>9, <1>10 DEF IInv

LEMMA LateSaveStep ==
    ASSUME IInv, NEW wk \in late, LateSave(wk)
    PROVE  IInv' /\ FinalKept
<1>1. /\ proc = "down" /\ late' = late \ {wk}
      /\ UNCHANGED <<pv, proc, admitted, rotating, blocked, worker, tokens>>
      /\ UNCHANGED <<remote, wire, local, unread>>
      /\ \/ ~Fenced(wk) /\ work' = SaveTx(wk).work /\ job' = SaveTx(wk).job
         \/ UNCHANGED db
  BY DEF LateSave, apple, runtime
<1>2. wk \in WorkerRec /\ ResultInv(wk, work, remote, unread)
  BY DEF IInv, RuntimeType, LateInv
<1>3. \A t \in Subjects : worker[t].step = "none"
  BY <1>1 DEF IInv, Exclusive, Free
<1>4. \E X : /\ TablesInv' /\ Evolved(job, job') /\ Pruned(work, work', X)
             /\ \A x \in X : work[x].status = "running" /\ work'[x].addr = work[x].addr
             /\ RowsInv(work', remote', unread')
  <2>1. CASE ~Fenced(wk) /\ work' = SaveTx(wk).work /\ job' = SaveTx(wk).job
    <3>1. /\ TablesInv' /\ Evolved(job, job') /\ Pruned(work, work', {wk.work})
          /\ work[wk.work].status = "running" /\ work'[wk.work].addr = work[wk.work].addr
          /\ RowsInv(work', remote', unread')
      BY <1>1, <1>2, <2>1, SaveRows
    <3>2. \A x \in {wk.work} : work[x].status = "running" /\ work'[x].addr = work[x].addr
      BY <3>1
    <3> QED
      BY <3>1, <3>2
  <2>2. CASE UNCHANGED db
    <3>1. TablesInv' /\ Evolved(job, job') /\ Pruned(work, work', {}) /\ work' = work
      BY <2>2, IdleDatabase DEF db
    <3> QED
      BY <1>1, <3>1 DEF IInv
  <2> QED
    BY <1>1, <2>1, <2>2
<1>5. Forward
  BY <1>1, <1>4, PrunedForward
<1>6. LateInv'
  BY <1>1, <1>5, LateMoves
<1>7. FinalKept
  BY <1>4, EvolvedIsFinal DEF Terminal
<1>8. RuntimeType' /\ AdmittedInv' /\ LocalInv' /\ Exclusive' /\ WorkersInv'
  BY <1>1, <1>3, <1>4
  DEF RuntimeType, AdmittedInv, LocalInv, Exclusive, WorkersInv, Free, IInv, Evolved, JobEvolves
<1> QED
  BY <1>4, <1>6, <1>7, <1>8 DEF IInv

LEMMA EnqueueStep ==
    ASSUME IInv, NEW q \in admitted, Enqueue(q)
    PROVE  IInv' /\ FinalKept
<1> DEFINE W == Prune(work, job).work
           J == Prune(work, job).job
           V == Enqueued(W, q.request)
           k == EnqueuedJob(V, q.request, q.pv)
           K == WithJob(J, q.job, k)
<1>1. /\ work' = V /\ job' = K /\ admitted' = {} /\ proc = "up"
      /\ UNCHANGED <<pv, proc, rotating, blocked, worker, tokens, late>>
      /\ UNCHANGED <<remote, wire, local, unread>>
  BY DEF Enqueue, EnqueuedJob, WithJob, apple
<1>2. /\ q.job \in Jobs /\ q.request \in Requests /\ q.pv \in Nat
      /\ job[q.job].status = "absent"
  BY DEF IInv, RuntimeType, AdmittedInv
<1>3. /\ Coherent(W, J, {}) /\ Evolved(job, J) /\ Unwanted(W, J) = {} /\ Pruned(work, W, {})
  BY Table, PruneKeeps
<1> HIDE DEF W, J
<1>4. J[q.job].status = "absent"
  BY <1>2, <1>3 DEF Evolved, JobEvolves
<1>5. Coherent(V, K, {}) /\ Unwanted(V, K) = {} /\ K[q.job].status # "absent"
  BY <1>2, <1>3, <1>4, EnqueueKeeps
<1>6. \A j \in Jobs \ {q.job} : K[j] = J[j]
  <2>1. J \in [Jobs -> JobRec]
    BY <1>3 DEF Coherent
  <2> HIDE DEF k
  <2> QED
    BY <1>2, <2>1 DEF WithJob
<1>7. /\ V \in Seq(WorkRec) /\ DOMAIN W \subseteq DOMAIN V
      /\ \A w \in DOMAIN W : V[w] = W[w]
      /\ \A w \in DOMAIN V \ DOMAIN W :
            w > Len(W) /\ \E a \in Addresses : a \in ToSet(q.request) /\ V[w] = NewWork(a)
  <2>1. W \in Seq(WorkRec) /\ OneActive(W)
    BY <1>3 DEF Coherent
  <2> QED
    BY <1>2, <2>1, EnqueuedFacts
<1> HIDE DEF V, K
<1>8. RowsInv(W, remote, unread)
  BY <1>3, Table, RowsMove DEF IInv
<1>9. /\ DOMAIN W = DOMAIN work
      /\ \A w \in DOMAIN work : /\ W[w].addr = work[w].addr
                                /\ work[w].status = "running" => W[w] = work[w]
  <2>1. \A w \in DOMAIN work : /\ W[w].addr = work[w].addr
                               /\ W[w] = work[w] \/ work[w].status \in Idle
    BY <1>3, Table, PrunedRows
  <2> QED
    BY <1>3, <2>1 DEF Pruned, Idle
<1>10. Forward
  BY <1>1, <1>7, <1>9 DEF Forward
<1>11. \A w \in DOMAIN V \ DOMAIN W : V[w].status = "pending"
  BY <1>7 DEF NewWork
<1>12. RowsInv(V, remote, unread)
  <2>1. Ordered(V)
    <3> SUFFICES ASSUME NEW e \in DOMAIN V, NEW w \in DOMAIN V, V[w].status = "running", e < w,
                        Subject(V[e]) = Subject(V[w]), V[e].status \in Active
                 PROVE  FALSE
      BY DEF Ordered
    <3>1. w \in DOMAIN W
      BY <1>11
    <3>2. e \in DOMAIN W
      <4>1. Len(W) \in Nat /\ DOMAIN W = 1 .. Len(W) /\ Len(V) \in Nat /\ DOMAIN V = 1 .. Len(V)
        BY <1>3, <1>7, WorkRows DEF Coherent
      <4> QED
        BY <1>7, <3>1, <4>1
    <3> QED
      BY <1>7, <1>8, <3>1, <3>2 DEF RowsInv, Ordered
  <2>2. \A w \in DOMAIN V : w \in DOMAIN W \/ V[w].status = "pending"
    BY <1>11
  <2> QED
    BY <1>7, <1>8, <2>1, <2>2 DEF RowsInv, Terminal
<1>13. WorkersInv'
  <2> SUFFICES ASSUME NEW t \in Subjects
               PROVE  worker'[t].step = "none" \/ WorkerInv(worker'[t], t, work', remote', unread')
    BY DEF WorkersInv, Free
  <2>1. worker[t].step # "none" => work'[worker[t].work] = work[worker[t].work]
    BY <1>1, <1>7, <1>9, OwnRow
  <2> QED
    BY <1>1, <1>10, <2>1, WorkersMove
<1>14. LateInv'
  BY <1>1, <1>10, LateMoves
<1>15. FinalKept
  <2>1. \A a \in DOMAIN job[q.job].item : FALSE
    BY <1>2, Table DEF Coherent, JobInv
  <2>2. \A i \in Items : Done(Item(i)) => Item(i)' = Item(i)
    BY <1>1, <1>3, <1>6, <2>1 DEF Items, Item, Evolved, JobEvolves
  <2>3. \A j \in Jobs : job[j].status \in {"completed", "interrupted"}
                            => job'[j].status = job[j].status
    BY <1>1, <1>2, <1>3, <1>6 DEF Evolved, JobEvolves
  <2>4. ASSUME NEW w \in DOMAIN work, work[w].status \in Terminal
        PROVE  work'[w] = work[w]
    <3>1. W[w] = work[w]
      BY <1>3, <2>4 DEF Pruned, RowPruned, Idle, Terminal
    <3> QED
      BY <1>1, <1>7, <1>9, <3>1
  <2> QED
    BY <2>2, <2>3, <2>4 DEF FinalKept
<1>16. TablesInv'
  <2>1. Coherent(work', job', {}) /\ Unwanted(work', job') = {}
    BY <1>1, <1>5
  <2> QED
    BY <2>1 DEF TablesInv
<1>17. RuntimeType' /\ AdmittedInv' /\ LocalInv' /\ Exclusive'
  BY <1>1 DEF RuntimeType, AdmittedInv, LocalInv, Exclusive, Free, IInv
<1> QED
  BY <1>1, <1>12, <1>13, <1>14, <1>15, <1>16, <1>17 DEF IInv

LEMMA StartStep ==
    ASSUME IInv, Start
    PROVE  IInv' /\ FinalKept
<1> DEFINE W == RecoveredWork(work)
           J == [j \in Jobs |-> IF job[j].pv = 0 /\ job[j].status \in {"queued", "running"}
                                THEN [job[j] EXCEPT !.status = "interrupted"] ELSE job[j]]
           S == {w \in DOMAIN W : work[w].status = "running"}
           T == Prune(W, Publish(W, J, S))
<1>1. /\ work' = T.work /\ job' = T.job /\ proc = "down" /\ late' = {}
      /\ UNCHANGED <<pv, admitted, rotating, blocked, worker, tokens>>
      /\ UNCHANGED <<remote, wire, local, unread>>
  BY DEF Start, apple
<1>2. /\ Coherent(T.work, T.job, {}) /\ Evolved(job, T.job)
      /\ Unwanted(T.work, T.job) = {} /\ Pruned(W, T.work, {})
  <2>1. Coherent(work, job, {})
    BY Table
  <2>2. W = RecoveredWork(work)
    OBVIOUS
  <2>3. \A X, Y : X = RecoveredWork(work) /\ Y = J =>
           LET P == Prune(X, Publish(X, Y, {w \in DOMAIN X : work[w].status = "running"}))
           IN  /\ Coherent(P.work, P.job, {}) /\ Evolved(job, P.job)
               /\ Unwanted(P.work, P.job) = {} /\ Pruned(X, P.work, {})
    BY <2>1, StartKeeps
  <2> HIDE DEF J
  <2> QED
    BY <2>3
<1> HIDE DEF T, J
<1>3. /\ W \in Seq(WorkRec) /\ DOMAIN W = DOMAIN work
      /\ \A w \in DOMAIN work :
            /\ W[w].addr = work[w].addr
            /\ work[w].status # "running" => W[w] = work[w]
            /\ work[w].status = "running" => W[w].status = "pending" /\ W[w].reconcile
  BY Table, RecoveredFacts
<1> HIDE DEF W
<1>4. RowsInv(W, remote, unread)
  <2> DEFINE X == {w \in DOMAIN work : work[w].status = "running"}
  <2>1. X \in SUBSET DOMAIN work /\ Pruned(work, W, X)
    BY <1>3 DEF Pruned, RowPruned
  <2>2. \A x \in X : /\ W[x].addr = work[x].addr /\ work[x].status \in Active
                     /\ W[x].status = "pending" /\ W[x].reconcile
                     /\ W[x].status \notin Terminal
    BY <1>3 DEF Active, Terminal
  <2> HIDE DEF X
  <2> QED
    BY <2>1, <2>2, Table, RowsMove DEF IInv
<1>5. RowsInv(work', remote', unread')
  BY <1>1, <1>2, <1>3, <1>4, RowsMove
<1>6. TablesInv'
  <2>1. Coherent(work', job', {}) /\ Unwanted(work', job') = {}
    BY <1>1, <1>2
  <2> QED
    BY <2>1 DEF TablesInv
<1>7. \A s \in Subjects : worker[s].step = "none"
  BY <1>1 DEF IInv, Exclusive, Free
<1>8. RuntimeType' /\ Exclusive' /\ AdmittedInv' /\ LocalInv' /\ WorkersInv' /\ LateInv'
  BY <1>1, <1>2, <1>7
  DEF RuntimeType, AdmittedInv, LocalInv, Exclusive, WorkersInv, LateInv, Free, IInv,
      Evolved, JobEvolves
<1>9. FinalKept
  <2>1. \A i \in Items : Done(Item(i)) => Item(i)' = Item(i)
    BY <1>1, <1>2 DEF Items, Item, Evolved, JobEvolves
  <2>2. ASSUME NEW w \in DOMAIN work, work[w].status \in Terminal
        PROVE  work'[w] = work[w]
    <3>1. W[w] = work[w]
      BY <1>3, <2>2 DEF Terminal
    <3> QED
      BY <1>1, <1>2, <1>3, <2>2, <3>1 DEF Pruned, RowPruned, Idle, Terminal
  <2> QED
    BY <1>1, <1>2, <2>1, <2>2 DEF FinalKept, Evolved, JobEvolves
<1> QED
  BY <1>5, <1>6, <1>8, <1>9 DEF IInv

LEMMA DownStep ==
    ASSUME IInv, Exit \/ Crash
    PROVE  IInv' /\ FinalKept
<1>1. /\ Down
      /\ UNCHANGED <<work, job, pv, tokens, remote, wire, local, unread>>
  BY DEF Exit, Crash, db, apple
<1>2. \A wk \in late' : wk \in late \/ \E s \in Subjects : wk = worker[s] /\ wk.step = "save"
  BY DEF Exit, Crash
<1>3. \A wk \in late' : wk \in WorkerRec /\ ResultInv(wk, work, remote, unread)
  <2> SUFFICES ASSUME NEW wk \in late'
               PROVE  wk \in WorkerRec /\ ResultInv(wk, work, remote, unread)
    OBVIOUS
  <2>1. CASE wk \in late
    BY <2>1 DEF IInv, RuntimeType, LateInv
  <2>2. ASSUME NEW s \in Subjects, wk = worker[s], wk.step = "save"
        PROVE  wk \in WorkerRec /\ ResultInv(wk, work, remote, unread)
    BY <2>2 DEF IInv, RuntimeType, WorkersInv, Free, WorkerInv
  <2> QED
    BY <1>2, <2>1, <2>2
<1>4. /\ worker' \in [Subjects -> WorkerRec]
      /\ \A s \in Subjects : worker'[s].step = "none"
  BY <1>1, NoWorkerRec DEF Down
<1>5. TablesInv' /\ Evolved(job, job') /\ Pruned(work, work', {})
  BY <1>1, IdleDatabase DEF db
<1>6. LateInv'
  BY <1>1, <1>3 DEF LateInv
<1>7. RuntimeType' /\ Exclusive' /\ AdmittedInv' /\ WorkersInv' /\ LocalInv'
  BY <1>1, <1>3, <1>4
  DEF Down, RuntimeType, Exclusive, AdmittedInv, WorkersInv, LocalInv, Free, IInv
<1>8. RowsInv(work', remote', unread')
  BY <1>1 DEF IInv
<1>9. FinalKept
  BY <1>5, EvolvedIsFinal
<1> QED
  BY <1>5, <1>6, <1>7, <1>8, <1>9 DEF IInv

-----------------------------------------------------------------------------
LEMMA InitHolds == Init => IInv
<1> SUFFICES ASSUME Init PROVE IInv
  OBVIOUS
<1>1. work = <<>> /\ work \in Seq(WorkRec) /\ DOMAIN work = {}
  BY EmptySeq DEF Init
<1>2. \A j \in Jobs : /\ job[j] \in JobRec
                      /\ JobInv(work, job[j], {})
  <2> SUFFICES ASSUME NEW j \in Jobs PROVE job[j] \in JobRec /\ JobInv(work, job[j], {})
    OBVIOUS
  <2>1. /\ job[j] \in [status : {"absent", "queued", "running"}, cancel : {FALSE},
                       pv : {0}, item : {<<>>}]
    BY DEF Init
  <2>2. <<>> \in ItemMaps /\ DOMAIN <<>> = {}
    <3>1. <<>> \in [{} -> ItemRec] /\ DOMAIN <<>> = {}
      OBVIOUS
    <3> QED
      BY <3>1 DEF ItemMaps
  <2>3. job[j] \in JobRec
    <3>1. job[j] = [status |-> job[j].status, cancel |-> FALSE, pv |-> 0, item |-> <<>>]
      BY <2>1
    <3>2. job[j].status \in JobStates
      BY <2>1 DEF JobStates
    <3>3. [status |-> job[j].status, cancel |-> FALSE, pv |-> 0, item |-> <<>>] \in JobRec
      BY <2>2, <3>2, QueuedJob
    <3> QED
      BY <3>1, <3>3
  <2>4. job[j].item = <<>> /\ job[j].status \in {"absent", "queued", "running"}
    BY <2>1
  <2> QED
    BY <2>2, <2>3, <2>4 DEF JobInv
<1>3. TablesInv
  <2>1. job \in [Jobs -> JobRec]
    BY <1>2 DEF Init
  <2> QED
    BY <1>1, <1>2, <2>1 DEF TablesInv, Coherent, OneActive, Unwanted
<1>4. RuntimeType
  BY NoWorkerRec, QueueAssumption DEF Init, RuntimeType
<1>5. \A s \in Subjects : Free(s)
  BY DEF Init, Free, NoWorker
<1>6. RowsInv(work, remote, unread)
  BY <1>1 DEF Init, RowsInv, Ordered
<1> QED
  BY <1>3, <1>4, <1>5, <1>6
  DEF Init, IInv, Exclusive, AdmittedInv, WorkersInv, LateInv, LocalInv

LEMMA StepHolds == IInv /\ [Next]_vars => IInv' /\ (FinalKept \/ UNCHANGED vars)
<1> SUFFICES ASSUME IInv, [Next]_vars PROVE IInv' /\ (FinalKept \/ UNCHANGED vars)
  OBVIOUS
<1>1. CASE Next
  <2>1. CASE Start
    BY <2>1, StartStep
  <2>2. CASE Exit \/ Crash
    BY <2>2, DownStep
  <2>3. CASE \/ Scan \/ Stop \/ BeginRotation
             \/ \E j \in Jobs : CancelJob(j) \/ \E r \in Requests : Admit(j, r)
             \/ \E q \in admitted : Refuse(q)
             \/ \E m \in Admins : ChangePassword(m) \/ EndRotation(m)
             \/ \E a \in Addresses : AppleApplies(a)
    BY <2>3, RuntimeSteps
  <2>4. ASSUME NEW q \in admitted, Enqueue(q)
        PROVE  IInv' /\ FinalKept
    BY <2>4, EnqueueStep
  <2>5. ASSUME NEW w \in DOMAIN work, Claim(w) \/ Elapse(w)
        PROVE  IInv' /\ FinalKept
    BY <2>5, ClaimStep, ElapseStep
  <2>6. ASSUME NEW wk \in late, LateSave(wk)
        PROVE  IInv' /\ FinalKept
    BY <2>6, LateSaveStep
  <2>7. ASSUME NEW s \in Subjects, Worker(s)
        PROVE  IInv' /\ FinalKept
    <3>1. CASE Save(s)
      BY <3>1, SaveStep
    <3>2. CASE Attempted(s)
      <4>1. IInv'
        BY <3>2, AttemptKeeps
      <4>2. FinalKept
        BY <3>2, EvolvedIsFinal DEF Attempted
      <4> QED
        BY <4>1, <4>2
    <3> QED
      BY <2>7, <3>1, <3>2, CheckWantedAttempts, ReadDirectoryAttempts, BeforeRequestAttempts,
         UnsentAttempts, DeactivateAttempts, DeactivateReturnsAttempts, DeleteAttempts,
         DeleteReturnsAttempts, RecheckWantedAttempts DEF Worker
  <2> QED
    BY <1>1, <2>1, <2>2, <2>3, <2>4, <2>5, <2>6, <2>7 DEF Next
<1>2. CASE UNCHANGED vars
  <2>1. UNCHANGED <<work, job, pv, proc, admitted, rotating, blocked, worker, tokens, late,
                    remote, wire, local, unread>>
    BY <1>2 DEF vars, db, runtime, apple
  <2>2. IInv'
    BY <2>1
    DEF IInv, TablesInv, RuntimeType, Exclusive, AdmittedInv, WorkersInv, LateInv, LocalInv, Free
  <2> QED
    BY <1>2, <2>2
<1> QED
  BY <1>1, <1>2

LEMMA Invariance == Spec => []IInv
<1>1. IInv /\ [Next]_vars => IInv'
  BY StepHolds
<1> QED
  BY <1>1, InitHolds, PTL DEF Spec

-----------------------------------------------------------------------------
(* The theorems.                                                           *)

\* Jobs, works, subscriptions and the audit log agree after every transaction
\* (alias_deletion_queue.go): an open item has an active work, an idle work somebody who
\* wants it or something to reconcile, an address one active work, an end one audit record.
THEOREM TablesAgreeHolds == Spec => []TablesAgree
<1>1. IInv => TablesAgree
  <2> SUFFICES ASSUME IInv PROVE TablesAgree
    OBVIOUS
  <2>1. Coherent(work, job, {}) /\ Unwanted(work, job) = {}
    BY Table
  <2>2. NoOrphanItem
    BY <2>1 DEF NoOrphanItem, Items, Item, Coherent, JobInv
  <2>3. AuditedOnce
    BY <2>1 DEF AuditedOnce, Items, Item, Coherent, JobInv
  <2>4. UniqueActiveWork
    <3> SUFFICES ASSUME NEW x \in Addresses
                 PROVE  Cardinality(ActiveWork(work, x)) <= 1
      BY DEF UniqueActiveWork
    <3>1. \A v, w \in ActiveWork(work, x) : v = w
      BY <2>1 DEF Coherent, OneActive, ActiveWork
    <3>2. CASE ActiveWork(work, x) = {}
      BY <3>2, FS_EmptySet
    <3>3. ASSUME NEW w \in ActiveWork(work, x)
          PROVE  Cardinality(ActiveWork(work, x)) <= 1
      <4>1. ActiveWork(work, x) = {w}
        BY <3>1
      <4>2. Cardinality({w}) = 1
        BY FS_Singleton
      <4> QED
        BY <4>1, <4>2
    <3> QED
      BY <3>2, <3>3
  <2> QED
    BY <2>1, <2>2, <2>3, <2>4 DEF TablesAgree, NoUnwantedIdleWork
<1> QED
  BY <1>1, Invariance, PTL

\* A waiting or running head of an identity keeps the later works from overtaking
\* (ListAliasDeletionQueueHeads, ClaimAliasDeletionWork).
THEOREM FifoHolds == Spec => []Fifo
<1>1. IInv => Fifo
  <2> SUFFICES ASSUME IInv, NEW w \in DOMAIN work, work[w].status = "running",
                      NEW e \in 1 .. w - 1, Subject(work[e]) = Subject(work[w]),
                      work[e].status \in Active
               PROVE  FALSE
    BY DEF Fifo
  <2>1. e \in DOMAIN work /\ e < w
    BY Table
  <2> QED
    BY <2>1 DEF IInv, RowsInv, Ordered
<1> QED
  BY <1>1, Invariance, PTL

\* A worker works only on a row that is still its own claim, and none works beside a
\* rotation of the credentials (SaveAliasDeletionWork's token, the rotation lock).
THEOREM WorkerActsAloneHolds == Spec => []WorkerActsAlone
<1>1. IInv => WorkerActsAlone
  BY DEF IInv, WorkersInv, WorkerInv, Exclusive, WorkerActsAlone, WorkerOwnsClaim,
         RotationExclusive, Fenced, Free
<1> QED
  BY <1>1, Invariance, PTL

\* An alias is forgotten locally, and its work succeeds, only when Apple's directory no
\* longer has the address (deleteLocal after the confirmation).
THEOREM ConfirmedByAppleHolds == Spec => []ConfirmedByApple
<1>1. IInv => ConfirmedByApple
  BY DEF IInv, LocalInv, RowsInv, ConfirmedByApple
<1> QED
  BY <1>1, Invariance, PTL

\* A delete with an unknown outcome is looked up before its work is closed as cancelled
\* and before the next mutation of the address (cancelUnwantedDeletionWorkTx, DeleteQueuedAlias).
THEOREM UnknownIsReconciledHolds == Spec => []UnknownIsReconciled
<1>1. IInv => UnknownIsReconciled
  <2> SUFFICES ASSUME IInv PROVE UnknownIsReconciled
    OBVIOUS
  <2>1. CancelledIsReconciled
    BY DEF IInv, RowsInv, CancelledIsReconciled
  <2>2. ReadBeforeMutation
    <3> SUFFICES ASSUME NEW s \in Subjects,
                        worker[s].step \in {"deactivate", "deactivating", "delete", "deleting"},
                        NEW w \in WorksOf(Addr(s)), w \in unread
                 PROVE  FALSE
      BY DEF ReadBeforeMutation, Sending
    <3>1. WorkerInv(worker[s], s, work, remote, unread)
      BY DEF IInv, WorkersInv, Free
    <3> QED
      BY <3>1 DEF WorkerInv, WorksOf, Addr, Afresh
  <2> QED
    BY <2>1, <2>2 DEF UnknownIsReconciled
<1> QED
  BY <1>1, Invariance, PTL

\* No late worker, recovery or cancellation rewrites a finished item, a finished work or
\* the status of a completed or interrupted job.
THEOREM FinalIsFinalHolds == Spec => FinalIsFinal
<1>1. IInv /\ [Next]_vars => [FinalKept]_vars
  BY StepHolds
<1>2. IInv /\ [Next]_vars =>
         [/\ \A i \in Items : Done(Item(i)) => Item(i)' = Item(i)
          /\ \A w \in DOMAIN work : work[w].status \in Terminal => work'[w] = work[w]
          /\ \A j \in Jobs : job[j].status \in {"completed", "interrupted"}
                                 => job'[j].status = job[j].status]_vars
  BY <1>1 DEF FinalKept
<1> QED
  BY <1>2, Invariance, PTL DEF Spec, FinalIsFinal

-----------------------------------------------------------------------------
(* The queue implements DeletionOrders.  The mapping needs more than IInv: *)
(* which work an item waits for, who stands behind a cancelled one, and    *)
(* what a worker that is about to save has found out (OrdersInv).  A step  *)
(* of the tables withdraws orders (Renounces) or answers them (Answers).   *)

\* An item waits for a work on its own address; what lost its subscription to an active
\* work, and what was interrupted, belongs to a cancelled job.
FiledJob(W, r) ==
    /\ \A a \in DOMAIN r.item :
          /\ W[r.item[a].work].addr = a
          /\ W[r.item[a].work].status \in Active => r.item[a].active \/ r.cancel
    /\ r.pv = 0 => DOMAIN r.item = {}
    /\ r.status = "absent" => ~r.cancel
    /\ r.status = "interrupted" => r.cancel \/ DOMAIN r.item = {}
Owned(W, J) == \A w \in DOMAIN W :
    \E j \in Jobs : \E a \in DOMAIN J[j].item : J[j].item[a].work = w
Filed(W, J) == (\A j \in Jobs : FiledJob(W, J[j])) /\ Owned(W, J)

\* A job that names the address was cancelled or lost its authorisation.
Shunned(J, a) == \E j \in Jobs : J[j].cancel /\ a \in DOMAIN J[j].item

\* What a worker that is about to save has found out.
Backed(wk, W, J, L) ==
    /\ wk.status = "cancelled" => Shunned(J, W[wk.work].addr)
    /\ wk.status = "succeeded" => W[wk.work].addr \notin L

OrdersInv ==
    /\ Filed(work, job)
    /\ \A m \in Admins : pv[m] # 0
    /\ \A q \in admitted : q.pv # 0
    /\ \A s \in Subjects : worker[s].step = "save" => Backed(worker[s], work, job, local)
    /\ \A wk \in late : Backed(wk, work, job, local)

-----------------------------------------------------------------------------
(* The transactions, and what becomes of the items that wait for a work.   *)

\* What the transactions do to a job, as the works V stand after them.
JobFollows(V, r, k) ==
    /\ DOMAIN k.item = DOMAIN r.item
    /\ \A a \in DOMAIN r.item :
          /\ k.item[a].work = r.item[a].work
          /\ V[r.item[a].work].status \in Active /\ r.item[a].active
                => k.item[a].active \/ k.cancel
    /\ k.pv = r.pv
    /\ r.cancel => k.cancel
    /\ k.status = "absent" => k.cancel = r.cancel
    /\ k.status = "interrupted" => r.status = "interrupted" \/ k.cancel \/ k.pv = 0
Follows(V, J, K) == \A j \in Jobs : JobFollows(V, J[j], K[j])

\* They end an open item only as cancelled, in a job that is, and never one whose work W runs.
JobSpares(W, r, k) ==
    \A a \in DOMAIN r.item :
       ~Done(r.item[a]) =>
          \/ ~Done(k.item[a])
          \/ k.item[a].state = "cancelled" /\ k.cancel /\ W[r.item[a].work].status # "running"
Spares(W, J, K) == \A j \in Jobs : JobSpares(W, J[j], K[j])

\* The rows stay where they are, and none becomes active again.
RowsStay(W, V) ==
    /\ DOMAIN V = DOMAIN W
    /\ \A w \in DOMAIN W :
          V[w].addr = W[w].addr /\ (V[w].status \in Active => W[w].status \in Active)

LEMMA FollowsFiled ==
    ASSUME NEW W, NEW J, NEW S, Coherent(W, J, S), Filed(W, J), NEW V, RowsStay(W, V),
           NEW K, Follows(V, J, K), Evolved(J, K)
    PROVE  Filed(V, K)
<1>1. ASSUME NEW j \in Jobs
      PROVE  FiledJob(V, K[j])
  <2>1. /\ FiledJob(W, J[j]) /\ JobFollows(V, J[j], K[j]) /\ JobEvolves(J[j], K[j])
        /\ \A a \in DOMAIN J[j].item : J[j].item[a].work \in DOMAIN W
    BY DEF Filed, Follows, Evolved, Coherent, JobInv
  <2>2. \A a \in DOMAIN K[j].item :
           /\ V[K[j].item[a].work].addr = a
           /\ V[K[j].item[a].work].status \in Active => K[j].item[a].active \/ K[j].cancel
    BY <2>1 DEF FiledJob, JobFollows, RowsStay
  <2>3. /\ K[j].pv = 0 => DOMAIN K[j].item = {}
        /\ K[j].status = "absent" => ~K[j].cancel
        /\ K[j].status = "interrupted" => K[j].cancel \/ DOMAIN K[j].item = {}
    BY <2>1 DEF FiledJob, JobFollows, JobEvolves
  <2> QED
    BY <2>2, <2>3 DEF FiledJob
<1>2. Owned(V, K)
  BY DEF Filed, Owned, Follows, JobFollows, RowsStay
<1> QED
  BY <1>1, <1>2 DEF Filed

LEMMA FollowsTransitive ==
    ASSUME NEW V, NEW J, NEW K, NEW L, NEW U, Follows(U, J, K), Follows(V, K, L),
           Evolved(K, L), RowsStay(U, V), \A j \in Jobs : \A a \in DOMAIN J[j].item :
              J[j].item[a].work \in DOMAIN U
    PROVE  Follows(V, J, L)
<1> SUFFICES ASSUME NEW j \in Jobs PROVE JobFollows(V, J[j], L[j])
  BY DEF Follows
<1>1. JobFollows(U, J[j], K[j]) /\ JobFollows(V, K[j], L[j]) /\ JobEvolves(K[j], L[j])
  BY DEF Follows, Evolved
<1>2. \A a \in DOMAIN J[j].item :
         /\ L[j].item[a].work = J[j].item[a].work
         /\ V[J[j].item[a].work].status \in Active /\ J[j].item[a].active
               => L[j].item[a].active \/ L[j].cancel
  BY <1>1 DEF JobFollows, RowsStay
<1> QED
  BY <1>1, <1>2 DEF JobFollows, JobEvolves

LEMMA SparesTransitive ==
    ASSUME NEW W, NEW V, NEW J, NEW K, NEW L, NEW U, Follows(U, J, K), Follows(V, K, L),
           Evolved(K, L), Spares(W, J, K), Spares(W, K, L)
    PROVE  Spares(W, J, L)
<1> SUFFICES ASSUME NEW j \in Jobs, NEW a \in DOMAIN J[j].item, ~Done(J[j].item[a])
             PROVE  \/ ~Done(L[j].item[a])
                    \/ /\ L[j].item[a].state = "cancelled" /\ L[j].cancel
                       /\ W[J[j].item[a].work].status # "running"
  BY DEF Spares, JobSpares
<1>1. /\ JobFollows(U, J[j], K[j]) /\ JobFollows(V, K[j], L[j]) /\ JobEvolves(K[j], L[j])
      /\ JobSpares(W, J[j], K[j]) /\ JobSpares(W, K[j], L[j])
  BY DEF Follows, Evolved, Spares
<1>2. CASE ~Done(K[j].item[a])
  BY <1>1, <1>2 DEF JobFollows, JobSpares
<1>3. CASE Done(K[j].item[a])
  BY <1>1, <1>3 DEF JobFollows, JobSpares, JobEvolves
<1> QED
  BY <1>2, <1>3

\* An open item that waits for one of the works S is told the status of that work.
Tells(W, J, K, S) ==
    \A j \in Jobs : \A a \in DOMAIN J[j].item :
       K[j].item[a].state = IF J[j].item[a].work \in S /\ ~Done(J[j].item[a])
                            THEN W[J[j].item[a].work].status ELSE J[j].item[a].state
SameCancel(J, K) == \A j \in Jobs : K[j].cancel = J[j].cancel

LEMMA PublishFollows ==
    ASSUME NEW W, NEW J, NEW S, Coherent(W, J, S)
    PROVE  LET K == Publish(W, J, S)
           IN  Follows(W, J, K) /\ Tells(W, J, K, S) /\ SameCancel(J, K)
<1> DEFINE K == Publish(W, J, S)
<1>1. ASSUME NEW j \in Jobs
      PROVE  /\ K[j].cancel = J[j].cancel /\ K[j].pv = J[j].pv
             /\ K[j].status = "interrupted" <=> J[j].status = "interrupted"
             /\ DOMAIN K[j].item = DOMAIN J[j].item
             /\ \A a \in DOMAIN K[j].item :
                   LET it == J[j].item[a]
                   IN  /\ K[j].item[a].work = it.work
                       /\ K[j].item[a].state = IF it.work \in S /\ ~Done(it)
                                               THEN W[it.work].status ELSE it.state
                       /\ K[j].item[a].active <=>
                             it.active /\ (it.work \in S => W[it.work].status \notin Terminal)
  BY PublishFacts
<1> HIDE DEF K
<1>2. Active \cap Terminal = {}
  BY DEF Active, Idle, Terminal
<1>3. Follows(W, J, K)
  BY <1>1, <1>2 DEF Follows, JobFollows
<1>4. Tells(W, J, K, S) /\ SameCancel(J, K)
  BY <1>1 DEF Tells, SameCancel
<1> QED
  BY <1>3, <1>4 DEF K

LEMMA CancelJobsFollows ==
    ASSUME NEW W, NEW J, Coherent(W, J, {}), NEW C,
           \A j \in Jobs \cap C : J[j].status \in {"queued", "running"}, NEW interrupted
    PROVE  LET K == CancelJobs(W, J, C, interrupted)
           IN  /\ Follows(W, J, K) /\ Spares(W, J, K)
               /\ \A j \in Jobs \cap C : K[j].cancel
<1> DEFINE K == CancelJobs(W, J, C, interrupted)
<1>1. ASSUME NEW j \in Jobs
      PROVE  JobFollows(W, J[j], K[j]) /\ JobSpares(W, J[j], K[j]) /\ (j \in C => K[j].cancel)
  <2>1. /\ JobEvolves(J[j], K[j]) /\ (j \notin C => K[j] = J[j])
        /\ j \in C => JobCancelled(W, J[j], K[j])
    BY CancelJobsFacts
  <2> HIDE DEF K
  <2>2. CASE j \notin C
    BY <2>1, <2>2 DEF JobFollows, JobSpares
  <2>3. CASE j \in C
    <3>1. JobFollows(W, J[j], K[j])
      BY <2>1, <2>3 DEF JobFollows, JobEvolves, JobCancelled
    <3>2. JobSpares(W, J[j], K[j])
      BY <2>1, <2>3 DEF JobSpares, JobCancelled, Done
    <3> QED
      BY <2>1, <2>3, <3>1, <3>2 DEF JobCancelled
  <2> QED
    BY <2>2, <2>3
<1> QED
  BY <1>1 DEF Follows, Spares

LEMMA CancelUnwantedFollows ==
    ASSUME NEW W, NEW J, Coherent(W, J, {})
    PROVE  LET T == CancelUnwanted(W, J)
           IN  Follows(T.work, J, T.job) /\ Spares(W, J, T.job) /\ RowsStay(W, T.work)
<1> DEFINE T == CancelUnwanted(W, J)
           S == Unwanted(W, J)
           V == [w \in DOMAIN W |-> IF w \in S THEN Cancelled(W[w]) ELSE W[w]]
<1>1. /\ \A w \in DOMAIN W : W[w] \in WorkRec
      /\ W \in Seq(WorkRec)
      /\ Coherent(T.work, T.job, {}) /\ Pruned(W, T.work, {})
  BY CancelUnwantedKeeps, WorkRows DEF Coherent
<1>2. RowsStay(W, T.work)
  <2> HIDE DEF T
  <2>1. \A w \in DOMAIN W : /\ T.work[w].addr = W[w].addr
                            /\ \/ T.work[w] = W[w]
                               \/ W[w].status \in Idle
    BY <1>1, PrunedRows
  <2> QED
    BY <1>1, <2>1 DEF RowsStay, Pruned, Active
<1>3. CASE S = {}
  <2>1. T.work = W /\ T.job = J
    BY <1>3 DEF CancelUnwanted
  <2> QED
    BY <1>2, <2>1 DEF Follows, JobFollows, Spares, JobSpares
<1>4. CASE S # {}
  <2> DEFINE K == Publish(V, J, S)
  <2>1. T.work = V /\ T.job = K
    BY <1>4 DEF CancelUnwanted
  <2>2. \A w \in S : w \in DOMAIN W /\ W[w].status \in Idle /\ ~Subscribed(J, w)
    BY DEF Unwanted
  <2>3. \A w \in DOMAIN W : V[w] = IF w \in S THEN Cancelled(W[w]) ELSE W[w]
    OBVIOUS
  <2> HIDE DEF S, V, T, K
  <2>4. \A w \in S : V[w].status = "cancelled"
    BY <1>1, <2>2, <2>3, CancelledWork
  <2>5. V \in Seq(WorkRec) /\ DOMAIN V = DOMAIN W
    BY <1>1, <2>1 DEF Coherent, Pruned
  <2>6. Coherent(V, J, S)
    <3>1. \A w \in DOMAIN W : /\ V[w].addr = W[w].addr
                              /\ V[w].status \in Active => W[w].status \in Active
                              /\ w \notin S => V[w].status = W[w].status
      BY <1>2, <2>1, <2>3 DEF RowsStay
    <3> QED
      BY <2>5, <3>1, ChangedWorks
  <2>7. Follows(V, J, K) /\ Tells(V, J, K, S) /\ SameCancel(J, K)
    BY <2>6, PublishFollows DEF K
  <2>8. Spares(W, J, K)
    <3> SUFFICES ASSUME NEW j \in Jobs, NEW a \in DOMAIN J[j].item, ~Done(J[j].item[a]),
                        Done(K[j].item[a])
                 PROVE  /\ K[j].item[a].state = "cancelled" /\ K[j].cancel
                        /\ W[J[j].item[a].work].status # "running"
      BY DEF Spares, JobSpares
    <3>1. J[j].item[a].work \in S
      BY <2>7 DEF Done, Tells
    <3>2. J[j].cancel
      BY <2>2, <3>1 DEF Coherent, JobInv, Subscribed
    <3> QED
      BY <2>2, <2>4, <2>7, <3>1, <3>2 DEF Idle, Tells, SameCancel
  <2> QED
    BY <1>2, <2>1, <2>7, <2>8 DEF T
<1> QED
  BY <1>3, <1>4

LEMMA StaleFalls ==
    ASSUME NEW V, NEW J, NEW K, Follows(V, J, K), Evolved(J, K),
           J \in [Jobs -> JobRec], K \in [Jobs -> JobRec]
    PROVE  Stale(K) \subseteq Stale(J)
<1> SUFFICES ASSUME NEW j \in Stale(K) PROVE j \in Stale(J)
  OBVIOUS
<1>1. j \in Jobs /\ K[j].status \in {"queued", "running"}
  BY DEF Stale
<1>2. JobFollows(V, J[j], K[j]) /\ JobEvolves(J[j], K[j]) /\ J[j] \in JobRec
  BY <1>1 DEF Follows, Evolved
<1>3. J[j].status \in {"queued", "running"}
  BY <1>1, <1>2 DEF JobEvolves, JobRec, JobStates
<1> QED
  BY <1>1, <1>2, <1>3 DEF Stale, JobFollows

LEMMA PruneFollows ==
    ASSUME NEW W, NEW J, Coherent(W, J, {})
    PROVE  LET T == Prune(W, J)
           IN  /\ Follows(T.work, J, T.job) /\ Spares(W, J, T.job) /\ RowsStay(W, T.work)
               /\ Stale(T.job) = {}
<1>1. CASE Stale(J) = {}
  <2>1. Prune(W, J) = CancelUnwanted(W, J)
    BY <1>1 DEF Prune
  <2> DEFINE T == CancelUnwanted(W, J)
  <2>2. Follows(T.work, J, T.job) /\ Spares(W, J, T.job) /\ RowsStay(W, T.work)
    BY CancelUnwantedFollows
  <2>3. Coherent(T.work, T.job, {}) /\ Evolved(J, T.job)
    BY CancelUnwantedKeeps
  <2> HIDE DEF T
  <2>4. Stale(T.job) \subseteq Stale(J)
    BY <2>2, <2>3, StaleFalls DEF Coherent
  <2> QED
    BY <1>1, <2>1, <2>2, <2>4 DEF T
<1>2. CASE Stale(J) # {}
  <2> DEFINE K == CancelJobs(W, J, Stale(J), TRUE)
             T == CancelUnwanted(W, K)
  <2>1. \A j \in Jobs \cap Stale(J) : J[j].status \in {"queued", "running"}
    BY DEF Stale
  <2>2. /\ Coherent(W, K, {}) /\ Evolved(J, K) /\ Follows(W, J, K) /\ Spares(W, J, K)
        /\ \A j \in Jobs \cap Stale(J) : K[j].cancel
    BY <2>1, CancelJobsKeeps, CancelJobsFollows
  <2>3. Prune(W, J) = T
    BY <1>2 DEF Prune
  <2> HIDE DEF K
  <2>4. Follows(T.work, K, T.job) /\ Spares(W, K, T.job) /\ RowsStay(W, T.work)
    BY <2>2, CancelUnwantedFollows
  <2>5. Coherent(T.work, T.job, {}) /\ Evolved(K, T.job)
    BY <2>2, CancelUnwantedKeeps
  <2> HIDE DEF T
  <2>6. Follows(T.work, J, T.job)
    <3>1. \A j \in Jobs : \A a \in DOMAIN J[j].item : J[j].item[a].work \in DOMAIN W
      BY DEF Coherent, JobInv
    <3> QED
      BY <2>2, <2>4, <2>5, <3>1, FollowsTransitive
  <2>7. Spares(W, J, T.job)
    BY <2>2, <2>4, <2>5, SparesTransitive
  <2>8. Stale(T.job) = {}
    <3>1. Stale(T.job) \subseteq Stale(K) /\ Stale(K) \subseteq Stale(J)
      BY <2>2, <2>4, <2>5, StaleFalls DEF Coherent
    <3>2. Stale(J) \subseteq Jobs /\ \A j \in Stale(K) : ~K[j].cancel
      BY DEF Stale
    <3> QED
      BY <2>2, <3>1, <3>2
  <2> QED
    BY <2>3, <2>4, <2>6, <2>7, <2>8
<1> QED
  BY <1>1, <1>2

\* After a prune, a job behind a work that is not wanted is cancelled.
LEMMA NotWanted ==
    ASSUME NEW W, NEW J, Coherent(W, J, {}), Filed(W, J), Stale(J) = {},
           NEW w, W[w].status \in Active, ~Wanted(J, w)
    PROVE  \A j \in Jobs : \A a \in DOMAIN J[j].item : J[j].item[a].work = w => J[j].cancel
<1> SUFFICES ASSUME NEW j \in Jobs, NEW a \in DOMAIN J[j].item, J[j].item[a].work = w,
                    ~J[j].cancel
             PROVE  FALSE
  OBVIOUS
<1>1. FiledJob(W, J[j]) /\ JobInv(W, J[j], {}) /\ J[j] \in JobRec
  BY DEF Filed, Coherent
<1>2. J[j].item[a].active /\ J[j].pv # 0
  BY <1>1 DEF FiledJob
<1>3. J[j].status \in {"queued", "running"}
  BY <1>1, <1>2 DEF FiledJob, JobInv, JobRec, JobStates
<1>4. J[j].pv # pv[OwnerOf[j]]
  BY <1>2 DEF Wanted
<1> QED
  BY <1>2, <1>3, <1>4 DEF Stale

\* What a prune leaves of the tables.
Tidied(P) ==
    /\ Coherent(P.work, P.job, {}) /\ Filed(P.work, P.job)
    /\ Evolved(job, P.job) /\ Follows(P.work, job, P.job) /\ Spares(work, job, P.job)
    /\ RowsStay(work, P.work) /\ Stale(P.job) = {}
    /\ \A w \in DOMAIN work : work[w].status = "running" => P.work[w] = work[w]

LEMMA PruneTidies ==
    ASSUME Coherent(work, job, {}), Filed(work, job)
    PROVE  Tidied(Prune(work, job))
<1> DEFINE P == Prune(work, job)
<1>1. /\ Coherent(P.work, P.job, {}) /\ Evolved(job, P.job) /\ Pruned(work, P.work, {})
  BY PruneKeeps
<1>2. /\ Follows(P.work, job, P.job) /\ Spares(work, job, P.job) /\ RowsStay(work, P.work)
      /\ Stale(P.job) = {}
  BY PruneFollows
<1> HIDE DEF P
<1>3. Filed(P.work, P.job)
  BY <1>1, <1>2, FollowsFiled
<1>4. \A w \in DOMAIN work : work[w].status = "running" => P.work[w] = work[w]
  BY <1>1, PrunedRows DEF Coherent, Idle
<1> QED
  BY <1>1, <1>2, <1>3, <1>4 DEF Tidied, P

\* Publishing one row that was changed after the prune: from job to K, the works being V.
RowTold(P, w, n, V, K) ==
    /\ Filed(V, K) /\ Follows(V, job, K) /\ Evolved(job, K)
    /\ \A j \in Jobs : \A a \in DOMAIN job[j].item :
          ~Done(job[j].item[a]) =>
             LET new == K[j].item[a]
             IN  \/ ~Done(new)
                 \/ /\ new.state = "cancelled" /\ K[j].cancel
                    /\ work[job[j].item[a].work].status # "running"
                 \/ job[j].item[a].work = w /\ new.state = n.status
    /\ \A j \in Jobs : K[j].cancel = P.job[j].cancel
    /\ \A j \in Jobs : \A a \in DOMAIN job[j].item :
          ~Done(job[j].item[a]) /\ job[j].item[a].work = w /\ work[w].status = "running"
             => K[j].item[a].state = n.status

LEMMA PublishRow ==
    ASSUME NEW P, Tidied(P), NEW w \in DOMAIN work, P.work[w].status \in Active,
           NEW n \in WorkRec, n.addr = P.work[w].addr,
           NEW V, V = [P.work EXCEPT ![w] = n], NEW K, K = Publish(V, P.job, {w})
    PROVE  RowTold(P, w, n, V, K)
<1>1. /\ Coherent(P.work, P.job, {}) /\ Filed(P.work, P.job)
      /\ Evolved(job, P.job) /\ Follows(P.work, job, P.job) /\ Spares(work, job, P.job)
      /\ RowsStay(work, P.work)
  BY DEF Tidied
<1>2. P.work \in Seq(WorkRec) /\ DOMAIN P.work = DOMAIN work
      /\ Len(P.work) \in Nat /\ DOMAIN P.work = 1 .. Len(P.work)
  BY <1>1, WorkRows DEF Coherent, RowsStay
<1>3. V \in Seq(WorkRec)
  BY <1>2, ExceptSeq
<1>4. V[w] = n /\ DOMAIN V = DOMAIN work /\ \A x \in DOMAIN work \ {w} : V[x] = P.work[x]
  BY <1>2
<1>5. RowsStay(P.work, V) /\ Coherent(V, P.job, {w})
  <2>1. RowsStay(P.work, V)
    BY <1>2, <1>4 DEF RowsStay
  <2>2. \A x \in DOMAIN P.work :
           /\ V[x].addr = P.work[x].addr
           /\ V[x].status \in Active => P.work[x].status \in Active
           /\ x \notin {w} => V[x].status = P.work[x].status
    BY <1>2, <1>4
  <2> QED
    BY <1>1, <1>2, <1>3, <1>4, <2>1, <2>2, ChangedWorks
<1>6. Coherent(V, K, {}) /\ Evolved(P.job, K)
  BY <1>5, PublishKeeps
<1>7. Follows(V, P.job, K) /\ Tells(V, P.job, K, {w}) /\ SameCancel(P.job, K)
  BY <1>5, PublishFollows
<1>8. Filed(V, K)
  BY <1>1, <1>5, <1>6, <1>7, FollowsFiled
<1>9. Follows(V, job, K)
  <2>1. ASSUME NEW j \in Jobs, NEW a \in DOMAIN job[j].item
        PROVE  job[j].item[a].work \in DOMAIN P.work
    <3>1. JobFollows(P.work, job[j], P.job[j]) /\ JobInv(P.work, P.job[j], {})
      BY <1>1 DEF Follows, Coherent
    <3> QED
      BY <3>1 DEF JobFollows, JobInv
  <2>2. RowsStay(P.work, V) /\ Evolved(P.job, K) /\ Follows(V, P.job, K)
    BY <1>5, <1>6, <1>7
  <2>3. Follows(P.work, job, P.job)
    BY <1>1
  <2> QED
    BY <2>1, <2>2, <2>3, FollowsTransitive
<1>10. Evolved(job, K)
  BY <1>1, <1>6, EvolvedTransitive
<1>11. \A j \in Jobs : K[j].cancel = P.job[j].cancel
  BY <1>7 DEF SameCancel
<1>12. ASSUME NEW j \in Jobs, NEW a \in DOMAIN job[j].item, ~Done(job[j].item[a])
       PROVE  LET new == K[j].item[a]
              IN  /\ \/ ~Done(new)
                     \/ /\ new.state = "cancelled" /\ K[j].cancel
                        /\ work[job[j].item[a].work].status # "running"
                     \/ job[j].item[a].work = w /\ new.state = n.status
                  /\ job[j].item[a].work = w /\ work[w].status = "running"
                        => new.state = n.status
  <2>1. /\ a \in DOMAIN P.job[j].item /\ P.job[j].item[a].work = job[j].item[a].work
        /\ \/ ~Done(P.job[j].item[a])
           \/ /\ P.job[j].item[a].state = "cancelled" /\ P.job[j].cancel
              /\ work[job[j].item[a].work].status # "running"
    BY <1>1, <1>12 DEF Follows, JobFollows, Spares, JobSpares
  <2>2. K[j].item[a].state = IF P.job[j].item[a].work = w /\ ~Done(P.job[j].item[a])
                             THEN n.status ELSE P.job[j].item[a].state
    <3>1. K[j].item[a].state = IF P.job[j].item[a].work \in {w} /\ ~Done(P.job[j].item[a])
                               THEN V[P.job[j].item[a].work].status ELSE P.job[j].item[a].state
      BY <1>7, <2>1 DEF Tells
    <3>2. V[w].status = n.status
      BY <1>4
    <3> QED
      BY <3>1, <3>2
  <2>3. K[j].cancel = P.job[j].cancel
    BY <1>11
  <2> QED
    BY <2>1, <2>2, <2>3 DEF Done
<1> QED
  BY <1>8, <1>9, <1>10, <1>11, <1>12 DEF RowTold

-----------------------------------------------------------------------------
(* How the tables appear to whoever ordered.                               *)
OrderOf(J) == [j \in Jobs |-> [x \in DOMAIN J[j].item |->
                 IF Done(J[j].item[x]) THEN J[j].item[x].state ELSE "open"]]
RevokedOf(J) == {j \in Jobs : J[j].cancel}

\* From J to K some open items end as cancelled, each on an address that is shunned and not
\* cleared for a mutation.
Renounces(J, K) ==
    \A j \in Jobs :
       /\ DOMAIN K[j].item = DOMAIN J[j].item /\ (J[j].cancel => K[j].cancel)
       /\ \A a \in DOMAIN J[j].item :
             /\ a \in Addresses
             /\ Done(J[j].item[a]) => K[j].item[a].state = J[j].item[a].state
             /\ ~Done(J[j].item[a]) /\ Done(K[j].item[a])
                   => K[j].item[a].state = "cancelled" /\ Shunned(K, a) /\ a \notin Cleared
Ends(J, K) == {i \in Jobs \X Addresses : /\ i[2] \in DOMAIN J[i[1]].item
                                         /\ ~Done(J[i[1]].item[i[2]])
                                         /\ Done(K[i[1]].item[i[2]])}

LEMMA OrderAt ==
    ASSUME NEW J, NEW j \in Jobs
    PROVE  /\ DOMAIN OrderOf(J)[j] = DOMAIN J[j].item
           /\ \A x \in DOMAIN J[j].item :
                 /\ OrderOf(J)[j][x] = IF Done(J[j].item[x]) THEN J[j].item[x].state ELSE "open"
                 /\ OrderOf(J)[j][x] = "open" <=> ~Done(J[j].item[x])
  BY DEF OrderOf, Done, Terminal

LEMMA OrderShape ==
    ASSUME NEW J
    PROVE  /\ OrderOf(J) = [j \in Jobs |-> OrderOf(J)[j]]
           /\ \A j \in Jobs : OrderOf(J)[j] = [x \in DOMAIN J[j].item |-> OrderOf(J)[j][x]]
  BY DEF OrderOf

LEMMA Renounced ==
    ASSUME NEW J, NEW K, Renounces(J, K), NEW S, S = Ends(J, K)
    PROVE  /\ S \in SUBSET {i \in Jobs \X Addresses : /\ i[2] \in DOMAIN OrderOf(J)[i[1]]
                                                      /\ OrderOf(J)[i[1]][i[2]] = "open"}
           /\ RevokedOf(J) \subseteq RevokedOf(K) /\ RevokedOf(K) \subseteq Jobs
           /\ \A i \in S : /\ i[2] \notin Cleared
                          /\ \E k \in RevokedOf(K) : i[2] \in DOMAIN OrderOf(J)[k]
           /\ [j \in Jobs |-> [a \in DOMAIN OrderOf(J)[j] |->
                 IF <<j, a>> \in S THEN "cancelled" ELSE OrderOf(J)[j][a]]] = OrderOf(K)
<1>1. \A i \in S : /\ i \in Jobs \X Addresses /\ i[1] \in Jobs
                   /\ i[2] \in DOMAIN J[i[1]].item
                   /\ ~Done(J[i[1]].item[i[2]]) /\ Done(K[i[1]].item[i[2]])
  BY DEF Ends
<1>2. S \in SUBSET {i \in Jobs \X Addresses : /\ i[2] \in DOMAIN OrderOf(J)[i[1]]
                                              /\ OrderOf(J)[i[1]][i[2]] = "open"}
  BY <1>1, OrderAt
<1>3. RevokedOf(J) \subseteq RevokedOf(K) /\ RevokedOf(K) \subseteq Jobs
  BY DEF Renounces, RevokedOf
<1>4. ASSUME NEW i \in S
      PROVE  i[2] \notin Cleared /\ \E k \in RevokedOf(K) : i[2] \in DOMAIN OrderOf(J)[k]
  <2>1. Shunned(K, i[2]) /\ i[2] \notin Cleared
    BY <1>1 DEF Renounces
  <2>2. PICK k \in Jobs : K[k].cancel /\ i[2] \in DOMAIN K[k].item
    BY <2>1 DEF Shunned
  <2>3. k \in RevokedOf(K) /\ i[2] \in DOMAIN J[k].item
    BY <2>2 DEF Renounces, RevokedOf
  <2> QED
    BY <2>1, <2>3, OrderAt
<1>5. ASSUME NEW j \in Jobs
      PROVE  [a \in DOMAIN OrderOf(J)[j] |->
                IF <<j, a>> \in S THEN "cancelled" ELSE OrderOf(J)[j][a]] = OrderOf(K)[j]
  <2>1. /\ DOMAIN OrderOf(J)[j] = DOMAIN J[j].item /\ DOMAIN K[j].item = DOMAIN J[j].item
        /\ OrderOf(K)[j] = [x \in DOMAIN K[j].item |-> OrderOf(K)[j][x]]
    <3>1. DOMAIN OrderOf(J)[j] = DOMAIN J[j].item
      BY OrderAt
    <3>2. OrderOf(K)[j] = [x \in DOMAIN K[j].item |-> OrderOf(K)[j][x]]
      BY OrderShape, Zenon
    <3> QED
      BY <3>1, <3>2 DEF Renounces
  <2>2. ASSUME NEW a \in DOMAIN J[j].item
        PROVE  OrderOf(K)[j][a] = IF <<j, a>> \in S THEN "cancelled" ELSE OrderOf(J)[j][a]
    <3>1. <<j, a>> \in S <=> ~Done(J[j].item[a]) /\ Done(K[j].item[a])
      BY DEF Ends, Renounces
    <3>2. /\ a \in DOMAIN K[j].item
          /\ Done(J[j].item[a]) => K[j].item[a].state = J[j].item[a].state
          /\ ~Done(J[j].item[a]) /\ Done(K[j].item[a]) => K[j].item[a].state = "cancelled"
      BY DEF Renounces
    <3>3. /\ OrderOf(J)[j][a] = IF Done(J[j].item[a]) THEN J[j].item[a].state ELSE "open"
          /\ OrderOf(K)[j][a] = IF Done(K[j].item[a]) THEN K[j].item[a].state ELSE "open"
      BY <3>2, OrderAt
    <3> QED
      BY <3>1, <3>2, <3>3 DEF Done
  <2> QED
    BY <2>1, <2>2
<1>6. OrderOf(K) = [j \in Jobs |-> OrderOf(K)[j]]
  BY OrderShape
<1> QED
  BY <1>2, <1>3, <1>4, <1>5, <1>6

\* The parts of a step of DeletionOrders that are the same for all of them.
LEMMA MappedOpen ==
    Orders!Open = {i \in Jobs \X Addresses : /\ i[2] \in DOMAIN OrderOf(job)[i[1]]
                                             /\ OrderOf(job)[i[1]][i[2]] = "open"}
  BY DEF Orders!Open, OrderOf

LEMMA MappedWithdrawn ==
    ASSUME NEW S
    PROVE  Orders!Withdrawn(S) = [j \in Jobs |-> [a \in DOMAIN OrderOf(job)[j] |->
              IF <<j, a>> \in S THEN "cancelled" ELSE OrderOf(job)[j][a]]]
  BY DEF Orders!Withdrawn, OrderOf

LEMMA MappedRevoke ==
    ASSUME NEW S, RevokedOf(job) \subseteq RevokedOf(job'), RevokedOf(job') \subseteq Jobs,
           \A i \in S : /\ i[2] \notin Cleared
                        /\ \E k \in RevokedOf(job') : i[2] \in DOMAIN OrderOf(job)[k]
    PROVE  Orders!Revoke(S)
  BY DEF Orders!Revoke, OrderOf, RevokedOf

LEMMA WithdrawMaps ==
    ASSUME Renounces(job, job'), UNCHANGED <<Cleared, remote, wire, local>>
    PROVE  Orders!Next
<1>1. PICK S : S = Ends(job, job')
  OBVIOUS
<1>2. /\ S \in SUBSET {i \in Jobs \X Addresses : /\ i[2] \in DOMAIN OrderOf(job)[i[1]]
                                                 /\ OrderOf(job)[i[1]][i[2]] = "open"}
      /\ RevokedOf(job) \subseteq RevokedOf(job') /\ RevokedOf(job') \subseteq Jobs
      /\ \A i \in S : /\ i[2] \notin Cleared
                     /\ \E k \in RevokedOf(job') : i[2] \in DOMAIN OrderOf(job)[k]
      /\ [j \in Jobs |-> [a \in DOMAIN OrderOf(job)[j] |->
            IF <<j, a>> \in S THEN "cancelled" ELSE OrderOf(job)[j][a]]] = OrderOf(job')
  BY <1>1, Renounced
<1>3. S \in SUBSET Orders!Open
  BY <1>2, MappedOpen, Zenon
<1>4. Orders!Revoke(S)
  BY <1>2, MappedRevoke
<1>5. OrderOf(job') = Orders!Withdrawn(S)
  BY <1>2, MappedWithdrawn
<1>6. Orders!Withdraw(S)
  BY <1>4, <1>5 DEF Orders!Withdraw, OrderOf
<1>7. \E T \in SUBSET Orders!Open : Orders!Withdraw(T)
  BY <1>3, <1>6, Zenon
<1> QED
  BY <1>7, Zenon DEF Orders!Next

\* A mutation of an address is cleared for an item of a job that still stands.
LEMMA ClearMaps ==
    ASSUME Renounces(job, job'), NEW a \in Addresses,
           \E j \in Jobs : /\ ~job'[j].cancel /\ a \in DOMAIN job[j].item
                           /\ ~Done(job[j].item[a]) /\ ~Done(job'[j].item[a]),
           Cleared' = Cleared \cup {a}, UNCHANGED <<remote, wire, local>>
    PROVE  Orders!Next
<1>1. PICK S : S = Ends(job, job')
  OBVIOUS
<1>2. /\ S \in SUBSET {i \in Jobs \X Addresses : /\ i[2] \in DOMAIN OrderOf(job)[i[1]]
                                                 /\ OrderOf(job)[i[1]][i[2]] = "open"}
      /\ RevokedOf(job) \subseteq RevokedOf(job') /\ RevokedOf(job') \subseteq Jobs
      /\ \A i \in S : /\ i[2] \notin Cleared
                     /\ \E k \in RevokedOf(job') : i[2] \in DOMAIN OrderOf(job)[k]
      /\ [j \in Jobs |-> [x \in DOMAIN OrderOf(job)[j] |->
            IF <<j, x>> \in S THEN "cancelled" ELSE OrderOf(job)[j][x]]] = OrderOf(job')
  BY <1>1, Renounced
<1>3. S \in SUBSET Orders!Open
  BY <1>2, MappedOpen, Zenon
<1>4. Orders!Revoke(S)
  BY <1>2, MappedRevoke
<1>5. OrderOf(job') = Orders!Withdrawn(S)
  BY <1>2, MappedWithdrawn
<1>6. \E j \in Jobs \ RevokedOf(job') : <<j, a>> \in Orders!Open \ S
  <2>1. PICK j \in Jobs : /\ ~job'[j].cancel /\ a \in DOMAIN job[j].item
                          /\ ~Done(job[j].item[a]) /\ ~Done(job'[j].item[a])
    OBVIOUS
  <2>2. j \in Jobs \ RevokedOf(job') /\ <<j, a>> \notin S
    BY <1>1, <2>1 DEF RevokedOf, Ends
  <2>3. <<j, a>> \in Orders!Open
    BY <2>1, MappedOpen, OrderAt
  <2> QED
    BY <2>2, <2>3
<1>7. Orders!Clear(S, a)
  <2>1. \E j \in Jobs \ {i \in Jobs : job'[i].cancel} : <<j, a>> \in Orders!Open \ S
    BY <1>6 DEF RevokedOf
  <2> QED
    BY <1>4, <1>5, <2>1 DEF Orders!Clear, OrderOf
<1>8. \E T \in SUBSET Orders!Open : \E x \in Addresses : Orders!Clear(T, x)
  BY <1>3, <1>7, Zenon
<1> QED
  BY <1>8, Zenon DEF Orders!Next

\* What was cleared is sent, or is given up.
LEMMA MutateMaps ==
    ASSUME NEW a \in Addresses, a \in Cleared, Cleared' = Cleared \ {a},
           \/ UNCHANGED <<remote, wire>>
           \/ /\ remote[a] = "active" /\ remote' = [remote EXCEPT ![a] = "inactive"]
              /\ UNCHANGED wire
           \/ remote' = [remote EXCEPT ![a] = "gone"] /\ UNCHANGED wire
           \/ wire' = wire \cup {a} /\ UNCHANGED remote,
           UNCHANGED <<job, local>>
    PROVE  Orders!Next
<1>1. Orders!Mutate(a)
  BY DEF Orders!Mutate
<1> QED
  BY <1>1, Zenon DEF Orders!Next

LEMMA LapseMaps ==
    ASSUME NEW A \in SUBSET Addresses, Cleared' = Cleared \ A,
           UNCHANGED <<job, remote, wire, local>>
    PROVE  Orders!Next
<1>1. Orders!Lapse(A)
  BY DEF Orders!Lapse
<1> QED
  BY <1>1, Zenon DEF Orders!Next

\* From J to K all open items on a end with the result, and others as Renounces says.
Answers(J, K, a, result) ==
    \A j \in Jobs :
       /\ DOMAIN K[j].item = DOMAIN J[j].item /\ (J[j].cancel => K[j].cancel)
       /\ \A x \in DOMAIN J[j].item :
             /\ x \in Addresses
             /\ Done(J[j].item[x]) => K[j].item[x].state = J[j].item[x].state
             /\ ~Done(J[j].item[x]) /\ x = a => K[j].item[x].state = result
             /\ ~Done(J[j].item[x]) /\ Done(K[j].item[x]) /\ x # a
                   => K[j].item[x].state = "cancelled" /\ Shunned(K, x) /\ x \notin Cleared

LEMMA AnswerMaps ==
    ASSUME NEW a \in Addresses, NEW result \in {"succeeded", "failed"},
           Answers(job, job', a, result), a \notin Cleared,
           result = "succeeded" => remote[a] = "gone" /\ a \notin local,
           UNCHANGED <<Cleared, remote, wire, local>>
    PROVE  Orders!Next
<1>1. PICK S : S = {i \in Ends(job, job') : i[2] # a}
  OBVIOUS
<1>2. \A i \in S : /\ i \in Jobs \X Addresses /\ i[1] \in Jobs
                   /\ i[2] \in DOMAIN job[i[1]].item /\ i[2] # a
                   /\ ~Done(job[i[1]].item[i[2]]) /\ Done(job'[i[1]].item[i[2]])
  BY <1>1 DEF Ends
<1>3. S \in SUBSET Orders!Open
  <2>1. S \in SUBSET {i \in Jobs \X Addresses : /\ i[2] \in DOMAIN OrderOf(job)[i[1]]
                                                /\ OrderOf(job)[i[1]][i[2]] = "open"}
    BY <1>2, OrderAt
  <2> QED
    BY <2>1, MappedOpen, Zenon
<1>4. Orders!Revoke(S)
  <2>1. RevokedOf(job) \subseteq RevokedOf(job') /\ RevokedOf(job') \subseteq Jobs
    BY DEF Answers, RevokedOf
  <2>2. ASSUME NEW i \in S
        PROVE  /\ i[2] \notin Cleared
               /\ \E k \in RevokedOf(job') : i[2] \in DOMAIN OrderOf(job)[k]
    <3>1. Shunned(job', i[2]) /\ i[2] \notin Cleared
      BY <1>2 DEF Answers
    <3>2. PICK k \in Jobs : job'[k].cancel /\ i[2] \in DOMAIN job'[k].item
      BY <3>1 DEF Shunned
    <3>3. k \in RevokedOf(job') /\ i[2] \in DOMAIN job[k].item
      BY <3>2 DEF Answers, RevokedOf
    <3> QED
      BY <3>1, <3>3, OrderAt
  <2> QED
    BY <2>1, <2>2, MappedRevoke
<1>5. PICK O : O = Orders!Withdrawn(S)
  OBVIOUS
<1>6. O = [j \in Jobs |-> [x \in DOMAIN OrderOf(job)[j] |->
             IF <<j, x>> \in S THEN "cancelled" ELSE OrderOf(job)[j][x]]]
  BY <1>5, MappedWithdrawn
<1>7. ASSUME NEW j \in Jobs
      PROVE  OrderOf(job')[j] = [x \in DOMAIN OrderOf(job)[j] |->
                IF x = a /\ OrderOf(job)[j][x] = "open" THEN result ELSE O[j][x]]
  <2>1. DOMAIN OrderOf(job)[j] = DOMAIN job[j].item /\ DOMAIN job'[j].item = DOMAIN job[j].item
    BY OrderAt DEF Answers
  <2>2. OrderOf(job')[j] = [x \in DOMAIN job'[j].item |-> OrderOf(job')[j][x]]
    BY OrderShape, Zenon
  <2>3. ASSUME NEW x \in DOMAIN job[j].item
        PROVE  OrderOf(job')[j][x] =
                  IF x = a /\ OrderOf(job)[j][x] = "open" THEN result ELSE O[j][x]
    <3>1. O[j][x] = IF <<j, x>> \in S THEN "cancelled" ELSE OrderOf(job)[j][x]
      BY <1>6, <2>1
    <3>2. <<j, x>> \in S <=> ~Done(job[j].item[x]) /\ Done(job'[j].item[x]) /\ x # a
      BY <1>1 DEF Ends, Answers
    <3>3. /\ x \in DOMAIN job'[j].item
          /\ Done(job[j].item[x]) => job'[j].item[x].state = job[j].item[x].state
          /\ ~Done(job[j].item[x]) /\ x = a => job'[j].item[x].state = result
          /\ ~Done(job[j].item[x]) /\ Done(job'[j].item[x]) /\ x # a
                => job'[j].item[x].state = "cancelled"
      BY DEF Answers
    <3>4. /\ OrderOf(job)[j][x] = IF Done(job[j].item[x]) THEN job[j].item[x].state ELSE "open"
          /\ OrderOf(job)[j][x] = "open" <=> ~Done(job[j].item[x])
          /\ OrderOf(job')[j][x] = IF Done(job'[j].item[x]) THEN job'[j].item[x].state
                                   ELSE "open"
      BY <3>3, OrderAt
    <3> QED
      BY <3>1, <3>2, <3>3, <3>4 DEF Done, Terminal
  <2> QED
    BY <2>1, <2>2, <2>3
<1>8. OrderOf(job') = [j \in Jobs |-> [x \in DOMAIN OrderOf(job)[j] |->
                IF x = a /\ OrderOf(job)[j][x] = "open" THEN result ELSE O[j][x]]]
  <2>1. OrderOf(job') = [j \in Jobs |-> OrderOf(job')[j]]
    BY OrderShape, Zenon
  <2> QED
    BY <1>7, <2>1
<1>9. Orders!Answer(S, a, result)
  <2>1. \A i \in S : i[2] # a
    BY <1>2
  <2>2. OrderOf(job') = [j \in Jobs |-> [x \in DOMAIN OrderOf(job)[j] |->
           IF x = a /\ OrderOf(job)[j][x] = "open" THEN result
           ELSE Orders!Withdrawn(S)[j][x]]]
    BY <1>5, <1>8
  <2> QED
    BY <1>4, <2>1, <2>2 DEF Orders!Answer, OrderOf
<1>10. \E T \in SUBSET Orders!Open : \E x \in Addresses :
          \E res \in {"succeeded", "failed"} : Orders!Answer(T, x, res)
  BY <1>3, <1>9, Zenon
<1> QED
  BY <1>10, Zenon DEF Orders!Next

LEMMA PlaceMaps ==
    ASSUME NEW J, Renounces(job, J), NEW j \in Jobs, DOMAIN job[j].item = {}, ~J[j].cancel,
           NEW A \in SUBSET Addresses, RevokedOf(job') = RevokedOf(J),
           OrderOf(job') = [OrderOf(J) EXCEPT ![j] = [a \in A |-> "open"]],
           UNCHANGED <<Cleared, remote, wire, local>>
    PROVE  Orders!Next
<1>1. PICK S : S = Ends(job, J)
  OBVIOUS
<1>2. /\ S \in SUBSET {i \in Jobs \X Addresses : /\ i[2] \in DOMAIN OrderOf(job)[i[1]]
                                                 /\ OrderOf(job)[i[1]][i[2]] = "open"}
      /\ RevokedOf(job) \subseteq RevokedOf(J) /\ RevokedOf(J) \subseteq Jobs
      /\ \A i \in S : /\ i[2] \notin Cleared
                     /\ \E k \in RevokedOf(J) : i[2] \in DOMAIN OrderOf(job)[k]
      /\ [i \in Jobs |-> [x \in DOMAIN OrderOf(job)[i] |->
            IF <<i, x>> \in S THEN "cancelled" ELSE OrderOf(job)[i][x]]] = OrderOf(J)
  BY <1>1, Renounced
<1>3. S \in SUBSET Orders!Open
  BY <1>2, MappedOpen, Zenon
<1>4. Orders!Revoke(S)
  BY <1>2, MappedRevoke
<1>5. OrderOf(J) = Orders!Withdrawn(S)
  BY <1>2, MappedWithdrawn
<1>6. DOMAIN OrderOf(job)[j] = {} /\ j \notin RevokedOf(job')
  BY OrderAt DEF RevokedOf
<1>7. Orders!Place(S, j, A)
  <2>1. OrderOf(job') = [Orders!Withdrawn(S) EXCEPT ![j] = [a \in A |-> "open"]]
    BY <1>5
  <2> QED
    BY <1>4, <1>6, <2>1 DEF Orders!Place, OrderOf, RevokedOf
<1>8. \E T \in SUBSET Orders!Open : \E i \in Jobs, B \in SUBSET Addresses : Orders!Place(T, i, B)
  BY <1>3, <1>7, Zenon
<1> QED
  BY <1>8, Zenon DEF Orders!Next

LEMMA ApplyMaps ==
    ASSUME NEW a \in Addresses, AppleApplies(a), UNCHANGED Cleared
    PROVE  Orders!Next
<1>1. Orders!Apply(a)
  BY DEF AppleApplies, Orders!Apply, db
<1> QED
  BY <1>1, Zenon DEF Orders!Next

LEMMA ForgetMaps ==
    ASSUME NEW a \in Addresses, remote[a] = "gone", local' = local \ {a},
           UNCHANGED <<job, Cleared, remote, wire>>
    PROVE  Orders!Next
<1>1. Orders!Forget(a)
  BY DEF Orders!Forget
<1> QED
  BY <1>1, Zenon DEF Orders!Next

-----------------------------------------------------------------------------
(* From the tables to the steps of DeletionOrders.                         *)
\* A worker between its check and its request runs the work of its address.
LEMMA ClearedRuns ==
    ASSUME IInv, NEW a \in Cleared
    PROVE  \E s \in Subjects : /\ Sending(s) /\ a = Addr(s) /\ SubjectOf[a] = s
                              /\ a \in Addresses /\ worker[s].work \in DOMAIN work
                              /\ work[worker[s].work].addr = a
                              /\ work[worker[s].work].status = "running"
<1>1. PICK s \in Subjects : Sending(s) /\ a = Addr(s)
  BY DEF Cleared
<1>2. /\ worker[s].work \in DOMAIN work /\ work[worker[s].work].status = "running"
      /\ Subject(work[worker[s].work]) = s
  <2>1. worker[s].step # "none"
    BY <1>1 DEF Sending
  <2> QED
    BY <2>1, OwnRow
<1> QED
  BY <1>1, <1>2, Table DEF Addr, Subject

\* An open item of such an address waits for that running work.
LEMMA SettledNotCleared ==
    ASSUME IInv, Filed(work, job), NEW j \in Jobs, NEW a \in DOMAIN job[j].item,
           ~Done(job[j].item[a]), work[job[j].item[a].work].status # "running"
    PROVE  a \notin Cleared
<1> SUFFICES ASSUME a \in Cleared PROVE FALSE
  OBVIOUS
<1>1. PICK s \in Subjects : /\ worker[s].work \in DOMAIN work
                            /\ work[worker[s].work].addr = a
                            /\ work[worker[s].work].status = "running"
  BY ClearedRuns
<1>2. /\ job[j].item[a].work \in DOMAIN work
      /\ work[job[j].item[a].work].status \in Active
      /\ work[job[j].item[a].work].addr = a
  <2>1. JobInv(work, job[j], {}) /\ FiledJob(work, job[j])
    BY Table DEF Coherent, Filed
  <2> QED
    BY <2>1 DEF JobInv, FiledJob
<1>3. OneActive(work)
  BY Table DEF Coherent
<1> QED
  BY <1>1, <1>2, <1>3 DEF OneActive, Active

\* Two workers have two subjects, hence two addresses.
LEMMA OneSends ==
    ASSUME IInv, NEW s \in Subjects, worker[s].step # "none"
    PROVE  /\ ~Sending(s) => Addr(s) \notin Cleared
           /\ \A t \in Subjects \ {s} : Sending(t) => Addr(t) # Addr(s)
<1>1. SubjectOf[Addr(s)] = s
  BY OwnRow DEF Addr, Subject
<1>2. ASSUME NEW t \in Subjects, Sending(t), Addr(t) = Addr(s)
      PROVE  t = s
  <2>1. worker[t].step # "none"
    BY <1>2 DEF Sending
  <2>2. SubjectOf[Addr(t)] = t
    BY <2>1, OwnRow DEF Addr, Subject
  <2> QED
    BY <1>1, <1>2, <2>2
<1> QED
  BY <1>2 DEF Cleared

LEMMA FreeClearsNothing ==
    ASSUME \A s \in Subjects : Free(s)
    PROVE  Cleared = {}
  BY DEF Free, Cleared, Sending

LEMMA FollowsRenounces ==
    ASSUME Coherent(work, job, {}), NEW V, NEW K, Follows(V, job, K), Evolved(job, K),
           \A j \in Jobs : \A a \in DOMAIN job[j].item : ~Done(job[j].item[a]) =>
              \/ ~Done(K[j].item[a])
              \/ K[j].item[a].state = "cancelled" /\ Shunned(K, a) /\ a \notin Cleared
    PROVE  Renounces(job, K)
<1> SUFFICES ASSUME NEW j \in Jobs
             PROVE  /\ DOMAIN K[j].item = DOMAIN job[j].item /\ (job[j].cancel => K[j].cancel)
                    /\ \A a \in DOMAIN job[j].item :
                          /\ a \in Addresses
                          /\ Done(job[j].item[a]) => K[j].item[a].state = job[j].item[a].state
                          /\ ~Done(job[j].item[a]) /\ Done(K[j].item[a])
                                => /\ K[j].item[a].state = "cancelled" /\ Shunned(K, a)
                                   /\ a \notin Cleared
  BY DEF Renounces
<1>1. JobFollows(V, job[j], K[j]) /\ JobEvolves(job[j], K[j])
  BY DEF Follows, Evolved
<1>2. DOMAIN job[j].item \subseteq Addresses
  BY ItemsOfJob DEF Coherent
<1> QED
  BY <1>1, <1>2 DEF JobFollows, JobEvolves

LEMMA SparesRenounces ==
    ASSUME IInv, Filed(work, job), NEW V, NEW K, Follows(V, job, K), Evolved(job, K),
           Spares(work, job, K)
    PROVE  Renounces(job, K)
<1>1. ASSUME NEW j \in Jobs, NEW a \in DOMAIN job[j].item, ~Done(job[j].item[a]),
             Done(K[j].item[a])
      PROVE  K[j].item[a].state = "cancelled" /\ Shunned(K, a) /\ a \notin Cleared
  <2>1. /\ K[j].item[a].state = "cancelled" /\ K[j].cancel
        /\ work[job[j].item[a].work].status # "running"
    BY <1>1 DEF Spares, JobSpares
  <2>2. a \in DOMAIN K[j].item
    BY <1>1 DEF Follows, JobFollows
  <2> QED
    BY <1>1, <2>1, <2>2, SettledNotCleared DEF Shunned
<1> QED
  BY <1>1, Table, FollowsRenounces

\* No job takes a cancellation back, and none loses an address.
CancelStays(J, K) == \A j \in Jobs :
    (J[j].cancel => K[j].cancel) /\ DOMAIN J[j].item \subseteq DOMAIN K[j].item

LEMMA FollowsCancelStays ==
    ASSUME NEW V, NEW J, NEW K, Follows(V, J, K)
    PROVE  CancelStays(J, K)
  BY DEF Follows, JobFollows, CancelStays

LEMMA ShunnedStays ==
    ASSUME NEW J, NEW K, CancelStays(J, K), NEW a, Shunned(J, a)
    PROVE  Shunned(K, a)
  BY DEF Shunned, CancelStays

\* What holds of the tables after a step that only prunes them, or leaves them alone.
Kept == /\ Filed(work', job') /\ CancelStays(job, job')
        /\ \A w \in DOMAIN work : work'[w].addr = work[w].addr

LEMMA DatabaseKept ==
    ASSUME IInv, Filed(work, job),
           \/ UNCHANGED db
           \/ work' = Prune(work, job).work /\ job' = Prune(work, job).job
    PROVE  Kept /\ Renounces(job, job')
<1>1. Coherent(work, job, {})
  BY Table
<1>2. CASE UNCHANGED db
  <2>1. work' = work /\ job' = job
    BY <1>2 DEF db
  <2>2. Follows(work, job, job) /\ Evolved(job, job) /\ Spares(work, job, job)
    BY DEF Follows, JobFollows, Evolved, JobEvolves, Spares, JobSpares
  <2>3. Renounces(job, job) /\ CancelStays(job, job)
    BY <1>1, <2>2, SparesRenounces, FollowsCancelStays
  <2> QED
    BY <2>1, <2>3 DEF Kept
<1>3. CASE work' = Prune(work, job).work /\ job' = Prune(work, job).job
  <2> DEFINE P == Prune(work, job)
  <2>1. Tidied(P)
    BY <1>1, PruneTidies
  <2>2. work' = P.work /\ job' = P.job
    BY <1>3
  <2> HIDE DEF P
  <2>3. /\ Filed(P.work, P.job) /\ Evolved(job, P.job) /\ Follows(P.work, job, P.job)
        /\ Spares(work, job, P.job) /\ RowsStay(work, P.work)
    BY <2>1 DEF Tidied
  <2>4. Renounces(job, P.job) /\ CancelStays(job, P.job)
    BY <1>1, <2>3, SparesRenounces, FollowsCancelStays
  <2> QED
    BY <2>2, <2>3, <2>4 DEF Kept, RowsStay
<1> QED
  BY <1>2, <1>3

LEMMA BackedStays ==
    ASSUME NEW wk, wk.work \in DOMAIN work, Backed(wk, work, job, local), Kept,
           local' \subseteq local
    PROVE  Backed(wk, work', job', local')
<1>1. work'[wk.work].addr = work[wk.work].addr /\ CancelStays(job, job')
  BY DEF Kept
<1> QED
  BY <1>1, ShunnedStays DEF Backed

LEMMA OrdersInvKept ==
    ASSUME IInv, OrdersInv, Kept, local' \subseteq local,
           \A m \in Admins : pv'[m] # 0, \A q \in admitted' : q.pv # 0,
           \A s \in Subjects : worker'[s].step = "save" =>
              worker'[s] = worker[s] \/ Backed(worker'[s], work', job', local'),
           \A wk \in late' : wk \in late \/ \E s \in Subjects : wk = worker[s] /\ wk.step = "save"
    PROVE  OrdersInv'
<1>1. ASSUME NEW s \in Subjects, worker[s].step = "save"
      PROVE  Backed(worker[s], work', job', local')
  <2>1. worker[s].work \in DOMAIN work
    BY <1>1, OwnRow
  <2> QED
    BY <1>1, <2>1, BackedStays DEF OrdersInv
<1>2. ASSUME NEW wk \in late
      PROVE  Backed(wk, work', job', local')
  <2>1. wk.work \in DOMAIN work
    BY DEF IInv, LateInv, ResultInv
  <2> QED
    BY <2>1, BackedStays DEF OrdersInv
<1> QED
  BY <1>1, <1>2 DEF OrdersInv, Kept

\* What is cleared, when no worker comes to its request or leaves it ...
LEMMA ClearedStays ==
    ASSUME IInv, Kept,
           \A t \in Subjects : \/ worker'[t] = worker[t]
                               \/ /\ worker[t].step \notin {"deactivating", "deleting"}
                                  /\ worker'[t].step \notin {"deactivating", "deleting"}
    PROVE  Cleared' = Cleared
<1>1. ASSUME NEW t \in Subjects
      PROVE  /\ worker'[t].step \in {"deactivating", "deleting"}
                   <=> worker[t].step \in {"deactivating", "deleting"}
             /\ worker[t].step \in {"deactivating", "deleting"} =>
                   work'[worker'[t].work].addr = work[worker[t].work].addr
  <2>1. CASE worker[t].step \in {"deactivating", "deleting"}
    <3>1. worker[t].step # "none" /\ worker'[t] = worker[t]
      BY <2>1
    <3>2. worker[t].work \in DOMAIN work
      BY <3>1, OwnRow
    <3> QED
      BY <3>1, <3>2 DEF Kept
  <2>2. CASE worker[t].step \notin {"deactivating", "deleting"}
    BY <2>2
  <2> QED
    BY <2>1, <2>2
<1> QED
  BY <1>1 DEF Cleared, Sending, Addr

\* ... and when the worker of s takes a step.
LEMMA ClearedMoves ==
    ASSUME IInv, Kept, NEW s \in Subjects, worker[s].step # "none",
           worker'[s].work = worker[s].work,
           \A t \in Subjects \ {s} : worker'[t] = worker[t]
    PROVE  /\ worker'[s].step \in {"deactivating", "deleting"} =>
                 Cleared' = Cleared \cup {Addr(s)}
           /\ worker'[s].step \notin {"deactivating", "deleting"} =>
                 Cleared' = Cleared \ {Addr(s)}
<1>1. work'[worker'[s].work].addr = Addr(s)
  BY OwnRow DEF Addr, Kept
<1>2. ASSUME NEW t \in Subjects \ {s}
      PROVE  /\ worker'[t].step \in {"deactivating", "deleting"} <=> Sending(t)
             /\ Sending(t) => /\ work'[worker'[t].work].addr = Addr(t)
                              /\ Addr(t) # Addr(s)
  <2>1. worker'[t] = worker[t]
    OBVIOUS
  <2>2. ASSUME Sending(t)
        PROVE  work'[worker'[t].work].addr = Addr(t) /\ Addr(t) # Addr(s)
    <3>1. worker[t].step # "none"
      BY <2>2 DEF Sending
    <3>2. worker[t].work \in DOMAIN work
      BY <3>1, OwnRow
    <3> QED
      BY <2>1, <2>2, <3>2, OneSends DEF Addr, Kept
  <2> QED
    BY <2>1, <2>2 DEF Sending
<1>3. Cleared' = {work'[worker'[t].work].addr :
                     t \in {u \in Subjects : worker'[u].step \in {"deactivating", "deleting"}}}
  BY DEF Cleared, Sending, Addr
<1>4. Cleared = {Addr(t) : t \in {u \in Subjects : Sending(u)}}
  BY DEF Cleared
<1> QED
  BY <1>1, <1>2, <1>3, <1>4

-----------------------------------------------------------------------------
(* The attempt of a worker.                                                *)

\* The worker of s goes on, or has found out what it is about to save.
MovesOn(s) == \E wk :
    /\ worker' = [worker EXCEPT ![s] = wk] /\ wk.work = worker[s].work
    /\ wk.step = "save" => Backed(wk, work', job', local')
\* It has not come to a request.
Rests(s) == MovesOn(s) /\ worker'[s].step \notin {"deactivating", "deleting"}

LEMMA ResultMovesOn ==
    ASSUME IInv, NEW s \in Subjects, NEW st, NEW ag, Result(s, st, ag),
           st = "cancelled" => Shunned(job', work'[worker[s].work].addr),
           st = "succeeded" => work'[worker[s].work].addr \notin local'
    PROVE  Rests(s)
<1> DEFINE o == worker[s]
           wk == [o EXCEPT !.step = "save", !.status = st, !.again = ag]
<1>1. o \in WorkerRec
  BY DEF IInv, RuntimeType
<1>2. worker' = [worker EXCEPT ![s] = wk]
  BY DEF Result
<1>3. wk.status = st /\ wk.work = o.work /\ wk.step = "save"
  BY <1>1 DEF WorkerRec
<1> HIDE DEF wk
<1>4. Backed(wk, work', job', local')
  BY <1>3 DEF Backed
<1>5. worker'[s] = wk
  BY <1>2 DEF IInv, RuntimeType
<1> QED
  BY <1>2, <1>3, <1>4, <1>5 DEF Rests, MovesOn

LEMMA StepMovesOn ==
    ASSUME IInv, NEW s \in Subjects, NEW p, p # "save",
           \/ Step(s, p)
           \/ worker' = [worker EXCEPT ![s].step = p, ![s].mut = TRUE]
    PROVE  MovesOn(s) /\ worker'[s].step = p
<1> DEFINE o == worker[s]
<1>1. o \in WorkerRec
  BY DEF IInv, RuntimeType
<1>2. CASE Step(s, p)
  <2> DEFINE wk == [o EXCEPT !.step = p]
  <2>1. worker' = [worker EXCEPT ![s] = wk]
    BY <1>2 DEF Step
  <2>2. wk.step = p /\ wk.work = o.work
    BY <1>1 DEF WorkerRec
  <2> HIDE DEF wk
  <2>3. worker'[s] = wk
    BY <2>1 DEF IInv, RuntimeType
  <2>4. MovesOn(s)
    BY <2>1, <2>2 DEF MovesOn
  <2> QED
    BY <2>2, <2>3, <2>4
<1>3. CASE worker' = [worker EXCEPT ![s].step = p, ![s].mut = TRUE]
  <2> DEFINE wk == [o EXCEPT !.step = p, !.mut = TRUE]
  <2>1. worker' = [worker EXCEPT ![s] = wk]
    BY <1>3
  <2>2. wk.step = p /\ wk.work = o.work
    BY <1>1 DEF WorkerRec
  <2> HIDE DEF wk
  <2>3. worker'[s] = wk
    BY <2>1 DEF IInv, RuntimeType
  <2>4. MovesOn(s)
    BY <2>1, <2>2 DEF MovesOn
  <2> QED
    BY <2>2, <2>3, <2>4
<1> QED
  BY <1>2, <1>3

LEMMA StepRests ==
    ASSUME IInv, NEW s \in Subjects, NEW p \in {"read", "deactivate", "delete", "canceled"},
           Step(s, p)
    PROVE  Rests(s)
<1>1. p # "save"
  OBVIOUS
<1>2. MovesOn(s) /\ worker'[s].step = p
  BY <1>1, StepMovesOn
<1> QED
  BY <1>2 DEF Rests

LEMMA OutcomeMovesOn ==
    ASSUME IInv, NEW s \in Subjects, NEW st \in {"waiting", "paused", "failed"}, NEW ag,
           Outcome(s, st, ag)
    PROVE  Rests(s)
<1>1. CASE Result(s, "pending", TRUE)
  BY <1>1, ResultMovesOn
<1>2. CASE Result(s, st, ag)
  BY <1>2, ResultMovesOn
<1> QED
  BY <1>1, <1>2 DEF Outcome

LEMMA SetbackMovesOn ==
    ASSUME IInv, NEW s \in Subjects, Setback(s) \/ QuotaWait(s)
    PROVE  Rests(s)
  BY OutcomeMovesOn DEF Setback, QuotaWait

\* A running work that a prune finds unwanted is one whose jobs were all revoked.
LEMMA UnwantedShunned ==
    ASSUME NEW P, Tidied(P), NEW x \in DOMAIN work, work[x].status = "running",
           ~Wanted(P.job, x)
    PROVE  Shunned(P.job, P.work[x].addr)
<1>1. /\ Coherent(P.work, P.job, {}) /\ Filed(P.work, P.job) /\ Stale(P.job) = {}
      /\ P.work[x] = work[x] /\ x \in DOMAIN P.work
  BY DEF Tidied, RowsStay
<1>2. \A j \in Jobs : \A a \in DOMAIN P.job[j].item : P.job[j].item[a].work = x => P.job[j].cancel
  <2>1. P.work[x].status \in Active
    BY <1>1 DEF Active
  <2> QED
    BY <1>1, <2>1, NotWanted
<1>3. PICK j \in Jobs : \E a \in DOMAIN P.job[j].item : P.job[j].item[a].work = x
  BY <1>1 DEF Filed, Owned
<1>4. PICK a \in DOMAIN P.job[j].item : P.job[j].item[a].work = x
  BY <1>3
<1>5. P.work[x].addr = a
  BY <1>1, <1>4 DEF Filed, FiledJob
<1> QED
  BY <1>2, <1>4, <1>5 DEF Shunned

\* A worker's step: the database is pruned or left alone.
Attempting(s) ==
    /\ worker[s].step # "none"
    /\ \/ UNCHANGED db
       \/ work' = Prune(work, job).work /\ job' = Prune(work, job).job
    /\ UNCHANGED <<pv, admitted, late>>
    /\ local' \subseteq local

LEMMA AttemptingKeeps ==
    ASSUME IInv, OrdersInv, NEW s \in Subjects, Attempting(s), MovesOn(s)
    PROVE  /\ OrdersInv' /\ Renounces(job, job')
           /\ worker'[s].step \in {"deactivating", "deleting"} =>
                 Cleared' = Cleared \cup {Addr(s)}
           /\ worker'[s].step \notin {"deactivating", "deleting"} =>
                 Cleared' = Cleared \ {Addr(s)}
<1>1. Kept /\ Renounces(job, job')
  BY DatabaseKept DEF Attempting, OrdersInv
<1>2. PICK wk : /\ worker' = [worker EXCEPT ![s] = wk] /\ wk.work = worker[s].work
                /\ wk.step = "save" => Backed(wk, work', job', local')
  BY DEF MovesOn
<1>3. worker'[s] = wk /\ \A t \in Subjects \ {s} : worker'[t] = worker[t]
  BY <1>2 DEF IInv, RuntimeType
<1>4. \A t \in Subjects : worker'[t].step = "save" =>
         worker'[t] = worker[t] \/ Backed(worker'[t], work', job', local')
  BY <1>2, <1>3
<1>5. \A m \in Admins : pv'[m] # 0
  BY DEF OrdersInv, Attempting
<1>6. \A q \in admitted' : q.pv # 0
  BY DEF OrdersInv, Attempting
<1>7. late' = late /\ local' \subseteq local /\ worker[s].step # "none"
  BY DEF Attempting
<1>8. OrdersInv'
  BY <1>1, <1>4, <1>5, <1>6, <1>7, OrdersInvKept
<1> QED
  BY <1>1, <1>2, <1>3, <1>7, <1>8, ClearedMoves

\* Most steps neither come from a check nor end in one.
LEMMA AttemptingRests ==
    ASSUME IInv, OrdersInv, NEW s \in Subjects, Attempting(s), Rests(s), ~Sending(s)
    PROVE  OrdersInv' /\ Renounces(job, job') /\ UNCHANGED Cleared
<1>1. OrdersInv' /\ Renounces(job, job') /\ Cleared' = Cleared \ {Addr(s)}
  BY AttemptingKeeps DEF Rests
<1>2. Addr(s) \notin Cleared
  BY OneSends DEF Attempting
<1> QED
  BY <1>1, <1>2

LEMMA UnwantedResult ==
    ASSUME IInv, OrdersInv, NEW s \in Subjects, worker[s].step # "none",
           work' = Prune(work, job).work, job' = Prune(work, job).job,
           ~Wanted(Prune(work, job).job, worker[s].work)
    PROVE  Shunned(job', work'[worker[s].work].addr)
<1> DEFINE P == Prune(work, job)
<1>1. Coherent(work, job, {}) /\ Filed(work, job)
  BY Table DEF OrdersInv
<1>2. Tidied(P) /\ work' = P.work /\ job' = P.job /\ ~Wanted(P.job, worker[s].work)
  BY <1>1, PruneTidies
<1> HIDE DEF P
<1>3. worker[s].work \in DOMAIN work /\ work[worker[s].work].status = "running"
  BY OwnRow
<1> QED
  BY <1>2, <1>3, UnwantedShunned

LEMMA CheckWantedMaps ==
    ASSUME IInv, OrdersInv, NEW s \in Subjects, CheckWanted(s)
    PROVE  OrdersInv' /\ Orders!Next
<1>1. Attempting(s) /\ ~Sending(s) /\ UNCHANGED <<remote, wire, local>>
  BY DEF CheckWanted, Attempting, Sending, apple
<1>2. Rests(s)
  <2>1. CASE Result(s, "pending", worker[s].reconcile)
    BY <2>1, ResultMovesOn
  <2>2. CASE Result(s, "paused", TRUE)
    BY <2>2, ResultMovesOn
  <2>3. CASE Step(s, "read")
    BY <2>3, StepRests
  <2>4. CASE /\ work' = Prune(work, job).work /\ job' = Prune(work, job).job
             /\ ~Wanted(Prune(work, job).job, worker[s].work)
             /\ Result(s, "cancelled", FALSE)
    <3>1. Shunned(job', work'[worker[s].work].addr)
      BY <2>4, <1>1, UnwantedResult DEF Attempting
    <3> QED
      BY <2>4, <3>1, ResultMovesOn
  <2> QED
    BY <2>1, <2>2, <2>3, <2>4 DEF CheckWanted
<1> QED
  BY <1>1, <1>2, AttemptingRests, WithdrawMaps

LEMMA RecheckWantedMaps ==
    ASSUME IInv, OrdersInv, NEW s \in Subjects, RecheckWanted(s)
    PROVE  OrdersInv' /\ Orders!Next
<1>1. Attempting(s) /\ ~Sending(s) /\ UNCHANGED <<remote, wire, local>>
  BY DEF RecheckWanted, Attempting, Sending, apple
<1>2. Rests(s)
  <2>1. CASE Result(s, "failed", FALSE)
    BY <2>1, ResultMovesOn
  <2>2. CASE /\ work' = Prune(work, job).work /\ job' = Prune(work, job).job
             /\ ~Wanted(Prune(work, job).job, worker[s].work)
             /\ Result(s, "cancelled", FALSE)
    <3>1. Shunned(job', work'[worker[s].work].addr)
      BY <2>2, <1>1, UnwantedResult DEF Attempting
    <3> QED
      BY <2>2, <3>1, ResultMovesOn
  <2> QED
    BY <2>1, <2>2 DEF RecheckWanted
<1> QED
  BY <1>1, <1>2, AttemptingRests, WithdrawMaps

\* deleteLocal, once the address is gone at Apple.
LEMMA ConfirmedMaps ==
    ASSUME IInv, OrdersInv, NEW s \in Subjects, Attempting(s), ~Sending(s), Confirmed(s),
           UNCHANGED <<db, remote, wire>>
    PROVE  OrdersInv' /\ Orders!Next
<1>1. /\ remote[Addr(s)] = "gone" /\ local' = local \ {Addr(s)}
      /\ Result(s, "succeeded", FALSE) /\ work' = work /\ job' = job
  BY DEF Confirmed, db
<1>2. Addr(s) \in Addresses
  <2>1. worker[s].work \in DOMAIN work
    BY OwnRow DEF Attempting
  <2> QED
    BY <2>1, Table DEF Addr
<1>3. Rests(s)
  <2>1. work'[worker[s].work].addr \notin local'
    BY <1>1 DEF Addr
  <2> QED
    BY <1>1, <2>1, ResultMovesOn
<1>4. OrdersInv' /\ UNCHANGED Cleared
  BY <1>3, AttemptingRests
<1> QED
  BY <1>1, <1>2, <1>4, ForgetMaps

LEMMA ReadDirectoryMaps ==
    ASSUME IInv, OrdersInv, NEW s \in Subjects, ReadDirectory(s)
    PROVE  OrdersInv' /\ Orders!Next
<1>1. Attempting(s) /\ ~Sending(s) /\ UNCHANGED <<db, remote, wire>>
  BY DEF ReadDirectory, Attempting, Sending, Confirmed
<1>2. CASE Confirmed(s)
  BY <1>1, <1>2, ConfirmedMaps
<1>3. CASE (Setback(s) \/ QuotaWait(s)) /\ UNCHANGED local
  BY <1>1, <1>3, SetbackMovesOn, AttemptingRests, WithdrawMaps
<1>4. CASE (\E p \in {"deactivate", "delete"} : Step(s, p)) /\ UNCHANGED local
  <2>1. Rests(s)
    BY <1>4, StepRests
  <2> QED
    BY <1>1, <1>4, <2>1, AttemptingRests, WithdrawMaps
<1> QED
  BY <1>2, <1>3, <1>4 DEF ReadDirectory

LEMMA DeactivateReturnsMaps ==
    ASSUME IInv, OrdersInv, NEW s \in Subjects, DeactivateReturns(s)
    PROVE  OrdersInv' /\ Orders!Next
<1>1. Attempting(s) /\ ~Sending(s) /\ UNCHANGED <<db, remote, wire>>
  BY DEF DeactivateReturns, Attempting, Sending, Confirmed
<1>2. CASE Confirmed(s)
  BY <1>1, <1>2, ConfirmedMaps
<1>3. CASE (Setback(s) \/ QuotaWait(s)) /\ UNCHANGED local
  BY <1>1, <1>3, SetbackMovesOn, AttemptingRests, WithdrawMaps
<1>4. CASE Step(s, "delete") /\ UNCHANGED local
  <2>1. Rests(s)
    BY <1>4, StepRests
  <2> QED
    BY <1>1, <1>4, <2>1, AttemptingRests, WithdrawMaps
<1> QED
  BY <1>2, <1>3, <1>4 DEF DeactivateReturns

LEMMA DeleteReturnsMaps ==
    ASSUME IInv, OrdersInv, NEW s \in Subjects, DeleteReturns(s)
    PROVE  OrdersInv' /\ Orders!Next
<1>1. Attempting(s) /\ ~Sending(s) /\ UNCHANGED <<db, remote, wire>>
  BY DEF DeleteReturns, Attempting, Sending, Confirmed
<1>2. CASE Confirmed(s)
  BY <1>1, <1>2, ConfirmedMaps
<1>3. CASE (Setback(s) \/ Outcome(s, "failed", FALSE)) /\ UNCHANGED local
  <2>1. Rests(s)
    BY <1>3, SetbackMovesOn, OutcomeMovesOn
  <2> QED
    BY <1>1, <1>3, <2>1, AttemptingRests, WithdrawMaps
<1> QED
  BY <1>2, <1>3 DEF DeleteReturns

\* A wanted work has an item that is open, in a job that is not revoked.
LEMMA WantedOrder ==
    ASSUME IInv, OrdersInv, NEW s \in Subjects, worker[s].step # "none",
           work' = Prune(work, job).work, job' = Prune(work, job).job,
           Wanted(Prune(work, job).job, worker[s].work)
    PROVE  \E j \in Jobs : /\ ~job'[j].cancel /\ Addr(s) \in DOMAIN job[j].item
                           /\ ~Done(job[j].item[Addr(s)]) /\ ~Done(job'[j].item[Addr(s)])
<1> DEFINE P == Prune(work, job)
<1>1. Coherent(work, job, {}) /\ Filed(work, job)
  BY Table DEF OrdersInv
<1>2. Tidied(P) /\ work' = P.work /\ job' = P.job /\ Wanted(P.job, worker[s].work)
  BY <1>1, PruneTidies
<1> HIDE DEF P
<1>3. worker[s].work \in DOMAIN work /\ work[worker[s].work].status = "running"
  BY OwnRow
<1>4. /\ Coherent(P.work, P.job, {}) /\ Filed(P.work, P.job)
      /\ Evolved(job, P.job) /\ Follows(P.work, job, P.job)
      /\ P.work[worker[s].work] = work[worker[s].work]
  BY <1>2, <1>3 DEF Tidied
<1>5. PICK j \in Jobs : /\ ~P.job[j].cancel
                        /\ \E a \in DOMAIN P.job[j].item :
                              P.job[j].item[a].work = worker[s].work /\ P.job[j].item[a].active
  BY <1>2 DEF Wanted
<1>6. PICK a \in DOMAIN P.job[j].item :
              P.job[j].item[a].work = worker[s].work /\ P.job[j].item[a].active
  BY <1>5
<1>7. a = Addr(s)
  <2>1. P.work[P.job[j].item[a].work].addr = a
    BY <1>4 DEF Filed, FiledJob
  <2> QED
    BY <1>4, <1>6, <2>1 DEF Addr
<1>8. ~Done(P.job[j].item[a])
  BY <1>4, <1>6 DEF Coherent, JobInv
<1>9. a \in DOMAIN job[j].item /\ ~Done(job[j].item[a])
  BY <1>4, <1>6, <1>8 DEF Follows, JobFollows, Evolved, JobEvolves
<1> QED
  BY <1>2, <1>5, <1>7, <1>8, <1>9

\* The check of a mutation clears it, for an order that stands, or finds none.
LEMMA BeforeRequestMaps ==
    ASSUME IInv, OrdersInv, NEW s \in Subjects, BeforeRequest(s)
    PROVE  OrdersInv' /\ Orders!Next
<1>1. Attempting(s) /\ ~Sending(s) /\ UNCHANGED <<remote, wire, local>>
  BY DEF BeforeRequest, Attempting, Sending, apple
<1>2. CASE Result(s, "pending", TRUE)
  <2>1. Rests(s)
    BY <1>2, ResultMovesOn
  <2> QED
    BY <1>1, <2>1, AttemptingRests, WithdrawMaps
<1>3. CASE Step(s, "canceled")
  <2>1. Rests(s)
    BY <1>3, StepRests
  <2> QED
    BY <1>1, <2>1, AttemptingRests, WithdrawMaps
<1>4. ASSUME NEW p \in {"deactivating", "deleting"}, Step(s, p),
             work' = Prune(work, job).work, job' = Prune(work, job).job,
             Wanted(Prune(work, job).job, worker[s].work)
      PROVE  OrdersInv' /\ Orders!Next
  <2>1. MovesOn(s) /\ worker'[s].step = p
    BY <1>4, StepMovesOn
  <2>2. OrdersInv' /\ Renounces(job, job') /\ Cleared' = Cleared \cup {Addr(s)}
    BY <1>1, <2>1, AttemptingKeeps
  <2>3. \E j \in Jobs : /\ ~job'[j].cancel /\ Addr(s) \in DOMAIN job[j].item
                        /\ ~Done(job[j].item[Addr(s)]) /\ ~Done(job'[j].item[Addr(s)])
    BY <1>1, <1>4, WantedOrder DEF Attempting
  <2>4. Addr(s) \in Addresses
    BY <2>2, <2>3 DEF Renounces
  <2> QED
    BY <1>1, <2>2, <2>3, <2>4, ClearMaps
<1> QED
  BY <1>2, <1>3, <1>4 DEF BeforeRequest

\* A request in flight is the one that was cleared.
LEMMA SendingCleared ==
    ASSUME IInv, NEW s \in Subjects, Sending(s)
    PROVE  Addr(s) \in Addresses /\ Addr(s) \in Cleared /\ worker[s].step # "none"
<1>1. worker[s].step # "none"
  BY DEF Sending
<1> QED
  BY <1>1, OwnRow, Table DEF Addr, Cleared

LEMMA UnsentMaps ==
    ASSUME IInv, OrdersInv, NEW s \in Subjects, Unsent(s)
    PROVE  OrdersInv' /\ Orders!Next
<1>1. Addr(s) \in Addresses /\ Sending(s)
  BY SendingCleared DEF Unsent
<1>2. Attempting(s) /\ UNCHANGED <<job, remote, wire, local>>
  BY <1>1, SendingCleared DEF Unsent, Attempting, db, apple
<1>3. Rests(s)
  BY OutcomeMovesOn DEF Unsent
<1>4. OrdersInv' /\ Cleared' = Cleared \ {Addr(s)}
  BY <1>2, <1>3, AttemptingKeeps DEF Rests
<1> QED
  BY <1>1, <1>2, <1>4, LapseMaps

LEMMA DeactivateMaps ==
    ASSUME IInv, OrdersInv, NEW s \in Subjects, Deactivate(s)
    PROVE  OrdersInv' /\ Orders!Next
<1>1. Addr(s) \in Addresses /\ Addr(s) \in Cleared /\ Attempting(s)
  <2>1. Sending(s)
    BY DEF Deactivate, Sending
  <2> QED
    BY <2>1, SendingCleared DEF Deactivate, Attempting
<1>2. /\ UNCHANGED <<job, wire, local>>
      /\ \/ UNCHANGED remote
         \/ remote[Addr(s)] = "active" /\ remote' = [remote EXCEPT ![Addr(s)] = "inactive"]
  BY DEF Deactivate, db
<1>3. MovesOn(s) /\ worker'[s].step = "deactivated"
  BY StepMovesOn DEF Deactivate
<1>4. OrdersInv' /\ Cleared' = Cleared \ {Addr(s)}
  BY <1>1, <1>3, AttemptingKeeps
<1> QED
  BY <1>1, <1>2, <1>4, MutateMaps

LEMMA DeleteMaps ==
    ASSUME IInv, OrdersInv, NEW s \in Subjects, Delete(s)
    PROVE  OrdersInv' /\ Orders!Next
<1>1. Addr(s) \in Addresses /\ Addr(s) \in Cleared /\ Attempting(s)
  <2>1. Sending(s)
    BY DEF Delete, Sending
  <2> QED
    BY <2>1, SendingCleared DEF Delete, Attempting
<1>2. /\ UNCHANGED <<job, local>>
      /\ \/ remote' = [remote EXCEPT ![Addr(s)] = "gone"] /\ UNCHANGED wire
         \/ wire' = wire \cup {Addr(s)} /\ UNCHANGED remote
  BY DEF Delete, db
<1>3. MovesOn(s) /\ worker'[s].step = "sent"
  BY StepMovesOn DEF Delete
<1>4. OrdersInv' /\ Cleared' = Cleared \ {Addr(s)}
  BY <1>1, <1>3, AttemptingKeeps
<1> QED
  BY <1>1, <1>2, <1>4, MutateMaps

-----------------------------------------------------------------------------
(* Claims and saves.                                                       *)
LEMMA ClaimMaps ==
    ASSUME IInv, OrdersInv, NEW w \in DOMAIN work, Claim(w)
    PROVE  OrdersInv' /\ Orders!Next
<1> DEFINE P == Prune(work, job)
           n == [P.work[w] EXCEPT !.status = "running", !.token = tokens + 1]
           s == Subject(work[w])
<1>1. Coherent(work, job, {}) /\ Filed(work, job)
  BY Table DEF OrdersInv
<1>2. Tidied(P) /\ QueueHead(P.work, w)
  BY <1>1, PruneTidies DEF Claim
<1>3. /\ work' = [P.work EXCEPT ![w].status = "running", ![w].token = tokens + 1]
      /\ job' = Publish(work', P.job, {w})
      /\ UNCHANGED <<pv, admitted, late, remote, wire, local>>
      /\ Free(s)
      /\ \/ worker' = worker
         \/ \E b : worker' = [worker EXCEPT ![s] =
                  [NoWorker EXCEPT !.step = "start", !.work = w, !.token = tokens + 1,
                                   !.reconcile = b]]
  BY DEF Claim, MayDispatch, apple
<1> HIDE DEF P
<1>4. P.work[w] \in WorkRec /\ P.work[w].status \in Active /\ w \in DOMAIN P.work
  <2>1. P.work \in Seq(WorkRec) /\ w \in DOMAIN P.work
    BY <1>2 DEF Tidied, Coherent, RowsStay
  <2> QED
    BY <1>2, <2>1, WorkRows DEF QueueHead, Active
<1>5. n \in WorkRec /\ n.addr = P.work[w].addr /\ n.status = "running"
  <2>1. "running" \in Active \cup Terminal /\ tokens + 1 \in Nat
    BY DEF Active, IInv, RuntimeType
  <2>2. n \in WorkRec
    BY <1>4, <2>1, ClaimedRow
  <2> QED
    BY <1>4, <2>2 DEF WorkRec
<1>6. work' = [P.work EXCEPT ![w] = n]
  BY <1>3
<1> HIDE DEF n
<1>7. RowTold(P, w, n, work', job')
  <2>1. PICK V, K : V = work' /\ K = job'
    OBVIOUS
  <2>2. V = [P.work EXCEPT ![w] = n] /\ K = Publish(V, P.job, {w})
    BY <1>3, <1>6, <2>1
  <2>3. RowTold(P, w, n, V, K)
    BY <1>2, <1>4, <1>5, <2>2, PublishRow
  <2> QED
    BY <2>1, <2>3
<1>8. Renounces(job, job')
  <2>1. ASSUME NEW j \in Jobs, NEW a \in DOMAIN job[j].item, ~Done(job[j].item[a]),
               Done(job'[j].item[a])
        PROVE  job'[j].item[a].state = "cancelled" /\ Shunned(job', a) /\ a \notin Cleared
    <3>1. /\ job'[j].item[a].state = "cancelled" /\ job'[j].cancel
          /\ work[job[j].item[a].work].status # "running"
      BY <1>5, <1>7, <2>1 DEF RowTold, Done, Terminal
    <3>2. a \in DOMAIN job'[j].item
      BY <1>7 DEF RowTold, Follows, JobFollows
    <3>3. a \notin Cleared
      BY <1>1, <2>1, <3>1, SettledNotCleared
    <3> QED
      BY <3>1, <3>2, <3>3 DEF Shunned
  <2> QED
    BY <1>1, <1>7, <2>1, FollowsRenounces DEF RowTold
<1>9. Kept
  <2>1. \A x \in DOMAIN work : work'[x].addr = work[x].addr
    <3>1. DOMAIN P.work = DOMAIN work /\ \A x \in DOMAIN work : P.work[x].addr = work[x].addr
      BY <1>2 DEF Tidied, RowsStay
    <3> QED
      BY <1>5, <1>6, <3>1
  <2> QED
    BY <1>7, <2>1, FollowsCancelStays DEF RowTold, Kept
<1>10. \A t \in Subjects : \/ worker'[t] = worker[t]
                           \/ worker[t].step = "none" /\ worker'[t].step = "start"
  <2>1. CASE worker' = worker
    BY <2>1
  <2>2. ASSUME NEW b, worker' = [worker EXCEPT ![s] =
                  [NoWorker EXCEPT !.step = "start", !.work = w, !.token = tokens + 1,
                                   !.reconcile = b]]
        PROVE  \A t \in Subjects : \/ worker'[t] = worker[t]
                                   \/ worker[t].step = "none" /\ worker'[t].step = "start"
    <3> DEFINE wk == [NoWorker EXCEPT !.step = "start", !.work = w, !.token = tokens + 1,
                                      !.reconcile = b]
    <3>1. wk.step = "start"
      BY DEF NoWorker
    <3> HIDE DEF wk
    <3>2. worker' = [worker EXCEPT ![s] = wk]
      BY <2>2 DEF wk
    <3> QED
      BY <1>3, <3>1, <3>2 DEF IInv, RuntimeType, Free
  <2> QED
    BY <1>3, <2>1, <2>2
<1>11. OrdersInv'
  <2>1. \A m \in Admins : pv'[m] # 0
    BY <1>3 DEF OrdersInv
  <2>2. \A q \in admitted' : q.pv # 0
    BY <1>3 DEF OrdersInv
  <2> QED
    BY <1>3, <1>9, <1>10, <2>1, <2>2, OrdersInvKept
<1>12. UNCHANGED Cleared
  BY <1>9, <1>10, ClearedStays
<1> QED
  BY <1>3, <1>8, <1>11, <1>12, WithdrawMaps

\* A save that is let through answers the orders of its address, or withdraws them.
LEMMA SaveTxMaps ==
    ASSUME IInv, OrdersInv, NEW wk \in WorkerRec, ResultInv(wk, work, remote, unread), ~Fenced(wk),
           Backed(wk, work, job, local),
           work[wk.work].addr \notin Cleared,
           work' = SaveTx(wk).work, job' = SaveTx(wk).job, UNCHANGED <<remote, wire, local>>
    PROVE  Kept /\ (UNCHANGED Cleared => Orders!Next)
<1> DEFINE P == Prune(work, job)
           x == wk.work
           wanted == Wanted(P.job, x)
           n == SavedWork(P.work[x], wk, wanted)
           addr == work[x].addr
<1>1. Coherent(work, job, {}) /\ Filed(work, job)
  BY Table DEF OrdersInv
<1>2. Tidied(P)
  BY <1>1, PruneTidies
<1>3. work' = [P.work EXCEPT ![x] = n] /\ job' = Publish(work', P.job, {x})
  BY DEF SaveTx
<1>4. /\ x \in DOMAIN work /\ work[x].status = "running" /\ wk.status # "running"
      /\ wk.status = "succeeded" => remote[addr] = "gone"
      /\ wk.status \in Active \cup Terminal /\ wk.again \in BOOLEAN
  BY DEF ResultInv, Fenced, WorkerRec
<1>5. wanted \/ Shunned(P.job, P.work[x].addr)
  BY <1>2, <1>4, UnwantedShunned
<1> HIDE DEF P, wanted
<1>6. /\ P.work[x] = work[x] /\ x \in DOMAIN P.work /\ DOMAIN P.work = DOMAIN work
      /\ P.work[x] \in WorkRec /\ P.work[x].status \in Active
      /\ \A y \in DOMAIN work : P.work[y].addr = work[y].addr
  <2>1. P.work \in Seq(WorkRec) /\ P.work[x] = work[x] /\ DOMAIN P.work = DOMAIN work
        /\ \A y \in DOMAIN work : P.work[y].addr = work[y].addr
    BY <1>2, <1>4 DEF Tidied, Coherent, RowsStay
  <2> QED
    BY <1>4, <2>1, WorkRows DEF Active
<1>7. /\ n \in WorkRec /\ n.addr = P.work[x].addr
      /\ \/ ~wanted /\ wk.status \notin Terminal /\ ~wk.again /\ n.status = "cancelled"
         \/ n.status = wk.status
  <2> HIDE DEF n
  <2>1. n = SavedWork(P.work[x], wk, wanted)
    BY DEF n
  <2> QED
    BY <1>4, <1>6, <2>1, SavedWorkFacts
<1> HIDE DEF n
<1>8. RowTold(P, x, n, work', job')
  <2>1. PICK V, K : V = work' /\ K = job'
    OBVIOUS
  <2>2. V = [P.work EXCEPT ![x] = n] /\ K = Publish(V, P.job, {x})
    BY <1>3, <2>1
  <2>3. RowTold(P, x, n, V, K)
    <3> HIDE DEF x
    <3> QED
      BY <1>2, <1>4, <1>6, <1>7, <2>2, PublishRow
  <2> QED
    BY <2>1, <2>3
<1>9. Kept
  <2>1. \A y \in DOMAIN work : work'[y].addr = work[y].addr
    BY <1>3, <1>6, <1>7
  <2> QED
    BY <1>8, <2>1, FollowsCancelStays DEF RowTold, Kept
<1>10. \A j \in Jobs : DOMAIN job'[j].item = DOMAIN job[j].item
  BY <1>8 DEF RowTold, Follows, JobFollows
<1>11. \A j \in Jobs : \A a \in DOMAIN job[j].item : job[j].item[a].work = x => a = addr
  BY <1>1 DEF Filed, FiledJob
<1>12. ASSUME n.status \notin Terminal \/ (n.status = "cancelled" /\ Shunned(job', addr))
       PROVE  UNCHANGED Cleared => Orders!Next
  <2>1. ASSUME NEW j \in Jobs, NEW a \in DOMAIN job[j].item, ~Done(job[j].item[a]),
               Done(job'[j].item[a])
        PROVE  job'[j].item[a].state = "cancelled" /\ Shunned(job', a) /\ a \notin Cleared
    <3>1. CASE /\ job'[j].item[a].state = "cancelled" /\ job'[j].cancel
               /\ work[job[j].item[a].work].status # "running"
      BY <1>1, <1>10, <2>1, <3>1, SettledNotCleared DEF Shunned
    <3>2. CASE job[j].item[a].work = x /\ job'[j].item[a].state = n.status
      BY <1>11, <1>12, <2>1, <3>2 DEF Done
    <3> QED
      BY <1>8, <2>1, <3>1, <3>2 DEF RowTold
  <2>2. Renounces(job, job')
    BY <1>1, <1>8, <2>1, FollowsRenounces DEF RowTold
  <2> QED
    BY <2>2, WithdrawMaps
<1>13. ASSUME n.status \notin Terminal
       PROVE  UNCHANGED Cleared => Orders!Next
  BY <1>12, <1>13
<1>14. ASSUME n.status = "cancelled"
       PROVE  UNCHANGED Cleared => Orders!Next
  <2>1. CASE ~wanted
    <3>1. PICK j \in Jobs : P.job[j].cancel /\ addr \in DOMAIN P.job[j].item
      BY <1>5, <1>6, <2>1 DEF Shunned
    <3>2. job'[j].cancel /\ addr \in DOMAIN job'[j].item
      BY <1>2, <1>8, <1>10, <3>1 DEF RowTold, Tidied, Follows, JobFollows
    <3>3. Shunned(job', addr)
      BY <3>2 DEF Shunned
    <3> QED
      BY <1>12, <1>14, <3>3
  <2>2. CASE wk.status = "cancelled"
    <3>1. Shunned(job, addr)
      BY <2>2 DEF Backed
    <3>2. Shunned(job', addr)
      BY <1>9, <3>1, ShunnedStays DEF Kept
    <3> QED
      BY <1>12, <1>14, <3>2
  <2> QED
    BY <1>7, <1>14, <2>1, <2>2
<1>15. ASSUME n.status \in {"succeeded", "failed"}
       PROVE  UNCHANGED Cleared => Orders!Next
  <2>1. n.status = wk.status
    BY <1>7, <1>15
  <2>2. n.status = "succeeded" => remote[addr] = "gone" /\ addr \notin local
    BY <1>4, <2>1 DEF Backed
  <2>3. Answers(job, job', addr, n.status)
    <3> SUFFICES ASSUME NEW j \in Jobs
                 PROVE  /\ DOMAIN job'[j].item = DOMAIN job[j].item
                        /\ job[j].cancel => job'[j].cancel
                        /\ \A a \in DOMAIN job[j].item :
                              /\ a \in Addresses
                              /\ Done(job[j].item[a]) =>
                                    job'[j].item[a].state = job[j].item[a].state
                              /\ ~Done(job[j].item[a]) /\ a = addr
                                    => job'[j].item[a].state = n.status
                              /\ ~Done(job[j].item[a]) /\ Done(job'[j].item[a]) /\ a # addr
                                    => /\ job'[j].item[a].state = "cancelled"
                                       /\ Shunned(job', a) /\ a \notin Cleared
      BY DEF Answers
    <3>1. job[j].cancel => job'[j].cancel
      BY <1>8 DEF RowTold, Follows, JobFollows
    <3>2. ASSUME NEW a \in DOMAIN job[j].item
          PROVE  /\ a \in Addresses
                 /\ Done(job[j].item[a]) => job'[j].item[a].state = job[j].item[a].state
      <4>1. job[j] \in JobRec /\ JobEvolves(job[j], job'[j])
        BY <1>1, <1>8 DEF RowTold, Coherent, Evolved
      <4> QED
        BY <4>1, ItemsOfJob DEF JobEvolves
    <3>3. ASSUME ~Done(job[j].item[addr]), addr \in DOMAIN job[j].item
          PROVE  job'[j].item[addr].state = n.status
      <4>1. /\ work[job[j].item[addr].work].status \in Active
            /\ job[j].item[addr].work \in DOMAIN work
            /\ work[job[j].item[addr].work].addr = addr
        <5>1. JobInv(work, job[j], {}) /\ FiledJob(work, job[j])
          BY <1>1 DEF Coherent, Filed
        <5> QED
          BY <3>3, <5>1 DEF JobInv, FiledJob
      <4>2. job[j].item[addr].work = x
        <5>1. OneActive(work)
          BY <1>1 DEF Coherent
        <5>2. x \in DOMAIN work /\ work[x].addr = addr /\ work[x].status \in Active
          BY <1>4 DEF Active
        <5> QED
          BY <4>1, <5>1, <5>2 DEF OneActive
      <4>3. work[x].status = "running"
        BY <1>4
      <4> HIDE DEF x, addr
      <4> QED
        BY <1>8, <3>3, <4>2, <4>3 DEF RowTold
    <3>4. ASSUME NEW a \in DOMAIN job[j].item, ~Done(job[j].item[a]), Done(job'[j].item[a]),
                 a # addr
          PROVE  job'[j].item[a].state = "cancelled" /\ Shunned(job', a) /\ a \notin Cleared
      <4>1. /\ job'[j].item[a].state = "cancelled" /\ job'[j].cancel
            /\ work[job[j].item[a].work].status # "running"
        BY <1>8, <1>11, <3>4 DEF RowTold
      <4>2. a \notin Cleared
        BY <1>1, <3>4, <4>1, SettledNotCleared
      <4> QED
        BY <1>10, <4>1, <4>2 DEF Shunned
    <3> QED
      BY <1>10, <3>1, <3>2, <3>3, <3>4
  <2>4. addr \in Addresses
    BY <1>4, Table
  <2> QED
    BY <1>15, <2>2, <2>3, <2>4, AnswerMaps
<1>16. n.status \notin Terminal \/ n.status = "cancelled" \/ n.status \in {"succeeded", "failed"}
  BY DEF Terminal
<1> QED
  BY <1>9, <1>13, <1>14, <1>15, <1>16

LEMMA SaveMaps ==
    ASSUME IInv, OrdersInv, NEW s \in Subjects, Save(s)
    PROVE  OrdersInv' /\ Orders!Next
<1> DEFINE wk == worker[s]
<1>1. /\ wk.step = "save" /\ worker' = [worker EXCEPT ![s] = NoWorker]
      /\ UNCHANGED <<pv, admitted, late>> /\ UNCHANGED <<remote, wire, local>>
      /\ \/ ~Fenced(wk) /\ work' = SaveTx(wk).work /\ job' = SaveTx(wk).job
         \/ UNCHANGED db
  BY DEF Save, apple
<1>2. wk \in WorkerRec /\ ResultInv(wk, work, remote, unread) /\ Backed(wk, work, job, local)
  BY <1>1 DEF IInv, RuntimeType, WorkersInv, Free, WorkerInv, OrdersInv
<1>3. work[wk.work].addr \notin Cleared
  BY <1>1, OneSends DEF Sending, Addr
<1>4. \A t \in Subjects : \/ worker'[t] = worker[t]
                          \/ worker[t].step = "save" /\ worker'[t].step = "none"
  BY <1>1, NoWorkerRec DEF IInv, RuntimeType
<1>5. Kept /\ (UNCHANGED Cleared => Orders!Next)
  <2>1. CASE ~Fenced(wk) /\ work' = SaveTx(wk).work /\ job' = SaveTx(wk).job
    BY <1>1, <1>2, <1>3, <2>1, SaveTxMaps
  <2>2. CASE UNCHANGED db
    BY <1>1, <2>2, DatabaseKept, WithdrawMaps DEF OrdersInv
  <2> QED
    BY <1>1, <2>1, <2>2
<1>6. UNCHANGED Cleared
  BY <1>4, <1>5, ClearedStays
<1>7. (\A m \in Admins : pv'[m] # 0) /\ \A q \in admitted' : q.pv # 0
  BY <1>1 DEF OrdersInv
<1> QED
  BY <1>1, <1>4, <1>7, <1>5, <1>6, OrdersInvKept

LEMMA LateSaveMaps ==
    ASSUME IInv, OrdersInv, NEW wk \in late, LateSave(wk)
    PROVE  OrdersInv' /\ Orders!Next
<1>1. /\ late' = late \ {wk} /\ UNCHANGED <<pv, admitted, worker>>
      /\ UNCHANGED <<remote, wire, local>>
      /\ \/ ~Fenced(wk) /\ work' = SaveTx(wk).work /\ job' = SaveTx(wk).job
         \/ UNCHANGED db
  BY DEF LateSave, runtime, apple
<1>2. wk \in WorkerRec /\ ResultInv(wk, work, remote, unread) /\ Backed(wk, work, job, local)
  BY DEF IInv, RuntimeType, LateInv, OrdersInv
<1>3. Cleared = {}
  BY FreeClearsNothing DEF LateSave, IInv, Exclusive
<1>4. Kept /\ (UNCHANGED Cleared => Orders!Next)
  <2>1. CASE ~Fenced(wk) /\ work' = SaveTx(wk).work /\ job' = SaveTx(wk).job
    BY <1>1, <1>2, <1>3, <2>1, SaveTxMaps
  <2>2. CASE UNCHANGED db
    BY <1>1, <2>2, DatabaseKept, WithdrawMaps DEF OrdersInv
  <2> QED
    BY <1>1, <2>1, <2>2
<1>5. (\A m \in Admins : pv'[m] # 0) /\ \A q \in admitted' : q.pv # 0
  BY <1>1 DEF OrdersInv
<1>6. UNCHANGED Cleared
  BY <1>1, <1>4, ClearedStays
<1> QED
  BY <1>1, <1>4, <1>5, <1>6, OrdersInvKept

-----------------------------------------------------------------------------
(* The other steps.                                                        *)

\* Steps that touch neither the workers nor what is known of the addresses.
LEMMA QuietMaps ==
    ASSUME IInv, OrdersInv, Kept, Renounces(job, job'),
           UNCHANGED <<remote, wire, local, worker, late>>,
           \A m \in Admins : pv'[m] # 0, \A q \in admitted' : q.pv # 0
    PROVE  OrdersInv' /\ Orders!Next
<1>1. UNCHANGED Cleared
  BY ClearedStays
<1> QED
  BY <1>1, OrdersInvKept, WithdrawMaps

LEMMA CancelJobMaps ==
    ASSUME IInv, OrdersInv, NEW j \in Jobs, CancelJob(j)
    PROVE  OrdersInv' /\ Orders!Next
<1> DEFINE K == CancelJobs(work, job, {j}, FALSE)
           T == CancelUnwanted(work, K)
<1>1. Coherent(work, job, {}) /\ Filed(work, job)
  BY Table DEF OrdersInv
<1>2. /\ Coherent(work, K, {}) /\ Evolved(job, K) /\ Follows(work, job, K) /\ Spares(work, job, K)
  <2>1. \A i \in Jobs \cap {j} : job[i].status \in {"queued", "running"}
    BY DEF CancelJob
  <2> QED
    BY <1>1, <2>1, CancelJobsKeeps, CancelJobsFollows
<1>3. work' = T.work /\ job' = T.job
  BY DEF CancelJob
<1>4. UNCHANGED <<remote, wire, local, worker, late, pv, admitted>>
  BY DEF CancelJob, runtime, apple
<1> HIDE DEF K
<1>5. /\ Follows(T.work, K, T.job) /\ Spares(work, K, T.job) /\ RowsStay(work, T.work)
      /\ Coherent(T.work, T.job, {}) /\ Evolved(K, T.job)
  BY <1>2, CancelUnwantedFollows, CancelUnwantedKeeps
<1> HIDE DEF T
<1>6. Follows(T.work, job, T.job)
  <2>1. \A i \in Jobs : \A a \in DOMAIN job[i].item : job[i].item[a].work \in DOMAIN work
    BY <1>1 DEF Coherent, JobInv
  <2> QED
    BY <1>2, <1>5, <2>1, FollowsTransitive
<1>7. Spares(work, job, T.job)
  BY <1>2, <1>5, SparesTransitive
<1>8. Evolved(job, T.job)
  BY <1>2, <1>5, EvolvedTransitive
<1>9. Filed(T.work, T.job)
  BY <1>1, <1>5, <1>6, <1>8, FollowsFiled
<1>10. Renounces(job, T.job) /\ CancelStays(job, T.job)
  BY <1>1, <1>6, <1>7, <1>8, SparesRenounces, FollowsCancelStays
<1>11. Kept
  BY <1>3, <1>5, <1>9, <1>10 DEF Kept, RowsStay
<1> QED
  BY <1>3, <1>4, <1>10, <1>11, QuietMaps DEF OrdersInv

LEMMA RuntimeMaps ==
    ASSUME IInv, OrdersInv,
           \/ Scan \/ Stop \/ BeginRotation
           \/ \E j \in Jobs : \E r \in Requests : Admit(j, r)
           \/ \E q \in admitted : Refuse(q)
           \/ \E m \in Admins : ChangePassword(m) \/ EndRotation(m)
    PROVE  OrdersInv' /\ Orders!Next
<1>1. /\ UNCHANGED <<remote, wire, local, worker, late>>
      /\ \/ UNCHANGED db
         \/ work' = Prune(work, job).work /\ job' = Prune(work, job).job
  BY DEF Scan, Stop, BeginRotation, Admit, Refuse, ChangePassword, EndRotation, runtime, apple
<1>2. Kept /\ Renounces(job, job')
  BY <1>1, DatabaseKept DEF OrdersInv
<1>3. pv \in [Admins -> Nat] /\ OwnerOf \in [Jobs -> Admins]
  BY QueueAssumption DEF IInv, RuntimeType
<1>4. \A m \in Admins : pv'[m] # 0
  BY <1>3 DEF OrdersInv, Scan, Stop, BeginRotation, Admit, Refuse, ChangePassword, EndRotation
<1>5. \A q \in admitted' : q.pv # 0
  <2>1. CASE \E j \in Jobs : \E r \in Requests : Admit(j, r)
    BY <1>3, <2>1 DEF OrdersInv, Admit
  <2>2. CASE admitted' \subseteq admitted
    BY <2>2 DEF OrdersInv
  <2> QED
    BY <2>1, <2>2 DEF Scan, Stop, BeginRotation, Refuse, ChangePassword, EndRotation, runtime
<1> QED
  BY <1>1, <1>2, <1>4, <1>5, QuietMaps

LEMMA ApplyStepMaps ==
    ASSUME IInv, OrdersInv, NEW a \in Addresses, AppleApplies(a)
    PROVE  OrdersInv' /\ Orders!Next
<1>1. UNCHANGED db /\ UNCHANGED <<pv, local, worker, late, admitted>>
  BY DEF AppleApplies, runtime
<1>2. Kept
  BY <1>1, DatabaseKept DEF OrdersInv
<1>3. OrdersInv'
  BY <1>1, <1>2, OrdersInvKept DEF OrdersInv
<1>4. UNCHANGED Cleared
  BY <1>1, <1>2, ClearedStays
<1> QED
  BY <1>3, <1>4, ApplyMaps

LEMMA ElapseMaps ==
    ASSUME IInv, OrdersInv, NEW w \in DOMAIN work, Elapse(w)
    PROVE  OrdersInv' /\ Orders!Next
<1>1. /\ job' = job /\ work' = [work EXCEPT ![w].due = TRUE]
      /\ UNCHANGED <<remote, wire, local, worker, late, pv, admitted>>
  BY DEF Elapse, runtime, apple
<1>2. /\ DOMAIN work' = DOMAIN work
      /\ \A x \in DOMAIN work :
            work'[x].addr = work[x].addr /\ work'[x].status = work[x].status
  <2>1. work[w] \in WorkRec
    BY Table
  <2> QED
    BY <1>1, <2>1 DEF WorkRec
<1>3. Coherent(work, job, {}) /\ Filed(work, job)
  BY Table DEF OrdersInv
<1>4. Filed(work', job')
  <2>1. \A j \in Jobs : \A a \in DOMAIN job[j].item : job[j].item[a].work \in DOMAIN work
    BY <1>3 DEF Coherent, JobInv
  <2> QED
    BY <1>1, <1>2, <1>3, <2>1 DEF Filed, FiledJob, Owned
<1>5. Follows(work, job, job) /\ Evolved(job, job) /\ Spares(work, job, job)
  BY DEF Follows, JobFollows, Evolved, JobEvolves, Spares, JobSpares
<1>6. Renounces(job, job') /\ CancelStays(job, job')
  BY <1>1, <1>3, <1>5, SparesRenounces, FollowsCancelStays
<1>7. Kept
  BY <1>2, <1>4, <1>6 DEF Kept
<1> QED
  BY <1>1, <1>6, <1>7, QuietMaps DEF OrdersInv

LEMMA DownMaps ==
    ASSUME IInv, OrdersInv, Exit \/ Crash
    PROVE  OrdersInv' /\ Orders!Next
<1>1. /\ Down /\ UNCHANGED db /\ UNCHANGED <<pv, remote, wire, local>>
      /\ \A wk \in late' : wk \in late \/ \E s \in Subjects : wk = worker[s] /\ wk.step = "save"
  BY DEF Exit, Crash, apple
<1>2. Kept
  BY <1>1, DatabaseKept DEF OrdersInv
<1>3. \A s \in Subjects : worker'[s].step = "none"
  BY <1>1, NoWorkerRec DEF Down
<1>4. \A q \in admitted' : q.pv # 0
  BY <1>1 DEF Down
<1>5. OrdersInv'
  BY <1>1, <1>2, <1>3, <1>4, OrdersInvKept DEF OrdersInv
<1>6. Cleared' = Cleared \ Cleared
  BY <1>3 DEF Cleared, Sending
<1>7. Cleared \in SUBSET Addresses
  BY ClearedRuns
<1>8. UNCHANGED <<job, remote, wire, local>>
  BY <1>1 DEF db
<1> QED
  BY <1>5, <1>6, <1>7, <1>8, LapseMaps

\* The job that a request becomes: each of its items waits for the active work of its address.
LEMMA EnqueuedOrder ==
    ASSUME NEW W, NEW J, Coherent(W, J, {}), NEW r \in Requests, NEW n,
           NEW V, V = Enqueued(W, r), NEW k, k = EnqueuedJob(V, r, n)
    PROVE  /\ DOMAIN k.item = ToSet(r) /\ ToSet(r) \subseteq Addresses
           /\ \A a \in ToSet(r) :
                 /\ k.item[a].work \in DOMAIN V /\ V[k.item[a].work].addr = a
                 /\ V[k.item[a].work].status \in Active
                 /\ k.item[a].active /\ ~Done(k.item[a])
<1>1. W \in Seq(WorkRec) /\ OneActive(W)
  BY DEF Coherent
<1>2. \A a \in ToSet(r) : ActiveWork(V, a) # {}
  BY <1>1, EnqueuedFacts
<1>3. ToSet(r) \subseteq Addresses
  BY QueueAssumption, ElementOfSeq, LenProperties DEF ToSet
<1> DEFINE sub(a) == CHOOSE w \in ActiveWork(V, a) : TRUE
<1>4. \A a \in ToSet(r) :
         /\ sub(a) \in DOMAIN V /\ V[sub(a)].addr = a /\ V[sub(a)].status \in Active
         /\ Subscription(V, a) = [work |-> sub(a), state |-> V[sub(a)].status,
                                  active |-> TRUE, audits |-> 0]
  <2>1. \A a \in ToSet(r) : sub(a) \in ActiveWork(V, a)
    BY <1>2
  <2> QED
    BY <2>1 DEF ActiveWork, Subscription
<1> HIDE DEF sub
<1>5. k.item = [a \in ToSet(r) |-> Subscription(V, a)]
  BY DEF EnqueuedJob
<1>6. \A a \in ToSet(r) : /\ k.item[a].work = sub(a) /\ k.item[a].active
                          /\ k.item[a].state = V[sub(a)].status
  BY <1>4, <1>5
<1> QED
  BY <1>3, <1>4, <1>5, <1>6 DEF Done, Active, Idle, Terminal

LEMMA EnqueueMaps ==
    ASSUME IInv, OrdersInv, NEW q \in admitted, Enqueue(q)
    PROVE  OrdersInv' /\ Orders!Next
<1> DEFINE P == Prune(work, job)
           r == q.request
           V == Enqueued(P.work, r)
           k == EnqueuedJob(V, r, q.pv)
           i == q.job
<1>1. Coherent(work, job, {}) /\ Filed(work, job)
  BY Table DEF OrdersInv
<1>2. Tidied(P)
  BY <1>1, PruneTidies
<1>3. /\ work' = V /\ job' = WithJob(P.job, i, k) /\ admitted' = {}
      /\ UNCHANGED <<remote, wire, local, worker, late, pv>>
  BY DEF Enqueue, EnqueuedJob, WithJob, apple
<1>4. /\ i \in Jobs /\ r \in Requests /\ q.pv \in Nat /\ q.pv # 0
      /\ job[i].status = "absent"
  BY DEF IInv, RuntimeType, AdmittedInv, OrdersInv
<1> HIDE DEF P
<1>5. /\ Coherent(P.work, P.job, {}) /\ Filed(P.work, P.job)
      /\ Evolved(job, P.job) /\ Follows(P.work, job, P.job) /\ Spares(work, job, P.job)
      /\ RowsStay(work, P.work)
  BY <1>2 DEF Tidied
<1>6. /\ DOMAIN k.item = ToSet(r) /\ ToSet(r) \subseteq Addresses
      /\ \A a \in ToSet(r) :
            /\ k.item[a].work \in DOMAIN V /\ V[k.item[a].work].addr = a
            /\ V[k.item[a].work].status \in Active
            /\ k.item[a].active /\ ~Done(k.item[a])
  <2> HIDE DEF V, k, r
  <2>1. V = Enqueued(P.work, r) /\ k = EnqueuedJob(V, r, q.pv)
    BY DEF V, k
  <2> QED
    BY <1>4, <1>5, <2>1, EnqueuedOrder
<1>7. /\ DOMAIN P.work \subseteq DOMAIN V
      /\ \A w \in DOMAIN P.work : V[w] = P.work[w]
      /\ \A w \in DOMAIN V \ DOMAIN P.work : \E a \in ToSet(r) : V[w] = NewWork(a)
      /\ OneActive(V)
  <2>1. P.work \in Seq(WorkRec) /\ OneActive(P.work)
    BY <1>5 DEF Coherent
  <2> HIDE DEF V, r
  <2>2. V = Enqueued(P.work, r)
    BY DEF V
  <2> QED
    BY <1>4, <2>1, <2>2, EnqueuedFacts
<1>8. /\ k.pv = q.pv /\ k.cancel = FALSE /\ k.status = "queued"
  BY DEF EnqueuedJob
<1>9. /\ job'[i].item = k.item /\ job'[i].pv = k.pv /\ job'[i].cancel = FALSE
      /\ job'[i].status = JobStatus(k)
      /\ \A j \in Jobs \ {i} : job'[j] = P.job[j]
      /\ job' = [j \in Jobs |-> job'[j]]
  <2>1. P.job \in [Jobs -> JobRec]
    BY <1>5 DEF Coherent
  <2> DEFINE m == k.item
             st == JobStatus(k)
  <2>2. k = [status |-> "queued", cancel |-> FALSE, pv |-> q.pv, item |-> m]
    BY DEF EnqueuedJob
  <2> DEFINE n == [k EXCEPT !.status = st]
  <2> HIDE DEF k, m, st
  <2>3. n.item = m /\ n.pv = q.pv /\ n.cancel = FALSE /\ n.status = st
    BY <2>2
  <2>4. job' = [P.job EXCEPT ![i] = n]
    BY <1>3 DEF WithJob, st
  <2> HIDE DEF i, n
  <2> QED
    BY <1>4, <1>8, <2>1, <2>3, <2>4 DEF m, st
<1>10. JobStatus(k) \notin {"absent", "interrupted"}
  BY <1>8, JobStatusFacts
<1> HIDE DEF V, k, r, i
<1>11. DOMAIN job[i].item = {} /\ DOMAIN P.job[i].item = {} /\ ~P.job[i].cancel /\ ~job[i].cancel
  <2>1. DOMAIN job[i].item = {} /\ P.job[i].status = "absent" /\ ~job[i].cancel
    BY <1>1, <1>4, <1>5 DEF Coherent, JobInv, Evolved, JobEvolves, Filed, FiledJob
  <2> QED
    BY <1>4, <1>5, <2>1 DEF Filed, FiledJob, Coherent, JobInv
<1>12. Filed(V, job')
  <2>1. FiledJob(V, job'[i])
    BY <1>4, <1>6, <1>8, <1>9, <1>10 DEF FiledJob
  <2>2. ASSUME NEW j \in Jobs \ {i}
        PROVE  FiledJob(V, job'[j])
    <3>1. FiledJob(P.work, P.job[j]) /\ JobInv(P.work, P.job[j], {})
      BY <1>5 DEF Filed, Coherent
    <3>2. job'[j] = P.job[j]
      BY <1>9
    <3>3. \A a \in DOMAIN P.job[j].item :
             V[P.job[j].item[a].work] = P.work[P.job[j].item[a].work]
      BY <1>7, <3>1 DEF JobInv
    <3> QED
      BY <3>1, <3>2, <3>3 DEF FiledJob
  <2>3. ASSUME NEW w \in DOMAIN V
        PROVE  \E j \in Jobs : \E a \in DOMAIN job'[j].item : job'[j].item[a].work = w
    <3>1. CASE w \in DOMAIN P.work
      <4>1. PICK j \in Jobs : \E a \in DOMAIN P.job[j].item : P.job[j].item[a].work = w
        BY <1>5, <3>1 DEF Filed, Owned
      <4> QED
        BY <1>9, <1>11, <4>1
    <3>2. CASE w \notin DOMAIN P.work
      <4>1. PICK a \in ToSet(r) : V[w] = NewWork(a)
        BY <1>7, <3>2
      <4>2. V[w].addr = a /\ V[w].status \in Active
        BY <4>1 DEF NewWork, Active, Idle
      <4>3. k.item[a].work = w
        BY <1>6, <1>7, <4>2 DEF OneActive
      <4> QED
        BY <1>4, <1>6, <1>9, <4>3
    <3> QED
      BY <3>1, <3>2
  <2> QED
    BY <2>1, <2>2, <2>3 DEF Filed, Owned
<1>13. Renounces(job, P.job) /\ CancelStays(job, P.job)
  BY <1>1, <1>5, SparesRenounces, FollowsCancelStays
<1>14. Kept
  <2>1. CancelStays(job, job')
    BY <1>9, <1>11, <1>13 DEF CancelStays
  <2>2. \A w \in DOMAIN work : work'[w].addr = work[w].addr
    BY <1>3, <1>5, <1>7 DEF RowsStay
  <2> QED
    BY <1>3, <1>12, <2>1, <2>2 DEF Kept
<1>15. OrdersInv'
  <2>1. (\A m \in Admins : pv'[m] # 0) /\ \A x \in admitted' : x.pv # 0
    BY <1>3 DEF OrdersInv
  <2> QED
    BY <1>3, <1>14, <2>1, OrdersInvKept
<1>16. Orders!Next
  <2>1. RevokedOf(job') = RevokedOf(P.job)
    BY <1>9, <1>11 DEF RevokedOf
  <2>2. OrderOf(job') = [OrderOf(P.job) EXCEPT ![i] = [a \in ToSet(r) |-> "open"]]
    <3>1. OrderOf(job')[i] = [a \in ToSet(r) |-> "open"]
      <4>1. OrderOf(job')[i] = [a \in DOMAIN job'[i].item |->
               IF Done(job'[i].item[a]) THEN job'[i].item[a].state ELSE "open"]
        BY <1>4 DEF OrderOf
      <4> QED
        BY <1>6, <1>9, <4>1
    <3>2. \A j \in Jobs \ {i} : OrderOf(job')[j] = OrderOf(P.job)[j]
      BY <1>9 DEF OrderOf
    <3>3. /\ OrderOf(job') = [j \in Jobs |-> OrderOf(job')[j]]
          /\ OrderOf(P.job) = [j \in Jobs |-> OrderOf(P.job)[j]]
      BY OrderShape
    <3> QED
      BY <1>4, <3>1, <3>2, <3>3
  <2>3. UNCHANGED Cleared
    BY <1>3, <1>14, ClearedStays
  <2> QED
    BY <1>3, <1>4, <1>6, <1>11, <1>13, <2>1, <2>2, <2>3, PlaceMaps
<1> QED
  BY <1>15, <1>16

LEMMA StartMaps ==
    ASSUME IInv, OrdersInv, Start
    PROVE  OrdersInv' /\ Orders!Next
<1> DEFINE W == RecoveredWork(work)
           J == [j \in Jobs |-> IF job[j].pv = 0 /\ job[j].status \in {"queued", "running"}
                                THEN [job[j] EXCEPT !.status = "interrupted"] ELSE job[j]]
           S == {w \in DOMAIN W : work[w].status = "running"}
           K == Publish(W, J, S)
           T == Prune(W, K)
<1>1. /\ work' = T.work /\ job' = T.job /\ late' = {}
      /\ UNCHANGED <<pv, admitted, worker, remote, wire, local>>
  BY DEF Start, apple
<1>2. Coherent(work, job, {}) /\ Filed(work, job) /\ work \in Seq(WorkRec)
  BY Table DEF OrdersInv
<1>3. /\ Coherent(W, J, S) /\ Evolved(job, J)
      /\ \A j \in Jobs : /\ J[j].item = job[j].item /\ J[j].cancel = job[j].cancel
                         /\ J[j].pv = job[j].pv
                         /\ J[j].status \in {job[j].status, "interrupted"}
                         /\ J[j].status = "interrupted" =>
                               job[j].status = "interrupted" \/ job[j].pv = 0
  BY <1>2, LegacyEnds
<1>4. /\ DOMAIN W = DOMAIN work
      /\ \A w \in DOMAIN work :
            /\ W[w].addr = work[w].addr
            /\ work[w].status # "running" => W[w] = work[w]
            /\ work[w].status = "running" => W[w].status = "pending"
  BY <1>2, RecoveredFacts
<1>5. \A w \in S : W[w].status = "pending"
  BY <1>4
<1> HIDE DEF W, J, S
<1>6. RowsStay(work, W) /\ RowsStay(W, W)
  BY <1>4 DEF RowsStay, Active
<1>7. Follows(W, job, J)
  BY <1>3 DEF Follows, JobFollows
<1>8. Filed(W, J)
  BY <1>2, <1>3, <1>6, <1>7, FollowsFiled
<1>9. Coherent(W, K, {}) /\ Evolved(J, K)
  BY <1>3, PublishKeeps
<1>10. Follows(W, J, K) /\ Tells(W, J, K, S)
  BY <1>3, PublishFollows
<1> HIDE DEF K
<1>11. Filed(W, K)
  BY <1>3, <1>6, <1>8, <1>9, <1>10, FollowsFiled
<1>12. Follows(W, job, K) /\ Evolved(job, K)
  <2>1. \A j \in Jobs : \A a \in DOMAIN job[j].item : job[j].item[a].work \in DOMAIN W
    BY <1>2, <1>4 DEF Coherent, JobInv
  <2> QED
    BY <1>3, <1>6, <1>7, <1>9, <1>10, <2>1, FollowsTransitive, EvolvedTransitive
<1>13. \A j \in Jobs : \A a \in DOMAIN job[j].item : ~Done(job[j].item[a]) => ~Done(K[j].item[a])
  BY <1>3, <1>5, <1>10 DEF Tells, Done, Terminal
<1>14. /\ Coherent(T.work, T.job, {}) /\ Evolved(K, T.job)
       /\ Follows(T.work, K, T.job) /\ Spares(W, K, T.job) /\ RowsStay(W, T.work)
  BY <1>9, PruneKeeps, PruneFollows
<1> HIDE DEF T
<1>15. Filed(T.work, T.job)
  BY <1>9, <1>11, <1>14, FollowsFiled
<1>16. Follows(T.work, job, T.job) /\ Evolved(job, T.job)
  <2>1. \A j \in Jobs : \A a \in DOMAIN job[j].item : job[j].item[a].work \in DOMAIN W
    BY <1>2, <1>4 DEF Coherent, JobInv
  <2> QED
    BY <1>12, <1>14, <2>1, FollowsTransitive, EvolvedTransitive
<1>17. Cleared = {}
  BY FreeClearsNothing DEF Start, IInv, Exclusive
<1>18. Renounces(job, T.job)
  <2>1. ASSUME NEW j \in Jobs, NEW a \in DOMAIN job[j].item, ~Done(job[j].item[a]),
               Done(T.job[j].item[a])
        PROVE  T.job[j].item[a].state = "cancelled" /\ Shunned(T.job, a) /\ a \notin Cleared
    <3>1. a \in DOMAIN K[j].item /\ a \in DOMAIN T.job[j].item
      BY <1>12, <1>16 DEF Follows, JobFollows
    <3>2. T.job[j].item[a].state = "cancelled" /\ T.job[j].cancel
      BY <1>13, <1>14, <2>1, <3>1 DEF Spares, JobSpares
    <3> QED
      BY <1>17, <3>1, <3>2 DEF Shunned
  <2> QED
    BY <1>2, <1>16, <2>1, FollowsRenounces
<1>19. Kept
  <2>1. CancelStays(job, T.job)
    BY <1>16, FollowsCancelStays
  <2>2. \A w \in DOMAIN work : T.work[w].addr = work[w].addr
    BY <1>6, <1>14 DEF RowsStay
  <2> QED
    BY <1>1, <1>15, <2>1, <2>2 DEF Kept
<1>20. OrdersInv'
  <2>1. (\A m \in Admins : pv'[m] # 0) /\ \A q \in admitted' : q.pv # 0
    BY <1>1 DEF OrdersInv
  <2> QED
    BY <1>1, <1>19, <2>1, OrdersInvKept
<1>21. UNCHANGED Cleared
  BY <1>1, <1>19, ClearedStays
<1> QED
  BY <1>1, <1>18, <1>20, <1>21, WithdrawMaps

-----------------------------------------------------------------------------
LEMMA InitMaps == Init => OrdersInv /\ Orders!Init
<1> SUFFICES ASSUME Init PROVE OrdersInv /\ Orders!Init
  OBVIOUS
<1>1. ASSUME NEW j \in Jobs
      PROVE  ~job[j].cancel /\ DOMAIN job[j].item = {} /\ job[j].item = [a \in {} |-> "open"]
             /\ job[j].status # "interrupted"
  <2>1. job[j] \in [status : {"absent", "queued", "running"}, cancel : {FALSE},
                    pv : {0}, item : {<<>>}]
    BY DEF Init
  <2>2. <<>> = [a \in {} |-> "open"] /\ DOMAIN <<>> = {}
    OBVIOUS
  <2> QED
    BY <2>1, <2>2
<1>2. work = <<>> /\ DOMAIN work = {}
  BY DEF Init
<1>3. Filed(work, job)
  BY <1>1, <1>2 DEF Filed, FiledJob, Owned
<1>4. OrdersInv
  <2>1. NoWorker.step # "save"
    BY DEF NoWorker
  <2> QED
    BY <1>3, <2>1 DEF Init, OrdersInv
<1>5. Cleared = {}
  <2>1. NoWorker.step = "none"
    BY DEF NoWorker
  <2> QED
    BY <2>1, FreeClearsNothing DEF Init, Free
<1>6. Orders!Init
  <2>1. OrderOf(job) = [j \in Jobs |-> [a \in {} |-> "open"]]
    BY <1>1 DEF OrderOf
  <2>2. {j \in Jobs : job[j].cancel} = {}
    BY <1>1
  <2>3. remote \in [Addresses -> {"active", "inactive"}] /\ wire = {} /\ local = Addresses
    BY QueueAssumption DEF Init
  <2> QED
    BY <1>5, <2>1, <2>2, <2>3 DEF Orders!Init, OrderOf
<1> QED
  BY <1>4, <1>6

LEMMA StepMaps == IInv /\ OrdersInv /\ [Next]_vars => OrdersInv' /\ [Orders!Next]_Orders!vars
<1> SUFFICES ASSUME IInv, OrdersInv, [Next]_vars PROVE OrdersInv' /\ [Orders!Next]_Orders!vars
  OBVIOUS
<1>1. ASSUME Next
      PROVE  OrdersInv' /\ Orders!Next
  <2>1. CASE Start
    BY <2>1, StartMaps, Zenon
  <2>2. CASE Exit \/ Crash
    BY <2>2, DownMaps, Zenon
  <2>3. CASE \/ Scan \/ Stop \/ BeginRotation
             \/ \E j \in Jobs : \E r \in Requests : Admit(j, r)
             \/ \E q \in admitted : Refuse(q)
             \/ \E m \in Admins : ChangePassword(m) \/ EndRotation(m)
    BY <2>3, RuntimeMaps, Zenon
  <2>4. ASSUME NEW j \in Jobs, CancelJob(j) PROVE OrdersInv' /\ Orders!Next
    BY <2>4, CancelJobMaps, Zenon
  <2>5. ASSUME NEW q \in admitted, Enqueue(q) PROVE OrdersInv' /\ Orders!Next
    BY <2>5, EnqueueMaps, Zenon
  <2>6. ASSUME NEW w \in DOMAIN work, Claim(w) \/ Elapse(w) PROVE OrdersInv' /\ Orders!Next
    BY <2>6, ClaimMaps, ElapseMaps, Zenon
  <2>7. ASSUME NEW wk \in late, LateSave(wk) PROVE OrdersInv' /\ Orders!Next
    BY <2>7, LateSaveMaps, Zenon
  <2>8. ASSUME NEW s \in Subjects, Worker(s) PROVE OrdersInv' /\ Orders!Next
    BY <2>8, CheckWantedMaps, ReadDirectoryMaps, BeforeRequestMaps, UnsentMaps, DeactivateMaps,
       DeactivateReturnsMaps, DeleteMaps, DeleteReturnsMaps, RecheckWantedMaps, SaveMaps, Zenon
       DEF Worker
  <2>9. ASSUME NEW a \in Addresses, AppleApplies(a) PROVE OrdersInv' /\ Orders!Next
    BY <2>9, ApplyStepMaps, Zenon
  <2> QED
    BY <1>1, <2>1, <2>2, <2>3, <2>4, <2>5, <2>6, <2>7, <2>8, <2>9, Zenon DEF Next
<1>2. ASSUME UNCHANGED vars
      PROVE  OrdersInv' /\ UNCHANGED Orders!vars
  <2>1. UNCHANGED <<work, job, pv, admitted, worker, late, remote, wire, local>>
    BY <1>2 DEF vars, db, runtime, apple
  <2> QED
    BY <2>1 DEF OrdersInv, Orders!vars, Cleared, Sending, Addr
<1> QED
  BY <1>1, <1>2

\* The durable queue implements DeletionOrders, whatever works, workers, claims, crashes and
\* late saves do in between.  Each request that changes an alias follows a check of its own,
\* in a transaction that found an order of a job that stands (beforeRequest,
\* deletionWorkWantedTx); what is revoked after that check is not seen by this one request,
\* and the orders it is sent for stay open until it has left or is given up.  All open orders
\* of an address are answered alike (publishDeletionWorkTx), with success only when the alias is
\* gone at Apple and forgotten here, and orders are withdrawn only when a job that names
\* their address was revoked (cancelDeletionJobTx, pruneDeletionSubscriptionsTx).
THEOREM QueueImplementsOrders == Spec => ImplementsOrders
<1>1. Init => OrdersInv /\ Orders!Init
  BY InitMaps
<1>2. IInv /\ OrdersInv /\ [Next]_vars => OrdersInv' /\ [Orders!Next]_Orders!vars
  BY StepMaps
<1> QED
  BY <1>1, <1>2, Invariance, PTL DEF Spec, ImplementsOrders, Orders!Spec
=============================================================================
