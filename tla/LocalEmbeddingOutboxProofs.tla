--------------------- MODULE LocalEmbeddingOutboxProofs ---------------------
(***************************************************************************)
(* Proofs about LocalEmbeddingOutbox, for every number of targets,         *)
(* workers, retries, batch sizes and jobs.                                 *)
(***************************************************************************)
EXTENDS LocalEmbeddingOutbox, WellFoundedInduction, TLAPS

Live == Active \cup {"dead_letter"}

\* Incarnations count deletions, whether or not a tombstone exists yet.
TombOK == \A t \in Targets : Incarnation(t) = life[t] + 1

\* A job belongs to a target with a tombstone row.  While it can be worked on
\* the target exists, was not deleted since, and an attempt is left.
JobOK ==
    \A j \in JobIds : jobs[j].status # "none" =>
        /\ jobs[j].target \in Targets
        /\ jobs[j].content \in Contents
        /\ jobs[j].incarnation = jobs[j].life + 1
        /\ tomb[jobs[j].target].incarnation # 0
        /\ jobs[j].status \in Active =>
              /\ parent[jobs[j].target] # None
              /\ jobs[j].life = life[jobs[j].target]
              /\ jobs[j].retries < MaxRetries

SameKey(i, j) ==
    /\ jobs[i].target = jobs[j].target
    /\ jobs[i].content = jobs[j].content
    /\ jobs[i].incarnation = jobs[j].incarnation

\* The queue holds one job of a key that is not over; a dead letter is not.
UniqueLive ==
    \A i, j \in JobIds :
        jobs[i].status \in Live /\ jobs[j].status \in Live /\ SameKey(i, j) => i = j

\* A row is of the present life; a ready one holds the vector of its content.
RowOK ==
    \A t \in Targets :
        /\ derived[t].state # "none" => derived[t].life = life[t]
        /\ derived[t].state = "ready" => derived[t].vector = derived[t].content

\* Each lease is paid for by a retry, except the one that is running.
CallsOK ==
    \A j \in JobIds :
        /\ jobs[j].status = "none" => calls[j] = 0
        /\ jobs[j].status \in {"queued", "failed"} => calls[j] <= jobs[j].retries
        /\ jobs[j].status = "processing" => calls[j] <= jobs[j].retries + 1
        /\ calls[j] <= MaxRetries

IInv == TypeOK /\ TombOK /\ JobOK /\ UniqueLive /\ RowOK /\ FailedHasDeadLetter /\ CallsOK

-----------------------------------------------------------------------------
(* The operators.                                                          *)

\* A set of jobs that is not empty has a last one.
LEMMA LastInSet ==
    ASSUME NEW S \in SUBSET JobIds, S # {}
    PROVE  Last(S) \in S
<1> DEFINE T == {MaxJobs - i : i \in S}
<1>1. T \subseteq Nat /\ T # {}
  <2>1. \A i \in S : MaxJobs - i \in Nat
    BY OutboxAssumption DEF JobIds
  <2>2. PICK i \in S : TRUE
    BY Zenon
  <2> QED
    BY <2>1, <2>2, Zenon
<1>2. PICK m \in T : \A n \in T : ~(<<n, m>> \in OpToRel(<, Nat))
  <2> HIDE DEF T
  <2> QED
    BY <1>1, NatLessThanWellFounded, WFMin, ZenonT(30)
<1>3. \A n \in T : ~(n < m)
    BY <1>1, <1>2, Zenon DEF OpToRel
<1>4. PICK j \in S : m = MaxJobs - j
    BY Zenon
<1>5. \A i \in S : i <= j
  <2> TAKE i \in S
  <2>1. ~(MaxJobs - i < MaxJobs - j)
    BY <1>3, <1>4, Zenon
  <2> QED
    BY <2>1, OutboxAssumption DEF JobIds
<1> QED
    BY <1>5, Zenon DEF Last

\* What each change of a job does to its columns.
LEMMA EndedJob ==
    ASSUME NEW job \in Job, NEW status \in Statuses
    PROVE  /\ Ended(job, status) \in Job
           /\ Ended(job, status).status = status
           /\ Ended(job, status).target = job.target
           /\ Ended(job, status).content = job.content
           /\ Ended(job, status).incarnation = job.incarnation
           /\ Ended(job, status).retries = job.retries
           /\ Ended(job, status).until = "null"
           /\ Ended(job, status).life = job.life
BY Zenon DEF Ended, Job

LEMMA DueJob ==
    ASSUME NEW job \in Job
    PROVE  /\ Due(job) \in Job
           /\ Due(job).status = job.status
           /\ Due(job).target = job.target
           /\ Due(job).content = job.content
           /\ Due(job).incarnation = job.incarnation
           /\ Due(job).retries = job.retries
           /\ Due(job).until = "past"
           /\ Due(job).life = job.life
BY Zenon DEF Due, Job

LEMMA RequeuedJob ==
    ASSUME NEW job \in Job
    PROVE  /\ Requeued(job) \in Job
           /\ Requeued(job).status = "queued"
           /\ Requeued(job).target = job.target
           /\ Requeued(job).content = job.content
           /\ Requeued(job).incarnation = job.incarnation
           /\ Requeued(job).retries = 0
           /\ Requeued(job).until = job.until
           /\ Requeued(job).life = job.life
<1>1. 0 \in 0..MaxRetries /\ "queued" \in Statuses
    BY OutboxAssumption DEF Statuses, Active
<1> QED
    BY <1>1, Zenon DEF Requeued, Job

LEMMA LeasedJob ==
    ASSUME NEW job \in Job, Spent(job) <= MaxRetries
    PROVE  /\ Leased(job) \in Job
           /\ Leased(job).status = "processing"
           /\ Leased(job).target = job.target
           /\ Leased(job).content = job.content
           /\ Leased(job).incarnation = job.incarnation
           /\ Leased(job).retries = Spent(job)
           /\ Leased(job).until = "future"
           /\ Leased(job).life = job.life
<1>1. Spent(job) \in 0..MaxRetries
    BY OutboxAssumption DEF Spent, Job
<1>2. "processing" \in Statuses /\ job.token + 1 \in Nat
    BY DEF Statuses, Active, Job
<1> HIDE DEF Spent
<1> QED
    BY <1>1, <1>2, Zenon DEF Leased, Job

LEMMA GivenUpJob ==
    ASSUME NEW job \in Job, job.retries < MaxRetries
    PROVE  /\ GivenUp(job) \in Job
           /\ GivenUp(job).status = "dead_letter"
           /\ GivenUp(job).target = job.target
           /\ GivenUp(job).content = job.content
           /\ GivenUp(job).incarnation = job.incarnation
           /\ GivenUp(job).until = "null"
           /\ GivenUp(job).life = job.life
<1>1. job.retries + 1 \in 0..MaxRetries
    BY OutboxAssumption DEF Job
<1> QED
    BY <1>1, Zenon DEF GivenUp, Ended, Job, Statuses

LEMMA FailedJob ==
    ASSUME NEW job \in Job, NEW failure \in Failures, job.retries < MaxRetries
    PROVE  /\ Failed(job, failure) \in Job
           /\ Failed(job, failure).status = IF Exhausted(job, failure) THEN "dead_letter" ELSE "failed"
           /\ Failed(job, failure).target = job.target
           /\ Failed(job, failure).content = job.content
           /\ Failed(job, failure).incarnation = job.incarnation
           /\ Failed(job, failure).retries = job.retries + 1
           /\ Failed(job, failure).until = IF Exhausted(job, failure) THEN "null" ELSE "future"
           /\ Failed(job, failure).life = job.life
<1>1. job.retries + 1 \in 0..MaxRetries
    BY OutboxAssumption DEF Job
<1>2. CASE Exhausted(job, failure)
    BY <1>1, <1>2, Zenon DEF Failed, Ended, Job, Statuses
<1>3. CASE ~Exhausted(job, failure)
    BY <1>1, <1>3, Zenon DEF Failed, Job, Statuses, Active
<1> QED
    BY <1>2, <1>3, Zenon

-----------------------------------------------------------------------------
\* The initial tables satisfy the invariant.
LEMMA InitIInv == Init => IInv
<1> SUFFICES ASSUME Init PROVE IInv
    BY Zenon
<1> USE OutboxAssumption DEF Init, NoJob, NoRow, Active
<1>1. TypeOK
    BY DEF TypeOK, Row, Job, Statuses
<1>2. TombOK
    BY DEF TombOK, Incarnation
<1>3. JobOK /\ UniqueLive
    BY Zenon DEF JobOK, UniqueLive, Live
<1>4. RowOK /\ FailedHasDeadLetter
    BY Zenon DEF RowOK, FailedHasDeadLetter
<1>5. CallsOK
    BY DEF CallsOK
<1> QED
    BY <1>1, <1>2, <1>3, <1>4, <1>5, Zenon DEF IInv

\* What a step that leaves the queue, the tables and the counts alone keeps.
LEMMA QuietStep ==
    ASSUME IInv, TypeOK', UNCHANGED <<parent, derived, tomb, jobs, life, calls>>
    PROVE  IInv'
BY DEF IInv, TombOK, Incarnation, JobOK, UniqueLive, SameKey, RowOK, FailedHasDeadLetter, Of, CallsOK

\* The cutover, the scan of the backfill, a late answer and a crash.
LEMMA CutoverIInv == IInv /\ Cutover => IInv'
<1> SUFFICES ASSUME IInv, Cutover PROVE IInv'
    BY Zenon
<1>1. TypeOK'
    BY Zenon DEF IInv, TypeOK, Cutover
<1> QED
    BY <1>1, QuietStep, Zenon DEF Cutover

LEMMA ScanIInv == IInv /\ Scan => IInv'
<1> SUFFICES ASSUME IInv, Scan PROVE IInv'
    BY Zenon
<1>1. TypeOK'
    BY DEF IInv, TypeOK, Scan, Missing
<1> QED
    BY <1>1, QuietStep, Zenon DEF Scan

LEMMA LateIInv ==
    ASSUME NEW w \in Workers, NEW lease \in leases[w], IInv, Late(w, lease)
    PROVE  IInv'
<1>1. TypeOK'
    BY Zenon DEF IInv, TypeOK, Late, Drop
<1> QED
    BY <1>1, QuietStep, Zenon DEF Late

LEMMA CrashIInv ==
    ASSUME NEW w \in Workers, IInv, Crash(w)
    PROVE  IInv'
<1>1. TypeOK'
    BY Zenon DEF IInv, TypeOK, Crash
<1> QED
    BY <1>1, QuietStep, Zenon DEF Crash

\* The end of a lease or of a pause changes nothing the invariant speaks of.
LEMMA TimerEndsIInv ==
    ASSUME NEW j \in JobIds, IInv, TimerEnds(j)
    PROVE  IInv'
<1> USE DEF IInv, TimerEnds
<1>1. /\ jobs' \in [JobIds -> Job]
      /\ \A i \in JobIds : /\ jobs'[i].status = jobs[i].status
                           /\ jobs'[i].target = jobs[i].target
                           /\ jobs'[i].content = jobs[i].content
                           /\ jobs'[i].incarnation = jobs[i].incarnation
                           /\ jobs'[i].retries = jobs[i].retries
                           /\ jobs'[i].life = jobs[i].life
      /\ \A i \in JobIds : i # j => jobs'[i] = jobs[i]
      /\ jobs'[j].until = "past"
    BY DueJob DEF TypeOK
<1>2. TypeOK'
    BY <1>1 DEF TypeOK, NoJob
<1>3. TombOK' /\ JobOK' /\ UniqueLive' /\ RowOK' /\ CallsOK'
    BY <1>1 DEF TombOK, Incarnation, JobOK, UniqueLive, SameKey, RowOK, CallsOK
<1>4. FailedHasDeadLetter'
    BY <1>1 DEF FailedHasDeadLetter, Of
<1> QED
    BY <1>2, <1>3, <1>4, Zenon

\* What an update of the queue may do to a job: it keeps its key, and it stays
\* well formed.
KeepsKey(j) ==
    /\ jobs'[j].target = jobs[j].target
    /\ jobs'[j].content = jobs[j].content
    /\ jobs'[j].incarnation = jobs[j].incarnation
    /\ jobs'[j].life = jobs[j].life

WellFormed(job) ==
    /\ job \in Job
    /\ (job.status = "none") <=> (job = NoJob)
    /\ (job.until # "null") <=> (job.status \in {"processing", "failed"})

LEMMA JobsWellFormed == TypeOK => \A j \in JobIds : WellFormed(jobs[j])
BY Zenon DEF TypeOK, WellFormed

LEMMA EndedWellFormed ==
    ASSUME NEW job \in Job,
           NEW status \in {"cancelled", "cas_skipped", "completed", "dead_letter"}
    PROVE  WellFormed(Ended(job, status))
<1>1. status \in Statuses /\ NoJob.status = "none"
    BY Zenon DEF Statuses, NoJob
<1> QED
    BY <1>1, EndedJob, Zenon DEF WellFormed

\* Deleting a target starts its next life without a row and without jobs.
LEMMA DeleteIInv ==
    ASSUME NEW t \in Targets, IInv, Delete(t)
    PROVE  IInv'
<1> USE DEF IInv
<1>1. \A j \in JobIds : jobs'[j] = IF Of(j, t, Active) THEN Ended(jobs[j], "cancelled") ELSE jobs[j]
    BY Zenon DEF Delete
<1>2. \A j \in JobIds : jobs[j] \in Job
    BY Zenon DEF TypeOK
<1>3. \A j \in JobIds : /\ KeepsKey(j)
                        /\ WellFormed(jobs'[j])
                        /\ jobs'[j].retries = jobs[j].retries
                        /\ jobs'[j].status = IF Of(j, t, Active) THEN "cancelled" ELSE jobs[j].status
    BY <1>1, <1>2, JobsWellFormed, EndedJob, EndedWellFormed DEF KeepsKey, Statuses
<1>4. TypeOK'
  <2>1. jobs' \in [JobIds -> Job]
    BY <1>3, Zenon DEF Delete, WellFormed
  <2>2. NoRow \in Row
    BY Zenon DEF NoRow, Row
  <2>3. [incarnation |-> Incarnation(t) + 1, deleted |-> TRUE] \in [incarnation : Nat, deleted : BOOLEAN]
    BY DEF TypeOK, Incarnation
  <2>4. writes' \in 0..MaxWrites
    BY OutboxAssumption DEF Delete, Write, TypeOK
  <2> QED
    BY <1>3, <2>1, <2>2, <2>3, <2>4 DEF Delete, TypeOK, WellFormed
<1>5. TombOK'
    BY OutboxAssumption DEF TombOK, Incarnation, Delete, TypeOK
<1>6. JobOK'
    BY <1>3 DEF JobOK, Delete, KeepsKey, Of, Active, Incarnation, TypeOK
<1>7. UniqueLive'
    BY <1>3 DEF UniqueLive, SameKey, KeepsKey, Live, Active
<1>8. RowOK'
    BY Zenon DEF RowOK, Delete, NoRow, TypeOK
<1>9. FailedHasDeadLetter'
    BY <1>3 DEF FailedHasDeadLetter, Delete, NoRow, TypeOK, Of, KeepsKey, Active
<1>10. CallsOK'
    BY <1>3, Zenon DEF CallsOK, Delete, Active
<1> QED
    BY <1>4, <1>5, <1>6, <1>7, <1>8, <1>9, <1>10, Zenon

\* The job that an enqueue inserts.
LEMMA NewJobFields ==
    ASSUME TypeOK, NEW t \in Targets, NEW c \in Contents
    PROVE  /\ WellFormed(NewJob(t, c))
           /\ NewJob(t, c).status = "queued"
           /\ NewJob(t, c).target = t
           /\ NewJob(t, c).content = c
           /\ NewJob(t, c).incarnation = Incarnation(t)
           /\ NewJob(t, c).retries = 0
           /\ NewJob(t, c).life = life[t]
<1>1. /\ 0 \in 0..MaxRetries /\ Incarnation(t) \in Nat /\ life[t] \in Nat
      /\ "queued" \in Statuses /\ "none" \in Failures \cup {"none", "expired"}
    BY OutboxAssumption DEF TypeOK, Incarnation, Statuses, Active
<1> HIDE DEF Incarnation
<1>2. NoJob \in Job
    BY <1>1, OutboxAssumption, Zenon DEF NoJob, Job, Statuses
<1>3. /\ NewJob(t, c) \in Job
      /\ NewJob(t, c).status = "queued"
      /\ NewJob(t, c).target = t
      /\ NewJob(t, c).content = c
      /\ NewJob(t, c).incarnation = Incarnation(t)
      /\ NewJob(t, c).retries = NoJob.retries
      /\ NewJob(t, c).until = NoJob.until
      /\ NewJob(t, c).life = life[t]
    BY <1>1, <1>2, Zenon DEF NewJob, Job
<1>4. NoJob.status = "none" /\ NoJob.retries = 0 /\ NoJob.until = "null"
    BY Zenon DEF NoJob
<1> QED
    BY <1>3, <1>4, Zenon DEF WellFormed

\* Enqueueing keeps one job for the content the target has now, whatever was
\* in the queue before: jobs of its other contents are cancelled, and a job or
\* a dead letter of the same key is used again.
LEMMA EnqueueKeeps ==
    ASSUME NEW t \in Targets, NEW c \in Contents, IInv, Enqueue(t, c),
           parent'[t] = c, \A u \in Targets : u # t => parent'[u] = parent[u],
           UNCHANGED <<life, calls>>
    PROVE  /\ jobs' \in [JobIds -> Job] /\ \A j \in JobIds : WellFormed(jobs'[j])
           /\ derived' \in [Targets -> Row]
           /\ tomb' \in [Targets -> [incarnation : Nat, deleted : BOOLEAN]]
           /\ TombOK' /\ JobOK' /\ UniqueLive' /\ RowOK' /\ FailedHasDeadLetter' /\ CallsOK'
<1> USE DEF IInv
<1> DEFINE Other(j) == Of(j, t, Active) /\ jobs[j].content # c
           jobs1 == [j \in JobIds |-> IF Other(j) THEN Ended(jobs[j], "cancelled") ELSE jobs[j]]
           existing == {j \in JobIds : /\ Of(j, t, Active \cup {"dead_letter"})
                                       /\ jobs[j].content = c
                                       /\ jobs[j].incarnation = Incarnation(t)}
           new == {j \in JobIds : jobs'[j] # jobs1[j]}
<1>1. \A j \in JobIds : jobs[j] \in Job
    BY Zenon DEF TypeOK
<1>2. \A j \in JobIds : /\ WellFormed(jobs1[j])
                        /\ jobs1[j].target = jobs[j].target
                        /\ jobs1[j].content = jobs[j].content
                        /\ jobs1[j].incarnation = jobs[j].incarnation
                        /\ jobs1[j].life = jobs[j].life
                        /\ jobs1[j].retries = jobs[j].retries
                        /\ jobs1[j].status = IF Other(j) THEN "cancelled" ELSE jobs[j].status
  <2> TAKE j \in JobIds
  <2>1. CASE Other(j)
    <3>1. jobs1[j] = Ended(jobs[j], "cancelled")
      BY <2>1, Zenon
    <3>2. jobs[j] \in Job /\ "cancelled" \in Statuses
      BY <1>1, Zenon DEF Statuses
    <3> HIDE DEF jobs1
    <3> HIDE DEF Other
    <3> QED
      BY <2>1, <3>1, <3>2, EndedJob, EndedWellFormed
  <2>2. CASE ~Other(j)
    <3>1. jobs1[j] = jobs[j] /\ WellFormed(jobs[j])
      BY <2>2, JobsWellFormed, Zenon
    <3> HIDE DEF jobs1
    <3> HIDE DEF Other
    <3> QED
      BY <2>2, <3>1, Zenon
  <2> QED
    BY <2>1, <2>2, Zenon
<1>3. \/ jobs' = jobs1
      \/ /\ existing = {}
         /\ \E n \in JobIds : jobs[n].status = "none" /\ jobs' = [jobs1 EXCEPT ![n] = NewJob(t, c)]
    BY Zenon DEF Enqueue, Unused
<1> HIDE DEF jobs1
<1>4. \A j \in new : /\ existing = {} /\ new = {j}
                     /\ jobs[j].status = "none" /\ jobs'[j] = NewJob(t, c)
  <2>1. DOMAIN jobs1 = JobIds
    BY Zenon DEF jobs1
  <2> SUFFICES ASSUME NEW j \in new
               PROVE  /\ existing = {} /\ new = {j}
                      /\ jobs[j].status = "none" /\ jobs'[j] = NewJob(t, c)
    BY Zenon
  <2>2. /\ existing = {}
        /\ \E n \in JobIds : jobs[n].status = "none" /\ jobs' = [jobs1 EXCEPT ![n] = NewJob(t, c)]
    BY <1>3, Zenon
  <2> HIDE DEF existing
  <2>3. PICK n \in JobIds : jobs[n].status = "none" /\ jobs' = [jobs1 EXCEPT ![n] = NewJob(t, c)]
    BY <2>2, Zenon
  <2>4. jobs'[n] = NewJob(t, c) /\ \A i \in JobIds : i # n => jobs'[i] = jobs1[i]
    BY <2>1, <2>3, Zenon
  <2>5. j = n
    BY <2>4, Zenon
  <2>6. new = {j}
    BY <2>4, <2>5, Zenon
  <2> QED
    BY <2>2, <2>3, <2>4, <2>5, <2>6, Zenon
<1>5. \A j \in JobIds \ new : /\ KeepsKey(j) /\ WellFormed(jobs'[j])
                              /\ jobs'[j].retries = jobs[j].retries
                              /\ jobs'[j].status = IF Other(j) THEN "cancelled" ELSE jobs[j].status
    BY <1>2 DEF KeepsKey
<1>6. \A j \in new : /\ WellFormed(jobs'[j])
                     /\ jobs'[j].status = "queued" /\ jobs'[j].retries = 0
                     /\ jobs'[j].target = t /\ jobs'[j].content = c
                     /\ jobs'[j].incarnation = Incarnation(t) /\ jobs'[j].life = life[t]
    BY <1>4, NewJobFields
<1>7. new \subseteq JobIds /\ DOMAIN jobs' = JobIds /\ jobs' = [j \in JobIds |-> jobs'[j]]
    BY <1>3, Zenon DEF jobs1
<1> HIDE DEF new, existing
<1>8. jobs' \in [JobIds -> Job] /\ \A j \in JobIds : WellFormed(jobs'[j])
    BY <1>5, <1>6, <1>7 DEF WellFormed
<1>9. Incarnation(t) = life[t] + 1 /\ life[t] \in Nat
    BY Zenon DEF TombOK, TypeOK
<1>10. tomb' = [tomb EXCEPT ![t] = [incarnation |-> Incarnation(t), deleted |-> FALSE]]
    BY Zenon DEF Enqueue
<1>11. derived' = [derived EXCEPT ![t] = RowEnqueued(derived[t], c, life[t])]
    BY Zenon DEF Enqueue
<1>12. tomb' \in [Targets -> [incarnation : Nat, deleted : BOOLEAN]] /\ TombOK'
    BY <1>9, <1>10, Zenon DEF TypeOK, TombOK, Incarnation
<1>13. /\ derived' \in [Targets -> Row]
       /\ RowOK'
    BY <1>9, <1>11, Zenon DEF TypeOK, RowEnqueued, Row, RowOK
<1>14. JobOK'
  <2>1. /\ tomb'[t].incarnation # 0
        /\ \A u \in Targets : u # t => tomb'[u] = tomb[u]
    BY <1>9, <1>10 DEF TypeOK
  <2>2. \A u \in Targets : /\ tomb[u].incarnation # 0 => tomb'[u].incarnation # 0
                           /\ parent[u] # None => parent'[u] # None
    BY <2>1, OutboxAssumption
  <2>3. 0 < MaxRetries /\ parent'[t] # None
    BY OutboxAssumption
  <2> SUFFICES ASSUME NEW j \in JobIds, jobs'[j].status # "none"
               PROVE  /\ jobs'[j].target \in Targets
                      /\ jobs'[j].content \in Contents
                      /\ jobs'[j].incarnation = jobs'[j].life + 1
                      /\ tomb'[jobs'[j].target].incarnation # 0
                      /\ jobs'[j].status \in Active =>
                            /\ parent'[jobs'[j].target] # None
                            /\ jobs'[j].life = life[jobs'[j].target]
                            /\ jobs'[j].retries < MaxRetries
    BY Zenon DEF JobOK
  <2>4. CASE j \in new
    BY <1>6, <1>9, <2>1, <2>3, <2>4, Zenon
  <2>5. CASE j \notin new
    <3>1. jobs[j].status # "none" /\ (jobs'[j].status \in Active => jobs[j].status \in Active)
      BY <1>5, <2>5, Zenon DEF Of, Active
    <3>2. /\ jobs'[j].target = jobs[j].target /\ jobs'[j].content = jobs[j].content
          /\ jobs'[j].incarnation = jobs[j].incarnation /\ jobs'[j].life = jobs[j].life
          /\ jobs'[j].retries = jobs[j].retries
      BY <1>5, <2>5, Zenon DEF KeepsKey
    <3>3. /\ jobs[j].target \in Targets /\ jobs[j].content \in Contents
          /\ jobs[j].incarnation = jobs[j].life + 1
          /\ tomb[jobs[j].target].incarnation # 0
          /\ jobs[j].status \in Active =>
                /\ parent[jobs[j].target] # None
                /\ jobs[j].life = life[jobs[j].target]
                /\ jobs[j].retries < MaxRetries
      BY <3>1, Zenon DEF JobOK
    <3>4. /\ tomb'[jobs[j].target].incarnation # 0
          /\ parent[jobs[j].target] # None => parent'[jobs[j].target] # None
      BY <2>2, <3>3, Zenon
    <3>5. /\ jobs'[j].target \in Targets /\ jobs'[j].content \in Contents
          /\ jobs'[j].incarnation = jobs'[j].life + 1
          /\ tomb'[jobs'[j].target].incarnation # 0
      BY <3>2, <3>3, <3>4
    <3>6. ASSUME jobs'[j].status \in Active
          PROVE  /\ parent'[jobs'[j].target] # None
                 /\ jobs'[j].life = life[jobs'[j].target]
                 /\ jobs'[j].retries < MaxRetries
      BY <3>1, <3>2, <3>3, <3>4, <3>6
    <3> QED
      BY <3>5, <3>6, Zenon
  <2> QED
    BY <2>4, <2>5, Zenon
<1>15. UniqueLive'
  <2> SUFFICES ASSUME NEW i \in JobIds, NEW j \in JobIds, jobs'[i].status \in Live,
                      jobs'[j].status \in Live, SameKey(i, j)', i # j
               PROVE  FALSE
    BY Zenon DEF UniqueLive
  <2>1. \A k \in JobIds \ new : jobs'[k].status \in Live => jobs[k].status \in Live
    BY <1>5, Zenon DEF Live, Active
  <2>2. CASE i \notin new /\ j \notin new
    BY <1>5, <2>1, <2>2 DEF UniqueLive, SameKey, KeepsKey
  <2>3. \A n \in new, k \in JobIds \ new : ~(jobs'[k].status \in Live /\ SameKey(n, k)')
    BY <1>4, <1>5, <1>6, <2>1 DEF existing, Of, SameKey, KeepsKey, Live
  <2>4. SameKey(j, i)'
    BY Zenon DEF SameKey
  <2>5. ~(i \in new /\ j \in new)
    BY <1>4, Zenon
  <2> QED
    BY <2>2, <2>3, <2>4, <2>5, Zenon
<1>16. FailedHasDeadLetter'
  <2> SUFFICES ASSUME NEW u \in Targets, derived'[u].state = "failed"
               PROVE  \E j \in JobIds : /\ Of(j, u, {"dead_letter"})'
                                        /\ jobs'[j].content = derived'[u].content
                                        /\ jobs'[j].life = life'[u]
    BY Zenon DEF FailedHasDeadLetter
  <2>1. derived'[u] = derived[u]
    BY <1>11, Zenon DEF RowEnqueued, TypeOK
  <2>2. PICK j \in JobIds : /\ Of(j, u, {"dead_letter"})
                            /\ jobs[j].content = derived[u].content
                            /\ jobs[j].life = life[u]
    BY <2>1, Zenon DEF FailedHasDeadLetter
  <2>3. j \notin new /\ ~Other(j)
    BY <1>4, <2>2, Zenon DEF Of, Active
  <2> QED
    BY <1>5, <2>1, <2>2, <2>3 DEF Of, KeepsKey
<1>17. CallsOK'
    BY <1>4, <1>5, <1>6, <1>7 DEF CallsOK, Active, Of
<1> QED
    BY <1>8, <1>12, <1>13, <1>14, <1>15, <1>16, <1>17, Zenon

\* A write of a target, under either profile.
LEMMA UpsertIInv ==
    ASSUME NEW t \in Targets, NEW c \in Contents, IInv, Upsert(t, c)
    PROVE  IInv'
<1> USE DEF IInv
<1>1. /\ parent' \in [Targets -> Contents \cup {None}] /\ parent'[t] = c
      /\ \A u \in Targets : u # t => parent'[u] = parent[u]
      /\ writes' \in 0..MaxWrites
      /\ UNCHANGED <<profile, leases, scanned, life, calls, requeues>>
    BY OutboxAssumption DEF Upsert, Write, TypeOK
<1>2. CASE Enqueue(t, c)
  <2>1. TypeOK'
    BY <1>1, <1>2, EnqueueKeeps, Zenon DEF TypeOK, WellFormed
  <2> QED
    BY <1>1, <1>2, <2>1, EnqueueKeeps, Zenon
<1>3. CASE UNCHANGED <<derived, tomb, jobs>>
  <2>1. TypeOK'
    BY <1>1, <1>3, Zenon DEF TypeOK
  <2>2. JobOK'
    BY <1>1, <1>3, OutboxAssumption DEF JobOK, TypeOK
  <2>3. TombOK' /\ UniqueLive' /\ RowOK' /\ FailedHasDeadLetter' /\ CallsOK'
    BY <1>1, <1>3, Zenon DEF TombOK, Incarnation, UniqueLive, SameKey, RowOK, FailedHasDeadLetter, Of, CallsOK
  <2> QED
    BY <2>1, <2>2, <2>3, Zenon
<1> QED
    BY <1>2, <1>3, Zenon DEF Upsert

\* The backfill enqueues only what still is as it read it.
LEMMA EnqueueScannedIInv ==
    ASSUME NEW m \in scanned, IInv, EnqueueScanned(m)
    PROVE  IInv'
<1> USE DEF IInv
<1>1. m.target \in Targets /\ m.content \in Contents
    BY Zenon DEF TypeOK
<1>2. /\ scanned' \subseteq [target : Targets, content : Contents]
      /\ UNCHANGED <<profile, parent, leases, life, calls, writes, requeues>>
    BY Zenon DEF EnqueueScanned, TypeOK
<1>3. CASE parent[m.target] = m.content /\ Enqueue(m.target, m.content)
  <2>1. parent'[m.target] = m.content /\ \A u \in Targets : u # m.target => parent'[u] = parent[u]
    BY <1>2, <1>3, Zenon
  <2>2. TypeOK'
    BY <1>1, <1>2, <1>3, <2>1, EnqueueKeeps DEF TypeOK, WellFormed
  <2> QED
    BY <1>1, <1>2, <1>3, <2>1, <2>2, EnqueueKeeps, Zenon
<1>4. CASE UNCHANGED <<derived, tomb, jobs>>
  <2>1. TypeOK'
    BY <1>2, <1>4 DEF TypeOK
  <2> QED
    BY <1>2, <1>4, <2>1, QuietStep, Zenon
<1> QED
    BY <1>3, <1>4, Zenon DEF EnqueueScanned

\* Requeued dead letters belong to the present life of a target that exists;
\* the rows they had failed are pending again.
LEMMA RequeueIInv ==
    ASSUME NEW targets \in SUBSET Targets, IInv, Requeue(targets)
    PROVE  IInv'
<1> USE DEF IInv
<1> DEFINE chosen == {j \in JobIds : jobs[j].target \in targets /\ Requeueable(j)}
<1>1. /\ \A j \in JobIds : jobs'[j] = IF j \in chosen THEN Requeued(jobs[j]) ELSE jobs[j]
      /\ \A j \in JobIds : calls'[j] = IF j \in chosen THEN 0 ELSE calls[j]
      /\ DOMAIN jobs' = JobIds /\ jobs' = [j \in JobIds |-> jobs'[j]]
      /\ calls' = [j \in JobIds |-> calls'[j]]
      /\ UNCHANGED <<profile, parent, tomb, leases, scanned, life, writes>>
      /\ requeues' \in 0..MaxRequeues
    BY OutboxAssumption DEF Requeue, TypeOK
<1>2. derived' = [t \in Targets |->
                    IF derived[t].state = "failed"
                       /\ \E j \in chosen : jobs[j].target = t /\ jobs[j].content = derived[t].content
                      THEN RowRequeued(derived[t]) ELSE derived[t]]
    BY Zenon DEF Requeue
<1>3. \A j \in chosen : /\ j \in JobIds /\ jobs[j].status = "dead_letter"
                        /\ parent[jobs[j].target] = jobs[j].content
                        /\ ~Retired(j)
    BY Zenon DEF Requeueable
<1>4. \A i \in JobIds, j \in chosen : jobs[i].status \in Live /\ SameKey(i, j) => i = j
    BY <1>3, Zenon DEF UniqueLive, Live
<1> HIDE DEF chosen
<1>5. \A j \in JobIds : jobs[j] \in Job
    BY Zenon DEF TypeOK
<1>6. \A j \in JobIds : /\ KeepsKey(j)
                        /\ jobs'[j].status = IF j \in chosen THEN "queued" ELSE jobs[j].status
                        /\ jobs'[j].retries = IF j \in chosen THEN 0 ELSE jobs[j].retries
                        /\ WellFormed(jobs'[j])
  <2> TAKE j \in JobIds
  <2>1. CASE j \in chosen
    <3>1. jobs[j].until = "null"
      BY <1>3, <2>1, JobsWellFormed, Zenon DEF WellFormed
    <3>2. NoJob.status = "none"
      BY Zenon DEF NoJob
    <3> QED
      BY <1>1, <1>5, <2>1, <3>1, <3>2, RequeuedJob DEF KeepsKey, WellFormed
  <2>2. CASE j \notin chosen
    BY <1>1, <2>2, JobsWellFormed, Zenon DEF KeepsKey
  <2> QED
    BY <2>1, <2>2, Zenon
<1>7. TypeOK'
  <2>1. \A row \in Row : RowRequeued(row) \in Row
    BY Zenon DEF RowRequeued, Row
  <2>2. derived' \in [Targets -> Row]
    BY <1>2, <2>1, Zenon DEF TypeOK
  <2>3. jobs' \in [JobIds -> Job] /\ calls' \in [JobIds -> Nat]
    BY <1>1, <1>6 DEF TypeOK, WellFormed
  <2> QED
    BY <1>1, <1>6, <2>2, <2>3 DEF TypeOK, WellFormed
<1>8. TombOK'
    BY <1>1, Zenon DEF TombOK, Incarnation
<1>9. JobOK'
  <2>1. \A j \in chosen : jobs[j].life = life[jobs[j].target] /\ parent[jobs[j].target] # None
    <3> TAKE j \in chosen
    <3>1. /\ jobs[j].target \in Targets /\ jobs[j].content \in Contents
          /\ jobs[j].incarnation = jobs[j].life + 1 /\ tomb[jobs[j].target].incarnation # 0
      BY <1>3, Zenon DEF JobOK
    <3>2. jobs[j].incarnation = tomb[jobs[j].target].incarnation
      BY <1>3, <3>1, Zenon DEF Retired
    <3>3. tomb[jobs[j].target].incarnation = life[jobs[j].target] + 1
      BY <3>1, Zenon DEF TombOK, Incarnation
    <3>4. jobs[j].life \in Nat /\ life[jobs[j].target] \in Nat
      BY <1>3, <1>5, <3>1, Zenon DEF TypeOK, Job
    <3> QED
      BY <1>3, <3>1, <3>2, <3>3, <3>4, OutboxAssumption
  <2> QED
    BY <1>1, <1>3, <1>6, <2>1, OutboxAssumption DEF JobOK, KeepsKey, Active
<1>10. UniqueLive'
    BY <1>3, <1>6 DEF UniqueLive, SameKey, KeepsKey, Live, Active
<1>11. RowOK'
    BY <1>1, <1>2 DEF RowOK, RowRequeued, TypeOK, Row
<1>12. FailedHasDeadLetter'
  <2> SUFFICES ASSUME NEW u \in Targets, derived'[u].state = "failed"
               PROVE  \E j \in JobIds : /\ Of(j, u, {"dead_letter"})'
                                        /\ jobs'[j].content = derived'[u].content
                                        /\ jobs'[j].life = life'[u]
    BY Zenon DEF FailedHasDeadLetter
  <2>0. RowRequeued(derived[u]).state = "pending"
    BY DEF RowRequeued, TypeOK, Row
  <2>1. /\ derived'[u] = derived[u]
        /\ \A j \in chosen : ~(jobs[j].target = u /\ jobs[j].content = derived[u].content)
    BY <1>2, <2>0, Zenon
  <2>2. PICK j \in JobIds : /\ Of(j, u, {"dead_letter"})
                            /\ jobs[j].content = derived[u].content
                            /\ jobs[j].life = life[u]
    BY <2>1, Zenon DEF FailedHasDeadLetter
  <2> QED
    BY <1>1, <1>6, <2>1, <2>2 DEF Of, KeepsKey
<1>13. CallsOK'
    BY <1>1, <1>6, OutboxAssumption DEF CallsOK
<1> QED
    BY <1>7, <1>8, <1>9, <1>10, <1>11, <1>12, <1>13, Zenon

\* What holds of the queue after a worker's step: no job comes to life, and
\* one that can still be worked on has an attempt left.
LEMMA WorkerStep ==
    ASSUME IInv, UNCHANGED <<parent, tomb, life>>,
           jobs' = [j \in JobIds |-> jobs'[j]],
           \A j \in JobIds :
              /\ KeepsKey(j) /\ WellFormed(jobs'[j])
              /\ jobs[j].status = "none" => jobs'[j].status = "none"
              /\ jobs'[j].status \in Live => jobs[j].status \in Live
              /\ jobs'[j].status \in Active => jobs[j].status \in Active /\ jobs'[j].retries < MaxRetries
    PROVE  /\ jobs' \in [JobIds -> Job]
           /\ \A j \in JobIds : (jobs'[j].status = "none") <=> (jobs'[j] = NoJob)
           /\ \A j \in JobIds : (jobs'[j].until # "null") <=> (jobs'[j].status \in {"processing", "failed"})
           /\ TombOK' /\ JobOK' /\ UniqueLive'
<1> USE DEF IInv
<1>1. jobs' \in [JobIds -> Job]
    BY Zenon DEF WellFormed
<1>2. TombOK'
    BY Zenon DEF TombOK, Incarnation
<1>3. JobOK'
    BY DEF JobOK, KeepsKey
<1>4. UniqueLive'
    BY DEF UniqueLive, SameKey, KeepsKey
<1> QED
    BY <1>1, <1>2, <1>3, <1>4, Zenon DEF WellFormed

\* Jobs that are leased keep the leases of a worker well typed.
LEMMA DropTyped ==
    ASSUME NEW w \in Workers, NEW lease \in leases[w], TypeOK, Drop(w, lease)
    PROVE  leases' \in [Workers -> SUBSET [job : JobIds, token : Nat]] /\ lease.job \in JobIds
BY DEF TypeOK, Drop

\* A completion writes the row of the life that the job belongs to, or none.
LEMMA CompleteIInv ==
    ASSUME NEW w \in Workers, NEW lease \in leases[w], IInv, Complete(w, lease)
    PROVE  IInv'
<1> USE DEF IInv
<1> DEFINE k == lease.job
           st == CompletedStatus(k)
<1>1. k \in JobIds /\ leases' \in [Workers -> SUBSET [job : JobIds, token : Nat]]
    BY DropTyped, Zenon DEF Complete
<1>2. st \in {"cancelled", "cas_skipped", "completed"}
    BY Zenon DEF CompletedStatus
<1>3. /\ jobs' = [jobs EXCEPT ![k] = Ended(jobs[k], st)]
      /\ derived' = IF st = "completed"
                      THEN [derived EXCEPT ![jobs[k].target] = ReadyRow(jobs[k])] ELSE derived
      /\ jobs[k].status = "processing"
      /\ UNCHANGED <<profile, parent, tomb, scanned, life, calls, writes, requeues>>
    BY Zenon DEF Complete, Owns
<1> HIDE DEF st
<1> HIDE DEF k
<1>4. /\ jobs[k] \in Job /\ jobs[k].target \in Targets /\ jobs[k].content \in Contents
      /\ jobs[k].life = life[jobs[k].target]
    BY <1>1, <1>3, Zenon DEF TypeOK, JobOK, Active
<1>5. \A j \in JobIds : jobs'[j] = IF j = k THEN Ended(jobs[k], st) ELSE jobs[j]
    BY <1>1, <1>3, Zenon DEF TypeOK
<1>6. \A j \in JobIds : /\ KeepsKey(j) /\ WellFormed(jobs'[j])
                        /\ jobs'[j].status = IF j = k THEN st ELSE jobs[j].status
                        /\ jobs'[j].retries = jobs[j].retries
  <2>1. st \in Statuses
    BY <1>2, Zenon DEF Statuses
  <2> QED
    BY <1>2, <1>4, <1>5, <2>1, JobsWellFormed, EndedJob, EndedWellFormed DEF KeepsKey
<1>7. /\ jobs' \in [JobIds -> Job]
      /\ \A j \in JobIds : (jobs'[j].status = "none") <=> (jobs'[j] = NoJob)
      /\ \A j \in JobIds : (jobs'[j].until # "null") <=> (jobs'[j].status \in {"processing", "failed"})
      /\ TombOK' /\ JobOK' /\ UniqueLive'
  <2>1. jobs' = [j \in JobIds |-> jobs'[j]]
    BY <1>3, Zenon DEF TypeOK
  <2>2. \A j \in JobIds :
              /\ jobs[j].status = "none" => jobs'[j].status = "none"
              /\ jobs'[j].status \in Live => jobs[j].status \in Live
              /\ jobs'[j].status \in Active => jobs[j].status \in Active /\ jobs'[j].retries < MaxRetries
    BY <1>2, <1>3, <1>6 DEF JobOK, Live, Active
  <2> QED
    BY <1>3, <1>6, <2>1, <2>2, WorkerStep, Zenon
<1>8. ReadyRow(jobs[k]) \in Row
    BY <1>4, Zenon DEF ReadyRow, Row, TypeOK
<1>9. TypeOK'
    BY <1>1, <1>3, <1>7, <1>8, Zenon DEF TypeOK
<1>10. RowOK'
    BY <1>3, <1>4 DEF RowOK, ReadyRow, TypeOK
<1>11. FailedHasDeadLetter'
  <2>1. \A u \in Targets : derived'[u].state = "failed" => derived'[u] = derived[u]
    BY <1>3, <1>4, Zenon DEF ReadyRow, TypeOK
  <2>2. \A j \in JobIds : jobs[j].status = "dead_letter" => jobs'[j] = jobs[j]
    BY <1>3, <1>5, Zenon
  <2> QED
    BY <1>3, <2>1, <2>2 DEF FailedHasDeadLetter, Of
<1>12. CallsOK'
    BY <1>2, <1>3, <1>6 DEF CallsOK
<1> QED
    BY <1>7, <1>9, <1>10, <1>11, <1>12, Zenon

\* A failure leaves an attempt, or leaves the dead letter of a failed row.
LEMMA FailIInv ==
    ASSUME NEW w \in Workers, NEW lease \in leases[w], NEW failure \in Failures,
           IInv, Fail(w, lease, failure)
    PROVE  IInv'
<1> USE DEF IInv
<1> DEFINE k == lease.job
           row == derived[jobs[k].target]
           marks == Exhausted(jobs[k], failure) /\ row.content = jobs[k].content /\ row.state = "pending"
<1>1. k \in JobIds /\ leases' \in [Workers -> SUBSET [job : JobIds, token : Nat]]
    BY DropTyped, Zenon DEF Fail
<1>2. /\ jobs' = [jobs EXCEPT ![k] = Failed(jobs[k], failure)]
      /\ derived' = [derived EXCEPT ![jobs[k].target] = IF marks THEN [row EXCEPT !.state = "failed"] ELSE row]
      /\ jobs[k].status = "processing"
      /\ UNCHANGED <<profile, parent, tomb, scanned, life, calls, writes, requeues>>
    BY Zenon DEF Fail, Owns
<1> HIDE DEF k
<1>3. /\ jobs[k] \in Job /\ jobs[k].target \in Targets /\ jobs[k].content \in Contents
      /\ jobs[k].life = life[jobs[k].target] /\ jobs[k].retries < MaxRetries
    BY <1>1, <1>2, Zenon DEF TypeOK, JobOK, Active
<1>4. \A j \in JobIds : jobs'[j] = IF j = k THEN Failed(jobs[k], failure) ELSE jobs[j]
    BY <1>1, <1>2, Zenon DEF TypeOK
<1>5. \A j \in JobIds :
         /\ KeepsKey(j) /\ WellFormed(jobs'[j])
         /\ jobs'[j].status = IF j # k THEN jobs[j].status
                              ELSE IF Exhausted(jobs[k], failure) THEN "dead_letter" ELSE "failed"
         /\ jobs'[j].retries = IF j # k THEN jobs[j].retries ELSE jobs[k].retries + 1
  <2>1. NoJob.status = "none"
    BY Zenon DEF NoJob
  <2>2. WellFormed(Failed(jobs[k], failure))
    BY <1>3, <2>1, FailedJob, Zenon DEF WellFormed
  <2> TAKE j \in JobIds
  <2>3. CASE j = k
    <3>1. jobs'[j] = Failed(jobs[j], failure)
      BY <1>4, <2>3, Zenon
    <3> QED
      BY <1>3, <2>2, <2>3, <3>1, FailedJob DEF KeepsKey
  <2>4. CASE j # k
    BY <1>4, <2>4, JobsWellFormed, Zenon DEF KeepsKey
  <2> QED
    BY <2>3, <2>4, Zenon
<1>6. ~Exhausted(jobs[k], failure) => jobs[k].retries + 1 < MaxRetries
    BY <1>3, OutboxAssumption DEF Exhausted, Job
<1>7. /\ jobs' \in [JobIds -> Job]
      /\ \A j \in JobIds : (jobs'[j].status = "none") <=> (jobs'[j] = NoJob)
      /\ \A j \in JobIds : (jobs'[j].until # "null") <=> (jobs'[j].status \in {"processing", "failed"})
      /\ TombOK' /\ JobOK' /\ UniqueLive'
  <2>1. jobs' = [j \in JobIds |-> jobs'[j]]
    BY <1>2, Zenon DEF TypeOK
  <2>2. \A j \in JobIds :
              /\ jobs[j].status = "none" => jobs'[j].status = "none"
              /\ jobs'[j].status \in Live => jobs[j].status \in Live
              /\ jobs'[j].status \in Active => jobs[j].status \in Active /\ jobs'[j].retries < MaxRetries
    BY <1>2, <1>5, <1>6 DEF JobOK, Live, Active
  <2> QED
    BY <1>2, <1>5, <2>1, <2>2, WorkerStep, Zenon
<1>8. row \in Row /\ [row EXCEPT !.state = "failed"] \in Row
  <2>1. row \in Row
    BY <1>3, Zenon DEF TypeOK
  <2> HIDE DEF row
  <2> QED
    BY <2>1, Zenon DEF Row
<1>9. TypeOK'
    BY <1>1, <1>2, <1>7, <1>8, Zenon DEF TypeOK
<1>10. \A u \in Targets :
          /\ derived'[u].content = derived[u].content
          /\ derived'[u].life = derived[u].life
          /\ derived'[u].vector = derived[u].vector
          /\ derived'[u].state = IF u = jobs[k].target /\ marks THEN "failed" ELSE derived[u].state
  <2> DEFINE new == IF marks THEN [row EXCEPT !.state = "failed"] ELSE row
  <2>1. /\ new.content = row.content /\ new.life = row.life /\ new.vector = row.vector
        /\ new.state = IF marks THEN "failed" ELSE row.state
    <3> HIDE DEF row
    <3>1. row \in Row
      BY <1>8, Zenon
    <3>2. CASE marks
      BY <3>1, <3>2, Zenon DEF Row
    <3>3. CASE ~marks
      BY <3>3, Zenon
    <3> QED
      BY <3>2, <3>3, Zenon
  <2>2. \A u \in Targets : derived'[u] = IF u = jobs[k].target THEN new ELSE derived[u]
    BY <1>2, <1>3, Zenon DEF TypeOK
  <2> HIDE DEF new
  <2> HIDE DEF marks
  <2> QED
    BY <2>1, <2>2, Zenon
<1>11. RowOK'
    BY <1>2, <1>10 DEF RowOK
<1>12. FailedHasDeadLetter'
  <2>1. \A j \in JobIds : jobs[j].status = "dead_letter" => jobs'[j] = jobs[j]
    BY <1>2, <1>4, Zenon
  <2>2. marks => /\ Of(k, jobs[k].target, {"dead_letter"})'
                 /\ jobs'[k].content = row.content
                 /\ jobs'[k].life = life[jobs[k].target]
    BY <1>1, <1>2, <1>3, <1>5, Zenon DEF Of, KeepsKey
  <2> SUFFICES ASSUME NEW u \in Targets, derived'[u].state = "failed"
               PROVE  \E j \in JobIds : /\ Of(j, u, {"dead_letter"})'
                                        /\ jobs'[j].content = derived'[u].content
                                        /\ jobs'[j].life = life'[u]
    BY Zenon DEF FailedHasDeadLetter
  <2>3. CASE u = jobs[k].target /\ marks
    <3>0. derived'[u].content = row.content /\ life'[u] = life[u]
      BY <1>2, <1>10, <2>3, Zenon
    <3> HIDE DEF row
    <3> HIDE DEF marks
    <3>2. jobs'[k].target = u
      BY <1>1, <1>5, <2>3, Zenon DEF KeepsKey
    <3>1. Of(k, u, {"dead_letter"})' /\ jobs'[k].content = derived'[u].content /\ jobs'[k].life = life'[u]
      BY <2>2, <2>3, <3>0, <3>2, Zenon DEF Of
    <3> QED
      BY <1>1, <3>1, Zenon
  <2>4. CASE ~(u = jobs[k].target /\ marks)
    BY <1>2, <1>10, <2>1, <2>4 DEF FailedHasDeadLetter, Of
  <2> QED
    BY <2>3, <2>4, Zenon
<1>13. CallsOK'
    BY <1>1, <1>2, <1>3, <1>5 DEF CallsOK, TypeOK, Job
<1> QED
    BY <1>7, <1>9, <1>11, <1>12, <1>13, Zenon

\* A claim leases, gives up, or drops the jobs whose locks it got.  A job it
\* gives up is the dead letter of the row it marks.
LEMMA ClaimIInv ==
    ASSUME NEW w \in Workers, IInv, Claim(w)
    PROVE  IInv'
<1> USE DEF IInv
<1>1. PICK open \in (SUBSET {j \in JobIds : Claimable(j)}) \ {{}} :
        LET handled == {j \in open : Cardinality({i \in open : i < j /\ ClaimedStatus(i) = "processing"})
                                       < BatchSize}
            taken == {j \in handled : ClaimedStatus(j) = "processing"}
            dead == {j \in handled : ClaimedStatus(j) = "dead_letter"}
        IN  /\ leases[w] = {}
            /\ jobs' = [j \in JobIds |->
                          IF j \in taken THEN Leased(jobs[j])
                          ELSE IF j \in dead THEN GivenUp(jobs[j])
                          ELSE IF j \in handled THEN Ended(jobs[j], ClaimedStatus(j))
                          ELSE jobs[j]]
            /\ derived' = [t \in Targets |->
                             LET given == {j \in dead : jobs[j].target = t}
                             IN  IF given = {} THEN derived[t] ELSE FailedRow(jobs[Last(given)])]
            /\ leases' = [leases EXCEPT ![w] = {[job |-> j, token |-> jobs[j].token + 1] : j \in taken}]
            /\ calls' = [j \in JobIds |-> IF j \in taken THEN calls[j] + 1 ELSE calls[j]]
            /\ UNCHANGED <<profile, parent, tomb, scanned, life, writes, requeues>>
    BY Zenon DEF Claim
<1> DEFINE handled == {j \in open : Cardinality({i \in open : i < j /\ ClaimedStatus(i) = "processing"})
                                       < BatchSize}
           taken == {j \in handled : ClaimedStatus(j) = "processing"}
           dead == {j \in handled : ClaimedStatus(j) = "dead_letter"}
           given(t) == {j \in dead : jobs[j].target = t}
<1>2. jobs' = [j \in JobIds |->
                  IF j \in taken THEN Leased(jobs[j])
                  ELSE IF j \in dead THEN GivenUp(jobs[j])
                  ELSE IF j \in handled THEN Ended(jobs[j], ClaimedStatus(j))
                  ELSE jobs[j]]
    BY <1>1, Zenon
<1>d. derived' = [t \in Targets |->
                     IF given(t) = {} THEN derived[t] ELSE FailedRow(jobs[Last(given(t))])]
    BY <1>1, Zenon
<1>l. leases' = [leases EXCEPT ![w] = {[job |-> j, token |-> jobs[j].token + 1] : j \in taken}]
    BY <1>1, Zenon
<1>c. calls' = [j \in JobIds |-> IF j \in taken THEN calls[j] + 1 ELSE calls[j]]
    BY <1>1, Zenon
<1>u. UNCHANGED <<profile, parent, tomb, scanned, life, writes, requeues>>
    BY <1>1, Zenon
<1>3. handled \subseteq {j \in JobIds : Claimable(j)}
    BY Zenon
<1> HIDE DEF handled
<1>4. \A j \in handled : /\ j \in JobIds
                         /\ jobs[j].status \in Active
                         /\ jobs[j] \in Job
                         /\ jobs[j].target \in Targets /\ jobs[j].content \in Contents
                         /\ jobs[j].life = life[jobs[j].target]
                         /\ jobs[j].retries < MaxRetries
    BY <1>3, Zenon DEF Claimable, TypeOK, JobOK, Active
<1>5. \A j \in handled :
         /\ ClaimedStatus(j) \in {"dead_letter", "cancelled", "cas_skipped", "processing"}
         /\ ClaimedStatus(j) = "dead_letter" => jobs[j].status = "processing"
         /\ ClaimedStatus(j) = "processing" => Spent(jobs[j]) < MaxRetries
  <2> TAKE j \in handled
  <2>1. jobs[j].retries \in Nat /\ jobs[j].retries < MaxRetries
    BY <1>4 DEF Job
  <2> QED
    BY <2>1, OutboxAssumption DEF ClaimedStatus, Spent
<1>6. /\ taken \subseteq handled /\ dead \subseteq handled
      /\ \A j \in handled : (j \in taken <=> ClaimedStatus(j) = "processing")
      /\ \A j \in handled : (j \in dead <=> ClaimedStatus(j) = "dead_letter")
    BY Zenon
<1> HIDE DEF taken
<1> HIDE DEF dead
<1>7. \A j \in JobIds :
         /\ KeepsKey(j) /\ WellFormed(jobs'[j])
         /\ jobs'[j].status = IF j \in handled THEN ClaimedStatus(j) ELSE jobs[j].status
         /\ j \in taken => jobs'[j].retries = Spent(jobs[j])
         /\ j \notin handled => jobs'[j] = jobs[j]
  <2> TAKE j \in JobIds
  <2>0. NoJob.status = "none"
    BY Zenon DEF NoJob
  <2>1. CASE j \in taken
    <3>1. jobs'[j] = Leased(jobs[j]) /\ jobs[j] \in Job /\ Spent(jobs[j]) <= MaxRetries
      <4>1. jobs'[j] = Leased(jobs[j]) /\ jobs[j] \in Job
        BY <1>2, <1>4, <1>6, <2>1, Zenon
      <4>2. Spent(jobs[j]) < MaxRetries
        BY <1>5, <1>6, <2>1, Zenon
      <4>3. Spent(jobs[j]) \in Int
        BY <4>1 DEF Spent, Job
      <4> QED
        BY <4>1, <4>2, <4>3, OutboxAssumption
    <3> QED
      BY <1>6, <2>0, <2>1, <3>1, LeasedJob DEF KeepsKey, WellFormed
  <2>2. CASE j \in dead
    <3>1. jobs'[j] = GivenUp(jobs[j]) /\ jobs[j] \in Job /\ jobs[j].retries < MaxRetries
      BY <1>2, <1>4, <1>6, <2>2, Zenon
    <3> QED
      BY <1>6, <2>0, <2>2, <3>1, GivenUpJob DEF KeepsKey, WellFormed
  <2>3. CASE j \in handled /\ j \notin taken /\ j \notin dead
    <3>1. /\ jobs'[j] = Ended(jobs[j], ClaimedStatus(j)) /\ jobs[j] \in Job
          /\ ClaimedStatus(j) \in {"cancelled", "cas_skipped"} /\ ClaimedStatus(j) \in Statuses
      BY <1>2, <1>4, <1>5, <1>6, <2>3, Zenon DEF Statuses
    <3> QED
      BY <2>3, <3>1, EndedJob, EndedWellFormed DEF KeepsKey
  <2>4. CASE j \notin handled
    BY <1>2, <1>6, <2>4, JobsWellFormed, Zenon DEF KeepsKey
  <2> QED
    BY <2>1, <2>2, <2>3, <2>4
<1>8. /\ jobs' \in [JobIds -> Job]
      /\ \A j \in JobIds : (jobs'[j].status = "none") <=> (jobs'[j] = NoJob)
      /\ \A j \in JobIds : (jobs'[j].until # "null") <=> (jobs'[j].status \in {"processing", "failed"})
      /\ TombOK' /\ JobOK' /\ UniqueLive'
  <2>1. jobs' = [j \in JobIds |-> jobs'[j]]
    BY <1>2, Zenon
  <2>2. \A j \in JobIds :
              /\ jobs[j].status = "none" => jobs'[j].status = "none"
              /\ jobs'[j].status \in Live => jobs[j].status \in Live
              /\ jobs'[j].status \in Active => jobs[j].status \in Active /\ jobs'[j].retries < MaxRetries
    BY <1>4, <1>5, <1>6, <1>7 DEF JobOK, Live, Active
  <2> QED
    BY <1>u, <1>7, <2>1, <2>2, WorkerStep, Zenon
<1>9. \A t \in Targets : given(t) # {} =>
         /\ Last(given(t)) \in dead /\ jobs[Last(given(t))].target = t
         /\ FailedRow(jobs[Last(given(t))]) \in Row
         /\ derived'[t] = FailedRow(jobs[Last(given(t))])
  <2> SUFFICES ASSUME NEW t \in Targets, given(t) # {}
               PROVE  /\ Last(given(t)) \in dead /\ jobs[Last(given(t))].target = t
                      /\ FailedRow(jobs[Last(given(t))]) \in Row
                      /\ derived'[t] = FailedRow(jobs[Last(given(t))])
    BY Zenon
  <2>1. given(t) \in SUBSET JobIds
    BY <1>4, <1>6, Zenon
  <2>2. Last(given(t)) \in given(t)
    BY <2>1, LastInSet, Zenon
  <2>3. FailedRow(jobs[Last(given(t))]) \in Row
    BY <1>4, <1>6, <2>2, Zenon DEF FailedRow, Row, Job
  <2> QED
    BY <1>d, <2>2, <2>3, Zenon
<1>10. \A t \in Targets : given(t) = {} => derived'[t] = derived[t]
    BY <1>d, Zenon
<1> HIDE DEF given
<1>11. TypeOK'
  <2>1. derived' \in [Targets -> Row]
    <3>1. derived \in [Targets -> Row]
      BY Zenon DEF TypeOK
    <3>2. \A t \in Targets : derived'[t] \in Row
      BY <1>9, <1>10, <3>1, Zenon
    <3>3. derived' = [t \in Targets |-> derived'[t]]
      BY <1>d, Zenon
    <3> QED
      BY <3>2, <3>3, Zenon
  <2>2. leases' \in [Workers -> SUBSET [job : JobIds, token : Nat]]
    <3>1. \A j \in taken : j \in JobIds /\ jobs[j].token + 1 \in Nat
      BY <1>4, <1>6 DEF Job
    <3> DEFINE got == {[job |-> j, token |-> jobs[j].token + 1] : j \in taken}
    <3>2. got \subseteq [job : JobIds, token : Nat]
      BY <3>1
    <3>3. leases \in [Workers -> SUBSET [job : JobIds, token : Nat]]
      BY Zenon DEF TypeOK
    <3>4. leases' = [leases EXCEPT ![w] = got]
      BY <1>l, Zenon
    <3> HIDE DEF got
    <3> QED
      BY <3>2, <3>3, <3>4, Zenon
  <2>3. calls' \in [JobIds -> Nat]
    <3>1. calls \in [JobIds -> Nat]
      BY Zenon DEF TypeOK
    <3>2. calls' = [j \in JobIds |-> IF j \in taken THEN calls[j] + 1 ELSE calls[j]]
      BY <1>c, Zenon
    <3>3. \A j \in JobIds : calls[j] \in Nat /\ calls[j] + 1 \in Nat
      BY <3>1
    <3> QED
      BY <3>2, <3>3, Zenon
  <2> QED
    BY <1>u, <1>8, <2>1, <2>2, <2>3, Zenon DEF TypeOK
<1>12. \A t \in Targets : given(t) # {} =>
          /\ derived'[t].state = "failed"
          /\ derived'[t].content = jobs[Last(given(t))].content
          /\ derived'[t].life = life[t]
  <2> TAKE t \in Targets
  <2> HAVE given(t) # {}
  <2> DEFINE k == Last(given(t))
  <2>1. k \in handled /\ jobs[k].target = t /\ derived'[t] = FailedRow(jobs[k])
    BY <1>6, <1>9, Zenon
  <2> HIDE DEF k
  <2>2. derived'[t].state = "failed" /\ derived'[t].content = jobs[k].content
    BY <2>1 DEF FailedRow
  <2>3. derived'[t].life = jobs[k].life
    BY <2>1 DEF FailedRow
  <2>4. jobs[k].life = life[t]
    BY <1>4, <2>1, Zenon
  <2> QED
    BY <2>2, <2>3, <2>4, Zenon DEF k
<1>13. RowOK'
    BY <1>u, <1>10, <1>12, Zenon DEF RowOK
<1>14. FailedHasDeadLetter'
  <2> SUFFICES ASSUME NEW u \in Targets, derived'[u].state = "failed"
               PROVE  \E j \in JobIds : /\ Of(j, u, {"dead_letter"})'
                                        /\ jobs'[j].content = derived'[u].content
                                        /\ jobs'[j].life = life'[u]
    BY Zenon DEF FailedHasDeadLetter
  <2>1. CASE given(u) # {}
    <3> DEFINE k == Last(given(u))
    <3>1. k \in JobIds /\ k \in handled /\ ClaimedStatus(k) = "dead_letter" /\ jobs[k].target = u
      BY <1>4, <1>6, <1>9, <2>1, Zenon
    <3>2. jobs'[k].status = "dead_letter" /\ KeepsKey(k)
      BY <1>7, <3>1, Zenon
    <3>3. derived'[u].content = jobs[k].content /\ jobs[k].life = life[u]
      BY <1>4, <1>12, <2>1, <3>1, Zenon
    <3> HIDE DEF k
    <3> QED
      BY <1>u, <3>1, <3>2, <3>3, Zenon DEF Of, KeepsKey
  <2>2. CASE given(u) = {}
    <3>1. \A j \in JobIds : jobs[j].status = "dead_letter" => jobs'[j] = jobs[j]
      BY <1>4, <1>7, Zenon DEF Active
    <3>2. derived'[u] = derived[u] /\ life'[u] = life[u]
      BY <1>u, <1>10, <2>2, Zenon
    <3>3. PICK k \in JobIds : /\ Of(k, u, {"dead_letter"})
                             /\ jobs[k].content = derived[u].content
                             /\ jobs[k].life = life[u]
      BY <3>2, Zenon DEF FailedHasDeadLetter
    <3>4. jobs'[k] = jobs[k]
      BY <3>1, <3>3, Zenon DEF Of
    <3> QED
      BY <3>2, <3>3, <3>4, Zenon DEF Of
  <2> QED
    BY <2>1, <2>2, Zenon
<1>15. CallsOK'
  <2> SUFFICES ASSUME NEW j \in JobIds
               PROVE  /\ jobs'[j].status = "none" => calls'[j] = 0
                      /\ jobs'[j].status \in {"queued", "failed"} => calls'[j] <= jobs'[j].retries
                      /\ jobs'[j].status = "processing" => calls'[j] <= jobs'[j].retries + 1
                      /\ calls'[j] <= MaxRetries
    BY Zenon DEF CallsOK
  <2>1. CASE j \in taken
    <3>1. calls'[j] = calls[j] + 1 /\ jobs'[j].status = "processing" /\ jobs'[j].retries = Spent(jobs[j])
      BY <1>c, <1>6, <1>7, <2>1, Zenon
    <3>2. calls[j] \in Nat /\ jobs[j].retries \in Nat
      <4>1. calls \in [JobIds -> Nat] /\ jobs[j] \in Job
        BY <1>4, <1>6, <2>1, Zenon DEF TypeOK
      <4> QED
        BY <4>1 DEF Job
    <3>3. calls[j] <= Spent(jobs[j]) /\ Spent(jobs[j]) \in Nat /\ Spent(jobs[j]) < MaxRetries
      BY <1>4, <1>5, <1>6, <2>1, <3>2 DEF CallsOK, Spent, Active
    <3> QED
      BY <3>1, <3>2, <3>3, OutboxAssumption
  <2>2. CASE j \in handled /\ j \notin taken
    BY <1>c, <1>5, <1>6, <1>7, <2>2, Zenon DEF CallsOK
  <2>3. CASE j \notin handled
    BY <1>c, <1>6, <1>7, <2>3, Zenon DEF CallsOK
  <2> QED
    BY <1>6, <2>1, <2>2, <2>3, Zenon
<1> QED
    BY <1>8, <1>11, <1>13, <1>14, <1>15, Zenon

-----------------------------------------------------------------------------
\* Every step of the system keeps the invariant.
LEMMA NextIInv == IInv /\ [Next]_vars => IInv'
<1> SUFFICES ASSUME IInv, [Next]_vars PROVE IInv'
    BY Zenon
<1>1. CASE UNCHANGED vars
  <2>1. TypeOK'
    BY <1>1, Zenon DEF IInv, TypeOK, vars
  <2> QED
    BY <1>1, <2>1, QuietStep, Zenon DEF vars
<1>2. ASSUME NEW t \in Targets, Delete(t) PROVE IInv'
    BY <1>2, DeleteIInv, Zenon
<1>3. ASSUME NEW t \in Targets, NEW c \in Contents, Upsert(t, c) PROVE IInv'
    BY <1>3, UpsertIInv
<1>4. ASSUME Cutover PROVE IInv'
    BY <1>4, CutoverIInv
<1>5. ASSUME Backfill PROVE IInv'
    BY <1>5, ScanIInv, EnqueueScannedIInv, Zenon DEF Backfill
<1>6. ASSUME NEW targets \in SUBSET Targets, Requeue(targets) PROVE IInv'
    BY <1>6, RequeueIInv
<1>7. ASSUME NEW w \in Workers, Step(w) PROVE IInv'
    BY <1>7, ClaimIInv, CompleteIInv, FailIInv, LateIInv DEF Step
<1>8. ASSUME NEW w \in Workers, Crash(w) PROVE IInv'
    BY <1>8, CrashIInv, Zenon
<1>9. ASSUME NEW j \in JobIds, TimerEnds(j) PROVE IInv'
    BY <1>9, TimerEndsIInv
<1> QED
    BY <1>1, <1>2, <1>3, <1>4, <1>5, <1>6, <1>7, <1>8, <1>9, Zenon DEF Next

\* The tables of the queue always satisfy the inductive invariant.
LEMMA OutboxInvariant == Spec => []IInv
BY InitIInv, NextIInv, PTL DEF Spec

\* Every column keeps its type, and only leased and failed jobs wait.
THEOREM OutboxTypes == Spec => []TypeOK
<1>1. IInv => TypeOK
    BY Zenon DEF IInv
<1> QED
    BY <1>1, OutboxInvariant, PTL

\* Whatever late workers, expired leases, deletions and stale scans do, a
\* vector that search_session_chunks_local may return is the one of the text
\* the target has now, made in the target's present life.
THEOREM OutboxSearchIsHonest == Spec => []SearchIsHonest
<1>1. IInv => SearchIsHonest
    BY Zenon DEF IInv, RowOK, SearchIsHonest
<1> QED
    BY <1>1, OutboxInvariant, PTL

\* Writers, the backfill and the operator never queue the same work twice, and
\* no job survives the deletion of its target.
THEOREM OutboxOneActiveJob == Spec => []OneActiveJob
<1>1. IInv => OneActiveJob
  <2> SUFFICES ASSUME IInv, NEW j \in JobIds, jobs[j].status \in Active
               PROVE  /\ parent[jobs[j].target] # None
                      /\ jobs[j].life = life[jobs[j].target]
                      /\ \A i \in JobIds : Of(i, jobs[j].target, Active) /\ jobs[i].content = jobs[j].content
                                             => i = j
    BY Zenon DEF OneActiveJob
  <2>1. \A i \in JobIds : jobs[i].status \in Active =>
           /\ parent[jobs[i].target] # None
           /\ jobs[i].life = life[jobs[i].target]
           /\ jobs[i].incarnation = jobs[i].life + 1
    BY Zenon DEF IInv, JobOK, Active
  <2>2. \A i \in JobIds : Of(i, jobs[j].target, Active) /\ jobs[i].content = jobs[j].content => SameKey(i, j)
    BY <2>1 DEF Of, SameKey
  <2> QED
    BY <2>1, <2>2, Zenon DEF IInv, UniqueLive, Live, Of
<1> QED
    BY <1>1, OutboxInvariant, PTL

\* A job that nobody requeues costs at most MaxRetries calls of the model,
\* however its leases end.
THEOREM OutboxBoundedAttempts == Spec => []BoundedAttempts
<1>1. IInv => BoundedAttempts
    BY Zenon DEF IInv, CallsOK, BoundedAttempts
<1> QED
    BY <1>1, OutboxInvariant, PTL

\* A failed row always has its dead letter.
THEOREM OutboxFailedHasDeadLetter == Spec => []FailedHasDeadLetter
<1>1. IInv => FailedHasDeadLetter
    BY Zenon DEF IInv
<1> QED
    BY <1>1, OutboxInvariant, PTL
=============================================================================
