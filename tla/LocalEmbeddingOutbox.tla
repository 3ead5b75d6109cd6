------------------------ MODULE LocalEmbeddingOutbox ------------------------
(***************************************************************************)
(* The local embedding profile of the PostgreSQL store: the queue          *)
(* local_embedding_outbox, the derived rows with the vectors, the          *)
(* tombstones that number the lives of a target, the leased workers that   *)
(* call the model, and the backfill that finds targets without a vector.   *)
(*                                                                         *)
(* Every method of the store is one transaction.  Identity and target      *)
(* advisory locks serialize the transactions of a target, so each one is   *)
(* an action.  The model call is outside of all of them: a worker claims,  *)
(* embeds and completes in three steps, and anything may happen between.   *)
(*                                                                         *)
(* A target is a memory card or a session chunk.  A content stands for its *)
(* content hash, its input hash and its text, which determine each other.  *)
(***************************************************************************)
EXTENDS Integers, FiniteSets

CONSTANTS
    Targets,
    Contents,
    None,         \* a row that does not exist, a column that is NULL
    Workers,
    MaxRetries,   \* OUTBOX_RETRY_LIMIT; 5 in the code
    BatchSize,    \* jobs a worker leases at once
    MaxJobs,      \* bound on the rows of the queue
    MaxWrites,    \* bound on the writes and deletions of targets
    MaxRequeues   \* bound on the calls of an operator who requeues jobs

ASSUME OutboxAssumption ==
    /\ None \notin Contents \cup Targets
    /\ MaxRetries \in Nat \ {0}
    /\ BatchSize \in Nat \ {0}
    /\ MaxJobs \in Nat /\ MaxWrites \in Nat /\ MaxRequeues \in Nat

JobIds == 1..MaxJobs

VARIABLES
    profile,   \* embedding_profile of the processes that write targets
    parent,    \* memory_cards and session_memory_chunks: the content of a target
    derived,   \* card_local_embeddings and session_local_embeddings
    tomb,      \* local_embedding_tombstones; incarnation 0 is no row
    jobs,      \* local_embedding_outbox; status "none" is an id not used yet
    leases,    \* the leases each worker believes it holds
    scanned,   \* what the backfill read and has not enqueued yet
    life,      \* how often a target was deleted
    calls,     \* leases given for a job since it was queued
    writes,
    requeues

vars == <<profile, parent, derived, tomb, jobs, leases, scanned, life, calls, writes, requeues>>

Active == {"queued", "processing", "failed"}
Statuses == Active \cup {"none", "completed", "cas_skipped", "dead_letter", "cancelled"}
Failures == {"transient", "retryable", "terminal"}

\* "until" is the end of a lease (lease_until) or of the pause before a retry
\* (next_attempt_at), "error" what made a job a dead letter (last_error), and
\* "life" the life of the target that a job was queued in.
NoRow == [state |-> "none", content |-> None, vector |-> None, life |-> 0]
NoJob ==
    [status |-> "none", target |-> None, content |-> None, incarnation |-> 0, token |-> 0,
     until |-> "null", retries |-> 0, error |-> "none", life |-> 0]

\* Targets may exist before the local profile does.  A store that had it from
\* the start is one whose first step is the cutover.
Init ==
    /\ profile = "default"
    /\ parent \in [Targets -> Contents \cup {None}]
    /\ derived = [t \in Targets |-> NoRow]
    /\ tomb = [t \in Targets |-> [incarnation |-> 0, deleted |-> FALSE]]
    /\ jobs = [j \in JobIds |-> NoJob]
    /\ leases = [w \in Workers |-> {}]
    /\ scanned = {}
    /\ life = [t \in Targets |-> 0]
    /\ calls = [j \in JobIds |-> 0]
    /\ writes = 0
    /\ requeues = 0

-----------------------------------------------------------------------------
(* Enqueueing a job for the content c that target t has.                   *)

Of(j, t, statuses) == jobs[j].target = t /\ jobs[j].status \in statuses

\* Faulty: the lease stays in place.
EndedInPlace(job, status) == [job EXCEPT !.status = status]

Ended(job, status) == [job EXCEPT !.status = status, !.until = "null"]

\* An insert takes the next value of the id sequence.
Unused(j) == jobs[j].status = "none" /\ \A i \in 1..(j - 1) : jobs[i].status # "none"

Incarnation(t) == IF tomb[t].incarnation = 0 THEN 1 ELSE tomb[t].incarnation

NewJob(t, c) ==
    [NoJob EXCEPT !.status = "queued", !.target = t, !.content = c,
                  !.incarnation = Incarnation(t), !.life = life[t]]

\* Faulty: a ready row stays ready whatever the content.
RowEnqueuedAsItWas(row, c, n) ==
    IF row.state \in {"ready", "failed"}
      THEN [row EXCEPT !.content = c]
      ELSE [state |-> "pending", content |-> c, vector |-> None, life |-> n]

\* A row of the same content keeps its vector, and its failure.
RowEnqueued(row, c, n) ==
    IF row.content = c /\ row.state \in {"ready", "failed"}
      THEN row
      ELSE [state |-> "pending", content |-> c, vector |-> None, life |-> n]

\* Jobs of other contents are cancelled; a job of this one is reused, even a
\* dead letter.
Enqueue(t, c) ==
    LET jobs1 == [j \in JobIds |-> IF Of(j, t, Active) /\ jobs[j].content # c
                                     THEN Ended(jobs[j], "cancelled") ELSE jobs[j]]
        existing == {j \in JobIds : /\ Of(j, t, Active \cup {"dead_letter"})
                                    /\ jobs[j].content = c
                                    /\ jobs[j].incarnation = Incarnation(t)}
    IN  /\ tomb' = [tomb EXCEPT ![t] = [incarnation |-> Incarnation(t), deleted |-> FALSE]]
        /\ derived' = [derived EXCEPT ![t] = RowEnqueued(@, c, life[t])]
        /\ \/ existing # {} /\ jobs' = jobs1
           \/ /\ existing = {}
              /\ \E j \in JobIds :
                    /\ Unused(j)
                    /\ jobs' = [jobs1 EXCEPT ![j] = NewJob(t, c)]

-----------------------------------------------------------------------------
(* Writers of targets, the operator and the backfill.                      *)

Write == writes < MaxWrites /\ writes' = writes + 1

\* Under the default profile the local tables are not touched.
Upsert(t, c) ==
    /\ Write
    /\ parent' = [parent EXCEPT ![t] = c]
    /\ \/ profile = "local" /\ Enqueue(t, c)
       \/ profile = "default" /\ UNCHANGED <<derived, tomb, jobs>>
    /\ UNCHANGED <<profile, leases, scanned, life, calls, requeues>>

\* Faulty: the jobs of the target are left alone.
DeleteBare(t) ==
    /\ Write
    /\ parent' = [parent EXCEPT ![t] = None]
    /\ derived' = [derived EXCEPT ![t] = NoRow]
    /\ tomb' = [tomb EXCEPT ![t] = [incarnation |-> Incarnation(t) + 1, deleted |-> TRUE]]
    /\ life' = [life EXCEPT ![t] = @ + 1]
    /\ UNCHANGED <<profile, jobs, leases, scanned, calls, requeues>>

\* Under both profiles.  The row goes with its parent (ON DELETE CASCADE).
Delete(t) ==
    /\ Write
    /\ parent' = [parent EXCEPT ![t] = None]
    /\ derived' = [derived EXCEPT ![t] = NoRow]
    /\ tomb' = [tomb EXCEPT ![t] = [incarnation |-> Incarnation(t) + 1, deleted |-> TRUE]]
    /\ jobs' = [j \in JobIds |-> IF Of(j, t, Active) THEN Ended(jobs[j], "cancelled") ELSE jobs[j]]
    /\ life' = [life EXCEPT ![t] = @ + 1]
    /\ UNCHANGED <<profile, leases, scanned, calls, requeues>>

\* The writers are restarted with the local profile.
Cutover ==
    /\ profile = "default"
    /\ profile' = "local"
    /\ UNCHANGED <<parent, derived, tomb, jobs, leases, scanned, life, calls, writes, requeues>>

\* Faulty: a row of another content counts.
MissingAltogether(t) ==
    /\ parent[t] # None
    /\ derived[t].state \notin {"ready", "failed"}
    /\ ~tomb[t].deleted
    /\ ~\E j \in JobIds : /\ Of(j, t, Active \cup {"dead_letter"})
                          /\ jobs[j].content = parent[t]

\* The anti-join of the backfill.
Missing(t) ==
    /\ parent[t] # None
    /\ ~(derived[t].content = parent[t] /\ derived[t].state \in {"ready", "failed"})
    /\ ~tomb[t].deleted
    /\ ~\E j \in JobIds : /\ Of(j, t, Active \cup {"dead_letter"})
                          /\ jobs[j].content = parent[t]

Scan ==
    /\ scanned = {}
    /\ scanned' = {[target |-> t, content |-> parent[t]] : t \in {u \in Targets : Missing(u)}}
    /\ UNCHANGED <<profile, parent, derived, tomb, jobs, leases, life, calls, writes, requeues>>

\* A target that was deleted or changed since the scan is skipped.
EnqueueScanned(m) ==
    /\ m \in scanned
    /\ scanned' = scanned \ {m}
    /\ \/ parent[m.target] = m.content /\ Enqueue(m.target, m.content)
       \/ parent[m.target] # m.content /\ UNCHANGED <<derived, tomb, jobs>>
    /\ UNCHANGED <<profile, parent, leases, life, calls, writes, requeues>>

\* The tombstone says that the target was deleted since the job was queued.
Retired(j) ==
    LET tombstone == tomb[jobs[j].target]
    IN  tombstone.incarnation # 0 /\ (tombstone.deleted \/ tombstone.incarnation # jobs[j].incarnation)

Requeueable(j) ==
    /\ jobs[j].status = "dead_letter"
    /\ jobs[j].error = "transient"
    /\ ~Retired(j)
    /\ parent[jobs[j].target] = jobs[j].content
    /\ ~\E i \in JobIds : /\ Of(i, jobs[j].target, Active \cup {"completed"})
                          /\ jobs[i].content = jobs[j].content
                          /\ jobs[i].incarnation = jobs[j].incarnation

\* Faulty: the row is not touched.
RowLeftFailed(row) == row

Requeued(job) == [job EXCEPT !.status = "queued", !.retries = 0]

RowRequeued(row) == [row EXCEPT !.state = "pending"]

\* One transaction for the targets an operator names.
Requeue(targets) ==
    LET chosen == {j \in JobIds : jobs[j].target \in targets /\ Requeueable(j)}
    IN  /\ requeues < MaxRequeues
        /\ chosen # {}
        /\ requeues' = requeues + 1
        /\ jobs' = [j \in JobIds |-> IF j \in chosen
                                       THEN Requeued(jobs[j]) ELSE jobs[j]]
        /\ derived' = [t \in Targets |->
                         IF derived[t].state = "failed"
                            /\ \E j \in chosen : jobs[j].target = t /\ jobs[j].content = derived[t].content
                           THEN RowRequeued(derived[t])
                           ELSE derived[t]]
        /\ calls' = [j \in JobIds |-> IF j \in chosen THEN 0 ELSE calls[j]]
        /\ UNCHANGED <<profile, parent, tomb, leases, scanned, life, writes>>

-----------------------------------------------------------------------------
(* Workers.                                                                *)

Claimable(j) ==
    \/ jobs[j].status = "queued"
    \/ jobs[j].status \in {"failed", "processing"} /\ jobs[j].retries < MaxRetries /\ jobs[j].until = "past"

\* What the claim makes of a job whose locks it got.
ClaimedStatus(j) ==
    CASE jobs[j].status = "processing" /\ jobs[j].retries + 1 >= MaxRetries -> "dead_letter"
      [] OTHER -> IF Retired(j) THEN "cancelled"
                  ELSE IF parent[jobs[j].target] # jobs[j].content THEN "cas_skipped"
                  ELSE "processing"

\* Faulty: only answers count.
SpentOnAnswers(job) == job.retries

\* The lease of an abandoned job used up one attempt.
Spent(job) == IF job.status = "processing" THEN job.retries + 1 ELSE job.retries

Leased(job) ==
    [job EXCEPT !.status = "processing", !.until = "future", !.token = @ + 1, !.retries = Spent(job)]

GivenUp(job) ==
    [Ended(job, "dead_letter") EXCEPT !.retries = @ + 1, !.error = "expired"]

FailedRow(job) == [state |-> "failed", content |-> job.content, vector |-> None, life |-> job.life]

\* Jobs are handled in the order of their ids.
Last(ids) == CHOOSE j \in ids : \A i \in ids : i <= j

\* One transaction.  It passes over the jobs whose advisory locks another
\* transaction holds, and stops when it has leased a batch.
Claim(w) ==
    \E open \in (SUBSET {j \in JobIds : Claimable(j)}) \ {{}} :
        LET handled == {j \in open : Cardinality({i \in open : i < j /\ ClaimedStatus(i) = "processing"})
                                       < BatchSize}
            taken == {j \in handled : ClaimedStatus(j) = "processing"}
            dead == {j \in handled : ClaimedStatus(j) = "dead_letter"}
        IN  /\ leases[w] = {}
            /\ jobs' = [j \in JobIds |->
                          IF j \in taken THEN Leased(jobs[j])
                          ELSE IF j \in dead THEN GivenUp(jobs[j])
                          ELSE IF j \in handled THEN Ended(jobs[j], ClaimedStatus(j))
                          ELSE jobs[j]]
            /\ derived' = [t \in Targets |->
                             LET given == {j \in dead : jobs[j].target = t}
                             IN  IF given = {} THEN derived[t] ELSE FailedRow(jobs[Last(given)])]
            /\ leases' = [leases EXCEPT ![w] = {[job |-> j, token |-> jobs[j].token + 1] : j \in taken}]
            /\ calls' = [j \in JobIds |-> IF j \in taken THEN calls[j] + 1 ELSE calls[j]]
            /\ UNCHANGED <<profile, parent, tomb, scanned, life, writes, requeues>>

Owns(lease) ==
    /\ jobs[lease.job].status = "processing"
    /\ jobs[lease.job].token = lease.token
    /\ jobs[lease.job].until = "future"

Drop(w, lease) == leases' = [leases EXCEPT ![w] = @ \ {lease}]

\* The model answered.  The vector is written only for the content and the
\* life of the target that the job was queued for.
CompletedStatus(j) ==
    IF Retired(j) \/ parent[jobs[j].target] = None THEN "cancelled"
    ELSE IF parent[jobs[j].target] # jobs[j].content THEN "cas_skipped"
    ELSE "completed"

ReadyRow(job) ==
    [state |-> "ready", content |-> job.content, vector |-> job.content, life |-> job.life]

Complete(w, lease) ==
    /\ lease \in leases[w]
    /\ Owns(lease)
    /\ Drop(w, lease)
    /\ LET j == lease.job
       IN  /\ jobs' = [jobs EXCEPT ![j] = Ended(@, CompletedStatus(j))]
           /\ derived' = IF CompletedStatus(j) = "completed"
                           THEN [derived EXCEPT ![jobs[j].target] = ReadyRow(jobs[j])]
                           ELSE derived
    /\ UNCHANGED <<profile, parent, tomb, scanned, life, calls, writes, requeues>>

\* The error matters once the job is a dead letter: until then the next one
\* replaces it.
Exhausted(job, failure) == failure = "terminal" \/ job.retries + 1 >= MaxRetries

Failed(job, failure) ==
    IF Exhausted(job, failure)
      THEN [Ended(job, "dead_letter") EXCEPT !.retries = @ + 1, !.error = failure]
      ELSE [job EXCEPT !.status = "failed", !.until = "future", !.retries = @ + 1]

\* The model call or the transaction of the completion failed.
Fail(w, lease, failure) ==
    /\ lease \in leases[w]
    /\ Owns(lease)
    /\ Drop(w, lease)
    /\ LET job == jobs[lease.job]
       IN  /\ jobs' = [jobs EXCEPT ![lease.job] = Failed(job, failure)]
           /\ derived' = [derived EXCEPT ![job.target] =
                            IF Exhausted(job, failure) /\ @.content = job.content /\ @.state = "pending"
                              THEN [@ EXCEPT !.state = "failed"] ELSE @]
    /\ UNCHANGED <<profile, parent, tomb, scanned, life, calls, writes, requeues>>

\* A worker that is late finds its lease gone: the completion raises, and so
\* does the failure that it then tries to record.
Late(w, lease) ==
    /\ lease \in leases[w]
    /\ ~Owns(lease)
    /\ Drop(w, lease)
    /\ UNCHANGED <<profile, parent, derived, tomb, jobs, scanned, life, calls, writes, requeues>>

\* The process ends, or an error it does not catch ends its batch.
Crash(w) ==
    /\ leases[w] # {}
    /\ leases' = [leases EXCEPT ![w] = {}]
    /\ UNCHANGED <<profile, parent, derived, tomb, jobs, scanned, life, calls, writes, requeues>>

Due(job) == [job EXCEPT !.until = "past"]

\* A lease expires, or the pause before a retry is over.
TimerEnds(j) ==
    /\ jobs[j].until = "future"
    /\ jobs' = [jobs EXCEPT ![j] = Due(@)]
    /\ UNCHANGED <<profile, parent, derived, tomb, leases, scanned, life, calls, writes, requeues>>

-----------------------------------------------------------------------------
Step(w) ==
    \/ Claim(w)
    \/ \E lease \in leases[w] :
          \/ Complete(w, lease)
          \/ \E failure \in Failures : Fail(w, lease, failure)
          \/ Late(w, lease)

Backfill == Scan \/ \E m \in scanned : EnqueueScanned(m)

Next ==
    \/ \E t \in Targets : Delete(t) \/ \E c \in Contents : Upsert(t, c)
    \/ Cutover
    \/ Backfill
    \/ \E targets \in SUBSET Targets : Requeue(targets)
    \/ \E w \in Workers : Step(w) \/ Crash(w)
    \/ \E j \in JobIds : TimerEnds(j)

Spec == Init /\ [][Next]_vars

\* Workers poll, the backfill is run again and again, and clocks run.
FairSpec ==
    /\ Spec
    /\ WF_vars(Backfill)
    /\ \A w \in Workers : WF_vars(Step(w))
    /\ \A j \in JobIds : WF_vars(TimerEnds(j))

-----------------------------------------------------------------------------
(* Properties.                                                             *)

Row ==
    [state : {"none", "pending", "ready", "failed"}, content : Contents \cup {None},
     vector : Contents \cup {None}, life : Nat]

Job ==
    [status : Statuses, target : Targets \cup {None}, content : Contents \cup {None},
     incarnation : Nat, token : Nat, until : {"null", "future", "past"}, retries : 0..MaxRetries,
     error : Failures \cup {"none", "expired"}, life : Nat]

\* Every column has a value of its type, and only a leased job and a failed
\* one wait for a point in time.
TypeOK ==
    /\ profile \in {"default", "local"}
    /\ parent \in [Targets -> Contents \cup {None}]
    /\ derived \in [Targets -> Row]
    /\ tomb \in [Targets -> [incarnation : Nat, deleted : BOOLEAN]]
    /\ jobs \in [JobIds -> Job]
    /\ \A j \in JobIds : (jobs[j].status = "none") <=> (jobs[j] = NoJob)
    /\ \A j \in JobIds : (jobs[j].until # "null") <=> (jobs[j].status \in {"processing", "failed"})
    /\ leases \in [Workers -> SUBSET [job : JobIds, token : Nat]]
    /\ scanned \subseteq [target : Targets, content : Contents]
    /\ life \in [Targets -> Nat]
    /\ calls \in [JobIds -> Nat]
    /\ writes \in 0..MaxWrites /\ requeues \in 0..MaxRequeues

\* What a search may return (search_session_chunks_local joins the row to the
\* target on the content) is the vector of the text the target has now, made
\* by a job queued after the target was last deleted.  Late workers, expired
\* leases and a stale backfill do not change that.
SearchIsHonest ==
    \A t \in Targets :
        derived[t].state = "ready" /\ derived[t].content = parent[t]
            => derived[t].vector = parent[t] /\ derived[t].life = life[t]

\* A job that can still be worked on belongs to the present life of a target
\* that exists, and is the only one for its content: the one that a second
\* writer, the backfill or the operator finds instead of adding its own.
OneActiveJob ==
    \A j \in JobIds : jobs[j].status \in Active =>
        /\ parent[jobs[j].target] # None
        /\ jobs[j].life = life[jobs[j].target]
        /\ \A i \in JobIds : Of(i, jobs[j].target, Active) /\ jobs[i].content = jobs[j].content => i = j

\* However its attempts end, in an answer, an error or a dead worker, the
\* model is called at most MaxRetries times for a job that nobody requeues.
BoundedAttempts == \A j \in JobIds : calls[j] <= MaxRetries

\* A row is marked failed only while the queue holds the dead letter of its
\* content and its life, the one an operator has to deal with.
FailedHasDeadLetter ==
    \A t \in Targets : derived[t].state = "failed" =>
        \E j \in JobIds : /\ Of(j, t, {"dead_letter"})
                          /\ jobs[j].content = derived[t].content
                          /\ jobs[j].life = life[t]

Settled(t) == derived[t].content = parent[t] /\ derived[t].state \in {"ready", "failed"}

\* Two ways to stay without a vector: the queue keeps a dead letter of the
\* content the target has again, or a target deleted and created under the
\* default profile is taken for a deleted one.
Stranded(t) ==
    \/ tomb[t].deleted
    \/ \E j \in JobIds : Of(j, t, {"dead_letter"}) /\ jobs[j].content = parent[t]

\* Every target gets a vector or is reported as failed, or it is changed, or
\* it is stranded.
EveryTargetSettles ==
    \A t \in Targets, c \in Contents :
        parent[t] = c ~> (parent[t] # c \/ Settled(t) \/ Stranded(t))

\* A vector that was completed for the text a target still has is not taken
\* away.
ReadyIsKept ==
    [][\A t \in Targets :
         derived[t].state = "ready" /\ derived[t].content = parent[t] /\ parent'[t] = parent[t]
             => derived'[t] = derived[t]]_vars
=============================================================================
