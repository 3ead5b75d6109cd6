--------------------------- MODULE IngressDelivery ---------------------------
(***************************************************************************)
(* The live ingress delivery lane: JetStream WorkQueue -> shadow_worker     *)
(* handlers -> canonical SQLite state DB -> DeliveryExecutor -> CouchDB     *)
(* source store, with the operator's drain-deliveries command beside it.    *)
(*                                                                         *)
(* A handler is one delivery of one message, <<m, n>> with n the broker's   *)
(* num_delivered; run_consume gives each its own lease owner.  Handlers of  *)
(* one message overlap when the broker's ack wait passes while one is       *)
(* still working.  Every action below is one transaction, one remote call   *)
(* or one broker call; a handler can die between any two of them.           *)
(***************************************************************************)
EXTENDS DeliveryJobs

CONSTANTS
    Keys, Hashes,       \* idempotency keys and content hashes
    NoHash,             \* no command row
    NoPayload,          \* no delivery_payloads row
    Msgs,               \* messages in the stream
    Wire,               \* Wire[m]: what the bytes of m decode to
    Drains,             \* drain-deliveries runs
    DrainOwner,         \* their common default lease owner, m8_drain
    MaxDeliver,         \* the consumer's and run_consume's max_deliver
    WorkerMaxAttempts,  \* max_attempts process_payload passes
    DrainMaxAttempts,   \* max_attempts of a drain
    Outcomes,           \* what the backend's submit may do
    Faults              \* the environment faults a run explores

\* A decoded message.  The ingress API publishes flat jobs; a nested one is
\* a direct enqueue payload.  "unredacted": conservative redaction would
\* change it; "invalid": validate_ingress_payload raises; "undecodable":
\* not JSON.
Wires == [key : Keys, hash : Hashes, shape : {"flat", "nested"},
          class : {"ok", "unredacted", "invalid", "undecodable"}]

AllOutcomes == {"succeeded", "uncertain", "failed_retryable", "quarantined", "raises"}

\* A handler dies; it outlasts the broker's ack wait, or its own lease; a
\* transaction or a broker call raises.
AllFaults == {"crash", "ack_wait", "slow", "error"}

ASSUME IngressAssumption ==
    /\ Wire \in [Msgs -> Wires]
    /\ Keys # {} /\ NoHash \notin Hashes /\ NoPayload \notin Wires
    /\ MaxDeliver \in Nat \ {0}
    /\ WorkerMaxAttempts \in Nat \ {0}
    /\ DrainMaxAttempts \in Nat \ {0}
    /\ Outcomes \subseteq AllOutcomes
    /\ Faults \subseteq AllFaults

Handlers == Msgs \X (1 .. MaxDeliver)

ASSUME DriverAssumption ==
    /\ Drains \cap Handlers = {}
    /\ DrainOwner \notin Handlers
    /\ NoOwner \notin Handlers \cup {DrainOwner}

Drivers == Handlers \cup Drains

Owners == Handlers \cup {DrainOwner}

\* handle_msg: a distinct owner per handler; drain_pending_deliveries: one
\* default for every run.
OwnerOf(d) == IF d \in Drains THEN DrainOwner ELSE d

MaxAttemptsOf(d) == IF d \in Drains THEN DrainMaxAttempts ELSE WorkerMaxAttempts

VARIABLES
    queue,      \* queue[m]: "available", "inflight" or "removed"
    delivered,  \* delivered[m]: num_delivered so far
    inbox,      \* keys with an inbox_events row
    command,    \* command[k]: payload_hash of the command (and of its job)
    job,        \* job[k]: the delivery_jobs row
    payload,    \* payload[k]: the retained delivery payload
    log,        \* log[k]: status of the shadow_ingest_log row
    poison,     \* messages with a poison:<seq> row
    stored,     \* <<k, h>> whose source documents the backend has written
    pc,         \* pc[d]: where driver d stands
    target,     \* target[d]: the key driver d executes
    todo,       \* todo[d]: jobs a drain selected and has not executed yet
    receipt,    \* receipt[d]: status of the execution receipt, or evidence
    seen        \* who holds the updated_at of the key's current row: the
                \* handlers in _record_poison that read it, and the messages
                \* whose nak delay was computed from it

brokerVars == <<queue, delivered>>
acceptVars == <<inbox, command, payload>>
jobVars == <<job, seen>>
logVars == <<log, poison>>
localVars == <<target, todo, receipt>>
vars == <<queue, delivered, inbox, command, job, payload, log, poison,
          stored, pc, target, todo, receipt, seen>>

-----------------------------------------------------------------------------
Labels == {"idle", "start", "inbox", "consume", "payload_new", "payload_gap",
           "received", "exec", "claim", "rejected", "mark", "submit",
           "complete", "settle", "ack", "poison", "quarantine",
           "poison_link", "poison_log", "next", "done"}

LogStatuses == {"none", "received", "delivered",
                "quarantined_wire_redaction", "quarantined_delivery",
                "quarantined_max_deliver"}

Receipts == AllOutcomes \cup Statuses
            \cup {"none", "claim_rejected", "stale_owner_rejected"}

TypeOK ==
    /\ queue \in [Msgs -> {"available", "inflight", "removed"}]
    /\ delivered \in [Msgs -> 0 .. MaxDeliver]
    /\ inbox \subseteq Keys
    /\ command \in [Keys -> Hashes \cup {NoHash}]
    /\ job \in [Keys -> Rows(Owners)]
    /\ payload \in [Keys -> Wires \cup {NoPayload}]
    /\ log \in [Keys -> LogStatuses]
    /\ poison \subseteq Msgs
    /\ stored \subseteq Keys \X Hashes
    /\ pc \in [Drivers -> Labels]
    /\ target \in [Drivers -> Keys]
    /\ todo \in [Drains -> SUBSET Keys]
    /\ receipt \in [Drivers -> Receipts]
    /\ seen \subseteq Handlers \cup Msgs

Init ==
    /\ queue = [m \in Msgs |-> "available"]
    /\ delivered = [m \in Msgs |-> 0]
    /\ inbox = {}
    /\ command = [k \in Keys |-> NoHash]
    /\ job = [k \in Keys |-> AbsentJob]
    /\ payload = [k \in Keys |-> NoPayload]
    /\ log = [k \in Keys |-> "none"]
    /\ poison = {}
    /\ stored = {}
    /\ pc = [d \in Drivers |-> "idle"]
    /\ target = [d \in Drivers |->
                    IF d \in Handlers THEN Wire[d[1]].key ELSE CHOOSE k \in Keys : TRUE]
    /\ todo = [d \in Drains |-> {}]
    /\ receipt = [d \in Drivers |-> "none"]
    /\ seen = {}

-----------------------------------------------------------------------------
Goto(d, label) == pc' = [pc EXCEPT ![d] = label]

Msg(d) == d[1]

Row(d) == job[target[d]]

\* The key whose row a member of seen has read.
KeyRead(r) == IF r \in Msgs THEN Wire[r].key ELSE target[r]

\* A write stamps updated_at, so earlier readers hold a stale one.  A drain
\* stamps its selection time, which a row it rewrites may carry already.
SetRow(d, row) ==
    /\ job' = [job EXCEPT ![target[d]] = row]
    /\ \/ seen' = {r \in seen : KeyRead(r) # target[d]}
       \/ d \in Drains /\ UNCHANGED seen

\* normalize_ingest_job_payload: a flat job becomes a nested payload.
Normalized(wire) == [wire EXCEPT !.shape = "nested"]

-----------------------------------------------------------------------------
(* The broker (JetStream pull consumer, explicit ack): external.            *)

\* The delay of a deferral's nak runs to the deadline that process_payload
\* read, so it cannot have passed while that very row still waits for it.
Delayed(m) == m \in seen /\ DeferDeadline(job[Wire[m].key]) = "future"

Deliver(m) ==
    /\ queue[m] = "available"
    /\ delivered[m] < MaxDeliver
    /\ ~Delayed(m)
    /\ queue' = [queue EXCEPT ![m] = "inflight"]
    /\ delivered' = [delivered EXCEPT ![m] = @ + 1]
    /\ seen' = seen \ {m}
    /\ Goto(<<m, delivered[m] + 1>>, "start")
    /\ UNCHANGED <<acceptVars, job, logVars, stored, localVars>>

\* The ack wait passes: the handler is slow, or died.
AckWait(m) ==
    /\ queue[m] = "inflight"
    /\ "ack_wait" \in Faults \/ pc[<<m, delivered[m]>>] = "done"
    /\ queue' = [queue EXCEPT ![m] = "available"]
    /\ UNCHANGED <<delivered, acceptVars, jobVars, logVars, stored, pc, localVars>>

Nak(m) == queue' = [queue EXCEPT ![m] = IF @ = "inflight" THEN "available" ELSE @]

-----------------------------------------------------------------------------
(* How a driver ends on an exception.                                       *)

\* A drain command ends; handle_msg naks, or goes on to _record_poison when
\* this was the last delivery.
Raise(d) ==
    CASE d \in Drains -> Goto(d, "done") /\ UNCHANGED queue
      [] d \in Handlers /\ d[2] < MaxDeliver -> Goto(d, "done") /\ Nak(Msg(d))
      [] OTHER -> Goto(d, "poison") /\ UNCHANGED queue

\* An exception of _record_poison: nak with a delay, no ack.
Unrecorded(d) == Goto(d, "done") /\ Nak(Msg(d))

-----------------------------------------------------------------------------
(* process_payload: acceptance into the canonical state DB.                 *)

\* A message that json.loads, normalisation or validation refuses, or that
\* the wire redaction gate quarantines without touching the canonical state.
Refuse(d) ==
    LET class == Wire[Msg(d)].class IN
    /\ pc[d] = "start"
    /\ \/ class \in {"invalid", "undecodable"} /\ Raise(d) /\ UNCHANGED log
       \/ /\ class = "unredacted"
          /\ log' = [log EXCEPT ![target[d]] = "quarantined_wire_redaction"]
          /\ Goto(d, "ack") /\ UNCHANGED queue
    /\ UNCHANGED <<delivered, acceptVars, jobVars, poison, stored, localVars>>

\* Faulty: an existing command is taken for a re-sync without its hash.
LookupByKey(d) ==
    /\ pc[d] = "start" /\ Wire[Msg(d)].class = "ok"
    /\ Goto(d, IF command[target[d]] = NoHash THEN "inbox" ELSE "payload_gap")
    /\ UNCHANGED <<brokerVars, acceptVars, jobVars, logVars, stored, localVars>>

\* _apply_one, the read of the commands row.
Lookup(d) ==
    LET k == target[d] IN
    /\ pc[d] = "start" /\ Wire[Msg(d)].class = "ok"
    /\ \/ command[k] = NoHash /\ Goto(d, "inbox") /\ UNCHANGED queue
       \/ command[k] = Wire[Msg(d)].hash /\ Goto(d, "payload_gap") /\ UNCHANGED queue
       \/ command[k] \notin {NoHash, Wire[Msg(d)].hash} /\ Raise(d)
    /\ UNCHANGED <<delivered, acceptVars, jobVars, logVars, stored, localVars>>

\* record_inbox_shadow: event_id is derived from the key, so a second row for
\* the key violates the primary key whatever classify_idempotency decided.
RecordInbox(d) ==
    LET k == target[d] IN
    /\ pc[d] = "inbox"
    /\ \/ k \in inbox /\ Raise(d) /\ UNCHANGED inbox
       \/ k \notin inbox /\ inbox' = inbox \cup {k} /\ Goto(d, "consume") /\ UNCHANGED queue
    /\ UNCHANGED <<delivered, command, payload, jobVars, logVars, stored, localVars>>

\* consume_inbox_with_command: command, result, domain record and job commit
\* together; a command that exists already violates its unique key.
ConsumeInbox(d) ==
    LET k == target[d] IN
    /\ pc[d] = "consume"
    /\ IF command[k] = NoHash
       THEN /\ command' = [command EXCEPT ![k] = Wire[Msg(d)].hash]
            /\ SetRow(d, NewJob)
            /\ Goto(d, "payload_new") /\ UNCHANGED queue
       ELSE Raise(d) /\ UNCHANGED <<command, jobVars>>
    /\ UNCHANGED <<delivered, inbox, payload, logVars, stored, localVars>>

\* Faulty: no gap filling, only the handler that made the command retains it.
RecordPayloadOfNew(d) ==
    LET k == target[d] IN
    /\ pc[d] \in {"payload_new", "payload_gap"}
    /\ payload' = IF pc[d] = "payload_new"
                  THEN [payload EXCEPT ![k] = Normalized(Wire[Msg(d)])] ELSE payload
    /\ Goto(d, IF pc[d] = "payload_new" THEN "received" ELSE "exec")
    /\ UNCHANGED <<brokerVars, inbox, command, jobVars, logVars, stored, localVars>>

\* record_delivery_payload, for a new command or to fill the gap of an old one.
RecordPayload(d) ==
    LET k == target[d]
        wire == Normalized(Wire[Msg(d)])
    IN
    /\ pc[d] \in {"payload_new", "payload_gap"}
    /\ IF payload[k] # NoPayload /\ payload[k].hash # wire.hash
       THEN Raise(d) /\ UNCHANGED payload
       ELSE /\ payload' = [payload EXCEPT ![k] = IF @ = NoPayload THEN wire ELSE @]
            /\ Goto(d, IF pc[d] = "payload_new" THEN "received" ELSE "exec")
            /\ UNCHANGED queue
    /\ UNCHANGED <<delivered, inbox, command, jobVars, logVars, stored, localVars>>

\* store.record(status="received"), only for a payload that was not present.
LogReceived(d) ==
    /\ pc[d] = "received"
    /\ log' = [log EXCEPT ![target[d]] = "received"]
    /\ Goto(d, "exec")
    /\ UNCHANGED <<brokerVars, acceptVars, jobVars, poison, stored, localVars>>

-----------------------------------------------------------------------------
(* DeliveryExecutor.execute_once_with_receipt, run by handlers and drains.  *)

\* A drain passes its selection time as now to every transaction: a deadline
\* reached since then still looks ahead of it, and one it writes may already
\* be reached.
Looks(d, deadline) ==
    IF d \in Drains /\ deadline = "past" THEN {"past", "future"} ELSE {deadline}

RowAsSeen(d) ==
    {[Row(d) EXCEPT !.lease_until = t[1], !.next_retry_at = t[2]] :
        t \in Looks(d, Row(d).lease_until) \X Looks(d, Row(d).next_retry_at)}

NewDeadline(d) == IF d \in Drains THEN {"future", "past"} ELSE {"future"}

Return(d, status) ==
    /\ receipt' = [receipt EXCEPT ![d] = IF d \in Drains THEN "none" ELSE status]
    /\ Goto(d, IF d \in Drains THEN "next" ELSE "settle")

Execute(d) ==
    /\ pc[d] = "exec"
    /\ \/ Row(d).status \in Terminal /\ Return(d, Row(d).status)
       \/ Row(d).status \notin Terminal /\ Goto(d, "claim") /\ UNCHANGED receipt
    /\ UNCHANGED <<brokerVars, acceptVars, jobVars, logVars, stored, target, todo>>

Claim(d) ==
    /\ pc[d] = "claim"
    /\ \E row \in RowAsSeen(d) :
         \/ /\ ~Claimable(row, OwnerOf(d))
            /\ Goto(d, "rejected") /\ UNCHANGED jobVars
         \/ /\ Claimable(row, OwnerOf(d))
            /\ row.attempt_count >= MaxAttemptsOf(d)
            /\ SetRow(d, AttemptLimit(Row(d))) /\ Goto(d, "rejected")
         \/ /\ Claimable(row, OwnerOf(d))
            /\ row.attempt_count < MaxAttemptsOf(d)
            /\ \E until \in NewDeadline(d) :
                  SetRow(d, Claimed(Row(d), OwnerOf(d), until))
            /\ Goto(d, "mark")
    /\ UNCHANGED <<brokerVars, acceptVars, logVars, stored, localVars>>

\* The read after a refused claim.
ClaimRejected(d) ==
    /\ pc[d] = "rejected"
    /\ Return(d, IF Row(d).status = "quarantined" THEN "quarantined" ELSE "claim_rejected")
    /\ UNCHANGED <<brokerVars, acceptVars, jobVars, logVars, stored, target, todo>>

MarkExecuting(d) ==
    /\ pc[d] = "mark"
    /\ \E row \in RowAsSeen(d) :
         \/ /\ OwnsLease(row, OwnerOf(d))
            /\ SetRow(d, Executing(Row(d))) /\ Goto(d, "submit") /\ UNCHANGED receipt
         \/ /\ ~OwnsLease(row, OwnerOf(d))
            /\ Return(d, "stale_owner_rejected") /\ UNCHANGED jobVars
    /\ UNCHANGED <<brokerVars, acceptVars, logVars, stored, target, todo>>

\* What backend.submit may answer: the payload gate first, then the store.
SubmitOutcomes(d) ==
    LET k == target[d]
    IN  IF payload[k] = NoPayload \/ payload[k].hash # command[k]
        THEN {"quarantined"} ELSE Outcomes

\* backend.submit: a success has written the documents; a refusal, a failure
\* or an uncertain outcome may have.
Submit(d) ==
    LET k == target[d] IN
    /\ pc[d] = "submit"
    /\ \E outcome \in SubmitOutcomes(d) :
         /\ \/ payload[k] # NoPayload /\ stored' = stored \cup {<<k, command[k]>>}
            \/ outcome # "succeeded" /\ UNCHANGED stored
         /\ IF outcome = "raises"
            THEN Raise(d) /\ UNCHANGED receipt
            ELSE /\ receipt' = [receipt EXCEPT ![d] = outcome]
                 /\ Goto(d, "complete") /\ UNCHANGED queue
    /\ UNCHANGED <<delivered, acceptVars, jobVars, logVars, target, todo>>

\* Faulty: an uncertain outcome counts as delivered.
OutcomeOptimistic(d, retry) ==
    IF receipt[d] = "failed_retryable"
    THEN FailedRetryableAttempt(Row(d), MaxAttemptsOf(d), retry)
    ELSE Completed(Row(d), IF receipt[d] = "uncertain" THEN "succeeded" ELSE receipt[d])

\* Faulty: the evidence status is stored as it is.
OutcomeVerbatim(d, retry) == Completed(Row(d), receipt[d])

\* The row the executor writes for the evidence of its submit.
Outcome(d, retry) ==
    CASE receipt[d] = "uncertain" -> ReplayableAttempt(Row(d), MaxAttemptsOf(d), retry)
      [] receipt[d] = "failed_retryable" ->
            FailedRetryableAttempt(Row(d), MaxAttemptsOf(d), retry)
      [] OTHER -> Completed(Row(d), receipt[d])

\* Faulty: the result of the fenced completion is ignored.
CompleteUnchecked(d) ==
    /\ pc[d] = "complete"
    /\ \E retry \in NewDeadline(d) :
         /\ IF OwnsLease(Row(d), OwnerOf(d))
            THEN SetRow(d, Outcome(d, retry)) ELSE UNCHANGED jobVars
         /\ Return(d, Outcome(d, retry).status)
    /\ UNCHANGED <<brokerVars, acceptVars, logVars, stored, target, todo>>

\* The fenced transaction that records the outcome.
Complete(d) ==
    /\ pc[d] = "complete"
    /\ \E row \in RowAsSeen(d) :
         \/ /\ OwnsLease(row, OwnerOf(d))
            /\ \E retry \in NewDeadline(d) :
                  SetRow(d, Outcome(d, retry)) /\ Return(d, Outcome(d, retry).status)
         \/ /\ ~OwnsLease(row, OwnerOf(d))
            /\ Return(d, "stale_owner_rejected") /\ UNCHANGED jobVars
    /\ UNCHANGED <<brokerVars, acceptVars, logVars, stored, target, todo>>

-----------------------------------------------------------------------------
(* The end of process_payload and handle_msg.                               *)

\* A terminal receipt is logged.
LogOutcome(d) ==
    /\ pc[d] = "settle" /\ receipt[d] \in Terminal
    /\ log' = [log EXCEPT ![target[d]] =
                  IF receipt[d] = "succeeded" THEN "delivered" ELSE "quarantined_delivery"]
    /\ receipt' = [receipt EXCEPT ![d] = "none"]
    /\ Goto(d, "ack")
    /\ UNCHANGED <<brokerVars, acceptVars, jobVars, poison, stored, target, todo>>

\* Faulty: a deferred message is acked, as if the job table would retry it.
DeferByAck(d) ==
    /\ pc[d] = "settle" /\ receipt[d] \notin Terminal
    /\ Goto(d, "ack")
    /\ receipt' = [receipt EXCEPT ![d] = "none"]
    /\ UNCHANGED <<brokerVars, acceptVars, jobVars, logVars, stored, target, todo>>

\* Any other receipt: DeliveryDeferred to the deadline in the row, which
\* handle_msg naks on every delivery, or RuntimeError when there is none.
Defer(d) ==
    /\ pc[d] = "settle" /\ receipt[d] \notin Terminal
    /\ \/ /\ DeferDeadline(Row(d)) # "none"
          /\ seen' = seen \cup {Msg(d)}
          /\ Nak(Msg(d)) /\ Goto(d, "done")
       \/ DeferDeadline(Row(d)) = "none" /\ Raise(d) /\ UNCHANGED seen
    /\ receipt' = [receipt EXCEPT ![d] = "none"]
    /\ UNCHANGED <<delivered, acceptVars, job, logVars, stored, target, todo>>

Ack(d) ==
    /\ pc[d] = "ack"
    /\ queue' = [queue EXCEPT ![Msg(d)] = "removed"]
    /\ Goto(d, "done")
    /\ UNCHANGED <<delivered, acceptVars, jobVars, logVars, stored, localVars>>

-----------------------------------------------------------------------------
(* _record_poison.                                                          *)

PoisonRead(d) ==
    LET k == target[d]
        wire == Wire[Msg(d)]
        unknown == wire.class = "undecodable" \/ job[k].status = "absent"
    IN
    /\ pc[d] = "poison"
    /\ \/ unknown /\ Goto(d, "poison_log") /\ UNCHANGED <<queue, seen>>
       \/ ~unknown /\ payload[k] # wire /\ Unrecorded(d) /\ UNCHANGED seen
       \/ /\ ~unknown /\ payload[k] = wire
          /\ seen' = seen \cup {d}
          /\ Goto(d, "quarantine") /\ UNCHANGED queue
    /\ UNCHANGED <<delivered, acceptVars, job, logVars, stored, localVars>>

\* quarantine_transport_delivery: an unleased row in the version read.
QuarantineTransport(d) ==
    LET fenced == d \notin seen \/ LeaseLive(Row(d)) IN
    /\ pc[d] = "quarantine"
    /\ \/ Row(d).status \in Terminal /\ Goto(d, "poison_link") /\ UNCHANGED <<queue, jobVars>>
       \/ /\ Row(d).status \notin Terminal /\ fenced
          /\ Unrecorded(d) /\ UNCHANGED jobVars
       \/ /\ Row(d).status \notin Terminal /\ ~fenced
          /\ SetRow(d, TransportQuarantined(Row(d)))
          /\ Goto(d, "poison_link") /\ UNCHANGED queue
    /\ UNCHANGED <<delivered, acceptVars, logVars, stored, localVars>>

\* The job must now be terminal; a quarantined one is named in the log.
PoisonLink(d) ==
    /\ pc[d] = "poison_link"
    /\ IF Row(d).status \in Terminal
       THEN Goto(d, "poison_log") /\ UNCHANGED queue
       ELSE Unrecorded(d)
    /\ log' = IF Row(d).status = "quarantined"
              THEN [log EXCEPT ![target[d]] = "quarantined_max_deliver"] ELSE log
    /\ UNCHANGED <<delivered, acceptVars, jobVars, poison, stored, localVars>>

PoisonLog(d) ==
    /\ pc[d] = "poison_log"
    /\ poison' = poison \cup {Msg(d)}
    /\ Goto(d, "ack")
    /\ UNCHANGED <<brokerVars, acceptVars, jobVars, log, stored, localVars>>

-----------------------------------------------------------------------------
(* drain_pending_deliveries.                                                *)

Drainable(row) ==
    /\ row.status \in {"replayable", "failed_retryable", "pending"}
    /\ row.next_retry_at # "future"

\* The selection; limit may cut it.
DrainSelect(d) ==
    /\ pc[d] = "idle"
    /\ \E selected \in SUBSET {k \in Keys : Drainable(job[k])} :
         todo' = [todo EXCEPT ![d] = selected]
    /\ Goto(d, "next")
    /\ UNCHANGED <<brokerVars, acceptVars, jobVars, logVars, stored, target, receipt>>

DrainNext(d) ==
    /\ pc[d] = "next"
    /\ \E k \in todo[d] :
         /\ target' = [target EXCEPT ![d] = k]
         /\ todo' = [todo EXCEPT ![d] = @ \ {k}]
    /\ Goto(d, "exec")
    /\ UNCHANGED <<brokerVars, acceptVars, jobVars, logVars, stored, receipt>>

\* The selection is done, or max_runtime_seconds are over.
DrainFinish(d) ==
    /\ pc[d] = "next"
    /\ Goto(d, "done")
    /\ UNCHANGED <<brokerVars, acceptVars, jobVars, logVars, stored, localVars>>

-----------------------------------------------------------------------------
(* The environment: the clock, failing transactions, dying processes.       *)

\* A lease runs out behind a dead holder, or under one that is too slow.
LeaseExpires(k) ==
    /\ job[k].lease_until = "future"
    /\ \/ "slow" \in Faults
       \/ \A d \in Drivers : OwnerOf(d) = job[k].lease_owner => pc[d] = "done"
    /\ job' = [job EXCEPT ![k] = LeaseReached(@)]
    /\ UNCHANGED <<brokerVars, acceptVars, logVars, stored, pc, localVars, seen>>

RetryDue(k) ==
    /\ job[k].next_retry_at = "future"
    /\ job' = [job EXCEPT ![k] = RetryReached(@)]
    /\ UNCHANGED <<brokerVars, acceptVars, logVars, stored, pc, localVars, seen>>

\* A transaction, read or broker call raises and leaves nothing behind.
Fail(d) ==
    /\ "error" \in Faults
    /\ \/ pc[d] \in {"start", "inbox", "consume", "payload_new", "payload_gap",
                     "received", "exec", "claim", "rejected", "mark", "complete",
                     "settle", "ack"} /\ Raise(d)
       \/ /\ d \in Handlers /\ pc[d] \in {"poison", "quarantine", "poison_link", "poison_log"}
          /\ Unrecorded(d)
    /\ receipt' = [receipt EXCEPT ![d] = "none"]
    /\ UNCHANGED <<delivered, acceptVars, jobVars, logVars, stored, target, todo>>

Crash(d) ==
    /\ "crash" \in Faults
    /\ pc[d] \notin {"idle", "done"}
    /\ Goto(d, "done")
    /\ receipt' = [receipt EXCEPT ![d] = "none"]
    /\ UNCHANGED <<brokerVars, acceptVars, jobVars, logVars, stored, target, todo>>

-----------------------------------------------------------------------------
Accepting(d) ==
    \/ Refuse(d) \/ Lookup(d) \/ RecordInbox(d) \/ ConsumeInbox(d)
    \/ RecordPayload(d) \/ LogReceived(d)

Delivering(d) ==
    \/ Execute(d) \/ Claim(d) \/ ClaimRejected(d) \/ MarkExecuting(d)
    \/ Submit(d) \/ Complete(d)

Finishing(d) ==
    \/ LogOutcome(d) \/ Defer(d) \/ Ack(d) \/ PoisonRead(d)
    \/ QuarantineTransport(d) \/ PoisonLink(d) \/ PoisonLog(d)

HandlerStep(d) == Accepting(d) \/ Delivering(d) \/ Finishing(d)

DrainStep(d) == DrainSelect(d) \/ DrainNext(d) \/ DrainFinish(d) \/ Delivering(d)

Next ==
    \/ \E m \in Msgs : Deliver(m) \/ AckWait(m)
    \/ \E d \in Handlers : HandlerStep(d)
    \/ \E d \in Drains : DrainStep(d)
    \/ \E k \in Keys : LeaseExpires(k) \/ RetryDue(k)
    \/ \E d \in Drivers : Fail(d) \/ Crash(d)

Spec == Init /\ [][Next]_vars

\* Handlers run, the broker redelivers and the clock moves; no operator has
\* to start a drain.
FairSpec ==
    /\ Spec
    /\ \A d \in Handlers : WF_vars(HandlerStep(d))
    /\ \A m \in Msgs : WF_vars(Deliver(m)) /\ WF_vars(AckWait(m))
    /\ \A k \in Keys : WF_vars(LeaseExpires(k) \/ RetryDue(k))

-----------------------------------------------------------------------------
(* Safety.                                                                  *)

\* A succeeded job's payload is in the source store, whatever handlers,
\* drains, lease expiries and crashes came between the write and the row.
SucceededIsStored ==
    \A k \in Keys : job[k].status = "succeeded" => <<k, command[k]>> \in stored

\* The observer log reports a delivery only for a job that succeeded.
LoggedDeliveryIsCanonical ==
    \A k \in Keys : log[k] = "delivered" => job[k].status = "succeeded"

\* A message leaves the WorkQueue only behind durable evidence: its own job
\* is terminal, or a poison row names it ("Durable terminal evidence must
\* precede removal"), or it was refused at the wire redaction gate.
RemovedIsSettled ==
    \A m \in Msgs :
        queue[m] = "removed" /\ Wire[m].class # "unredacted" =>
            \/ m \in poison
            \/ /\ job[Wire[m].key].status \in Terminal
               /\ command[Wire[m].key] = Wire[m].hash

\* A retained payload is the one the key's command was accepted with.
RetainedPayloadMatches ==
    \A k \in Keys :
        payload[k] # NoPayload => payload[k].key = k /\ payload[k].hash = command[k]

\* No job is quarantined before its payload is retained for a later replay.
QuarantineKeepsPayload ==
    \A k \in Keys : job[k].status = "quarantined" => payload[k] # NoPayload

\* A job has at most as many attempts as the worker allows, and a job that
\* has them all is quarantined.
AttemptBudget ==
    \A k \in Keys :
        /\ job[k].attempt_count <= WorkerMaxAttempts
        /\ job[k].attempt_count = WorkerMaxAttempts => job[k].status = "quarantined"

-----------------------------------------------------------------------------
(* Action properties.                                                       *)

\* succeeded and quarantined are final.
TerminalIsFinal ==
    [][\A k \in Keys :
          job[k].status \in Terminal => job'[k].status = job[k].status]_vars

\* While a lease is live nobody but a driver that owns it changes the row.
LiveLeaseIsRespected ==
    [][\A k \in Keys :
          LeaseLive(job[k]) /\ job'[k] # job[k] /\ job'[k] # LeaseReached(job[k])
              /\ job'[k] # RetryReached(job[k]) =>
              \E d \in Drivers :
                  OwnerOf(d) = job[k].lease_owner /\ pc'[d] # pc[d]]_vars

\* An attempt or transport cap never hides that an earlier attempt may have
\* reached the store.  Without drains: a drain's lower cap does hide it.
UncertaintyStaysVisible ==
    [][\A k \in Keys :
          /\ job[k].last_error_class = "remote_outcome_uncertain"
          /\ job'[k].last_error_class # job[k].last_error_class
          => job'[k].last_error_class \notin {"lease_attempt_limit", "transport_max_deliver"}
      ]_vars

-----------------------------------------------------------------------------
(* The lane implements its promise.                                         *)

\* Messages that owe no canonical fate: poisoned, or refused at the
\* wire gate.
Excused == poison \cup {m \in Msgs : Wire[m].class = "unredacted"}

Fate == [k \in Keys |-> IF job[k].status \in Terminal THEN job[k].status ELSE "open"]

Gone == {m \in Msgs : queue[m] = "removed"}

Promise == INSTANCE DeliveryPromise WITH
    KeyOf <- [m \in Msgs |-> Wire[m].key],
    HashOf <- [m \in Msgs |-> Wire[m].hash],
    content <- command, fate <- Fate, stored <- stored, excused <- Excused,
    gone <- Gone

\* Handlers, retries, lease takeovers, crashes and drains together behave
\* like DeliveryPromise: one content per key, success only behind a stored
\* document, a final fate, and removal only behind a fate or an excuse.
KeepsPromise == Promise!Spec

-----------------------------------------------------------------------------
(* Liveness.                                                                *)

\* When handlers keep up with the ack wait and their leases, every message
\* is settled within its delivery budget: each delivery spends one attempt,
\* and the last one quarantines.
EveryMessageSettles == \A m \in Msgs : <>(queue[m] = "removed")

=============================================================================
