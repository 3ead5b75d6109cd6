------------------------ MODULE IngressDeliveryProofs ------------------------
(***************************************************************************)
(* Proofs about IngressDelivery for every set of keys, hashes, messages    *)
(* and drains and every cap: the type invariant, the safety invariants,    *)
(* the finality of a job's fate and the refinement of DeliveryPromise.     *)
(*                                                                         *)
(* The inductive invariant Inv speaks of the tables (DataInv), of where    *)
(* each driver stands (DriverInv) and of the queue and the log (QueueInv). *)
(* What one driver writes never falsifies what another relies on, because  *)
(* the tables only grow: Monotone is that rely condition.                  *)
(***************************************************************************)
EXTENDS IngressDelivery, TLAPS

-----------------------------------------------------------------------------
(* The inductive invariant.                                                 *)

\* Command and job are created together; a row has an owner exactly while it
\* is claimed or executing.
JobInv(k) ==
    /\ command[k] = NoHash <=> job[k].status = "absent"
    /\ IF job[k].status \in {"claimed", "executing"}
       THEN job[k].lease_owner # NoOwner
       ELSE job[k].lease_owner = NoOwner /\ job[k].lease_until = "none"

DataInv ==
    /\ \A k \in Keys : JobInv(k)
    /\ RetainedPayloadMatches
    /\ SucceededIsStored

\* Labels of a driver whose key has a command.
Working == {"payload_new", "payload_gap", "received", "exec", "claim",
            "rejected", "mark", "submit", "complete", "settle"}

\* Message m is excused, or the job of its content has its fate.
Settled(m) ==
    \/ m \in Excused
    \/ job[Wire[m].key].status \in Terminal /\ command[Wire[m].key] = Wire[m].hash

\* A handler works on its message's key, once accepted with its message's
\* content; a terminal receipt is the job's fate; the transport quarantine is
\* the one of the message's own payload; an ack is due to a settled message.
HandlerInv(d) ==
    /\ target[d] = Wire[d[1]].key
    /\ pc[d] \in Working => command[target[d]] = Wire[d[1]].hash
    /\ pc[d] = "settle" /\ receipt[d] \in Terminal => job[target[d]].status = receipt[d]
    /\ pc[d] \in {"quarantine", "poison_link"} => payload[target[d]] = Wire[d[1]]
    /\ pc[d] = "ack" => Settled(d[1])

\* A drain works on jobs that exist.
DrainInv(d) ==
    /\ \A k \in todo[d] : command[k] # NoHash
    /\ pc[d] \in Working => command[target[d]] # NoHash

\* Evidence of success that was not recorded yet is true.
EvidenceInv(d) ==
    pc[d] = "complete" =>
        /\ receipt[d] \in {"succeeded", "uncertain", "failed_retryable", "quarantined"}
        /\ receipt[d] = "succeeded" => <<target[d], command[target[d]]>> \in stored

DriverInv(d) ==
    /\ d \in Handlers => HandlerInv(d)
    /\ d \in Drains => DrainInv(d)
    /\ EvidenceInv(d)

\* A removed message is settled, and the log claims no delivery that is not.
QueueInv ==
    /\ \A m \in Msgs : queue[m] = "removed" => Settled(m)
    /\ LoggedDeliveryIsCanonical

Inv == TypeOK /\ DataInv /\ (\A d \in Drivers : DriverInv(d)) /\ QueueInv

\* What every step leaves to the other drivers.
Monotone ==
    /\ \A k \in Keys :
        /\ command[k] # NoHash => command'[k] = command[k]
        /\ payload[k] # NoPayload => payload'[k] = payload[k]
        /\ job[k].status \in Terminal => job'[k].status = job[k].status
    /\ stored \subseteq stored'
    /\ poison \subseteq poison'

-----------------------------------------------------------------------------
(* What the row transactions write.                                         *)

\* A claim names its owner; a driver that goes on to execute keeps it
\* (claim_delivery_job, mark_delivery_executing).
LEMMA ClaimRows ==
    ASSUME NEW row \in Rows(Owners), NEW owner \in Owners, NEW until \in {"future", "past"}
    PROVE  /\ Claimed(row, owner, until) \in Rows(Owners)
           /\ Claimed(row, owner, until).status = "claimed"
           /\ Claimed(row, owner, until).lease_owner = owner
           /\ Executing(row) \in Rows(Owners)
           /\ Executing(row).status = "executing"
           /\ Executing(row).lease_owner = row.lease_owner
BY Zenon DEF Rows, Statuses, Deadlines, Claimed, Executing

\* A row transaction on a typed row writes a typed row, and a row it releases
\* has neither owner nor deadline (the delivery_jobs transactions).
LEMMA RowTransactions ==
    ASSUME NEW row \in Rows(Owners), NEW until \in {"future", "past"}, NEW max \in Nat
    PROVE  /\ \A new \in {AttemptLimit(row), TransportQuarantined(row),
                          Completed(row, "succeeded"), Completed(row, "quarantined"),
                          ReplayableAttempt(row, max, until),
                          FailedRetryableAttempt(row, max, until)} :
                 /\ new \in Rows(Owners)
                 /\ new.lease_owner = NoOwner /\ new.lease_until = "none"
           /\ AttemptLimit(row).status = "quarantined"
           /\ TransportQuarantined(row).status = "quarantined"
           /\ Completed(row, "succeeded").status = "succeeded"
           /\ Completed(row, "quarantined").status = "quarantined"
           /\ ReplayableAttempt(row, max, until).status \in {"replayable", "quarantined"}
           /\ FailedRetryableAttempt(row, max, until).status
                 \in {"failed_retryable", "quarantined"}
<1> USE DEF Rows, Statuses, Deadlines, ErrorClasses
<1>1. Unleased(row) \in Rows(Owners) /\ Unleased(row).lease_owner = NoOwner
        /\ Unleased(row).lease_until = "none"
        /\ Unleased(row).attempt_count = row.attempt_count
        /\ Unleased(row).last_error_class = row.last_error_class
  BY Zenon DEF Unleased
<1>3. /\ AttemptLimit(row) \in Rows(Owners)
      /\ AttemptLimit(row).lease_owner = NoOwner /\ AttemptLimit(row).lease_until = "none"
      /\ AttemptLimit(row).status = "quarantined"
  BY Zenon, <1>1 DEF AttemptLimit
<1>4. /\ TransportQuarantined(row) \in Rows(Owners)
      /\ TransportQuarantined(row).lease_owner = NoOwner
      /\ TransportQuarantined(row).lease_until = "none"
      /\ TransportQuarantined(row).status = "quarantined"
  <2> DEFINE class == IF Unleased(row).last_error_class = "none"
                      THEN "transport_max_deliver" ELSE Unleased(row).last_error_class
  <2>1. class \in ErrorClasses
    BY <1>1, Zenon
  <2>2. TransportQuarantined(row) =
            [Unleased(row) EXCEPT !.status = "quarantined", !.next_retry_at = "none",
                                  !.last_error_class = class]
    BY Zenon DEF TransportQuarantined
  <2> QED
    <3> HIDE DEF class
    <3> QED BY ZenonT(40), <1>1, <2>1, <2>2
<1>5. \A status \in Terminal :
         /\ Completed(row, status) \in Rows(Owners)
         /\ Completed(row, status).lease_owner = NoOwner
         /\ Completed(row, status).lease_until = "none"
         /\ Completed(row, status).status = status
  <2> TAKE status \in Terminal
  <2> DEFINE class == IF status = "succeeded" THEN "none" ELSE "delivery_evidence"
  <2>1. class \in ErrorClasses /\ status \in Statuses
    BY Zenon DEF Terminal
  <2>2. Completed(row, status) =
            [Unleased(row) EXCEPT !.status = status, !.last_error_class = class]
    BY Zenon DEF Completed
  <2> QED
    <3> HIDE DEF class
    <3> QED BY Zenon, <1>1, <2>1, <2>2
<1>6. /\ ReplayableAttempt(row, max, until) \in Rows(Owners)
      /\ ReplayableAttempt(row, max, until).lease_owner = NoOwner
      /\ ReplayableAttempt(row, max, until).lease_until = "none"
      /\ ReplayableAttempt(row, max, until).status \in {"replayable", "quarantined"}
  <2> DEFINE last == row.attempt_count + 1 >= max
             status == IF last THEN "quarantined" ELSE "replayable"
             count == Unleased(row).attempt_count + 1
             retry == IF last THEN "none" ELSE until
             class == IF last /\ row.last_error_class # "none"
                      THEN Unleased(row).last_error_class ELSE "remote_outcome_uncertain"
  <2>1. /\ status \in {"replayable", "quarantined"} /\ retry \in Deadlines
        /\ class \in ErrorClasses
        /\ count \in Nat
    BY <1>1
  <2>2. ReplayableAttempt(row, max, until) =
            [Unleased(row) EXCEPT
                !.status = status, !.attempt_count = count,
                !.next_retry_at = retry, !.last_error_class = class]
    BY Zenon DEF ReplayableAttempt
  <2> QED
    <3>1. status \in Statuses
      BY <2>1, Zenon
    <3> HIDE DEF last, status, retry, class, count, Statuses, Deadlines, ErrorClasses
    <3> QED BY Zenon, <1>1, <2>1, <2>2, <3>1
<1>7. /\ FailedRetryableAttempt(row, max, until) \in Rows(Owners)
      /\ FailedRetryableAttempt(row, max, until).lease_owner = NoOwner
      /\ FailedRetryableAttempt(row, max, until).lease_until = "none"
      /\ FailedRetryableAttempt(row, max, until).status
            \in {"failed_retryable", "quarantined"}
  <2> DEFINE last == row.attempt_count + 1 >= max
             status == IF last THEN "quarantined" ELSE "failed_retryable"
             count == Unleased(row).attempt_count + 1
             retry == IF last THEN "none" ELSE until
             class == "async_parse_failed"
  <2>1. /\ status \in {"failed_retryable", "quarantined"} /\ retry \in Deadlines
        /\ class \in ErrorClasses
        /\ count \in Nat
    BY <1>1
  <2>2. FailedRetryableAttempt(row, max, until) =
            [Unleased(row) EXCEPT
                !.status = status, !.attempt_count = count,
                !.next_retry_at = retry, !.last_error_class = class]
    BY Zenon DEF FailedRetryableAttempt
  <2> QED
    <3>1. status \in Statuses
      BY <2>1, Zenon
    <3> HIDE DEF last, status, retry, class, count, Statuses, Deadlines, ErrorClasses
    <3> QED BY Zenon, <1>1, <2>1, <2>2, <3>1
<1> QED
  BY <1>3, <1>4, <1>5, <1>6, <1>7 DEF Terminal

\* The rows the clock rewrites keep status and owner (_lease_is_live and the
\* retry test of claim_delivery_job read the same row later).
LEMMA ClockRows ==
    ASSUME NEW row \in Rows(Owners)
    PROVE  /\ LeaseReached(row) \in Rows(Owners) /\ RetryReached(row) \in Rows(Owners)
           /\ LeaseReached(row).status = row.status
           /\ RetryReached(row).status = row.status
           /\ LeaseReached(row).lease_owner = row.lease_owner
           /\ RetryReached(row).lease_owner = row.lease_owner
           /\ RetryReached(row).lease_until = row.lease_until
BY Zenon DEF Rows, Deadlines, LeaseReached, RetryReached

\* A drain's older clock changes what deadlines look like, and nothing else.
LEMMA SeenRows ==
    ASSUME TypeOK, NEW d \in Drivers, NEW row \in RowAsSeen(d)
    PROVE  /\ row.status = Row(d).status
           /\ row.lease_owner = Row(d).lease_owner
           /\ row.attempt_count = Row(d).attempt_count
           /\ Row(d).lease_until = "none" => row.lease_until = "none"
<1>1. Row(d) \in Rows(Owners)
  BY Zenon DEF TypeOK, Row
<1>2. PICK t \in Looks(d, Row(d).lease_until) \X Looks(d, Row(d).next_retry_at) :
         row = [Row(d) EXCEPT !.lease_until = t[1], !.next_retry_at = t[2]]
  BY Zenon DEF RowAsSeen
<1>3. Row(d).lease_until = "none" => t[1] = "none"
  BY Zenon DEF Looks
<1>4. /\ row.status = Row(d).status /\ row.lease_owner = Row(d).lease_owner
      /\ row.attempt_count = Row(d).attempt_count /\ row.lease_until = t[1]
  BY <1>1, <1>2, Zenon DEF Rows
<1> QED
  BY <1>3, <1>4, Zenon

\* Owners and caps are what the transactions expect.
LEMMA DriverFacts ==
    ASSUME NEW d \in Drivers
    PROVE  /\ OwnerOf(d) \in Owners /\ OwnerOf(d) # NoOwner
           /\ MaxAttemptsOf(d) \in Nat
           /\ NewDeadline(d) \subseteq {"future", "past"}
           /\ d \in Handlers <=> d \notin Drains
BY IngressAssumption, DriverAssumption, Zenon
   DEF Drivers, Owners, OwnerOf, MaxAttemptsOf, NewDeadline

\* A handler's message and its wire form.
LEMMA HandlerFacts ==
    ASSUME NEW d \in Handlers
    PROVE  /\ d \in Drivers /\ d \notin Drains /\ d[1] \in Msgs
           /\ Wire[d[1]] \in Wires /\ Wire[d[1]].key \in Keys
           /\ Wire[d[1]].hash \in Hashes
           /\ Normalized(Wire[d[1]]) \in Wires
           /\ Normalized(Wire[d[1]]).key = Wire[d[1]].key
           /\ Normalized(Wire[d[1]]).hash = Wire[d[1]].hash
<1>1. d[1] \in Msgs /\ d \in Drivers /\ d \notin Drains
  BY DriverAssumption, Zenon DEF Handlers, Drivers
<1>2. Wire[d[1]] \in Wires
  BY <1>1, IngressAssumption, Zenon
<1> QED
  BY <1>1, <1>2, Zenon DEF Normalized, Wires

-----------------------------------------------------------------------------
(* Types.                                                                   *)

\* The constants evaluated by Init are in their sets (the empty tables).
LEMMA TypeInit == Init => TypeOK
<1> SUFFICES ASSUME Init PROVE TypeOK
  BY Zenon
<1>1. AbsentJob \in Rows(Owners)
  BY Zenon DEF AbsentJob, Rows, Statuses, Deadlines, ErrorClasses
<1>2. \A d \in Handlers : Wire[d[1]].key \in Keys
  BY HandlerFacts, Zenon
<1>3. (CHOOSE k \in Keys : TRUE) \in Keys
  BY IngressAssumption, Zenon
<1> QED
  BY <1>1, <1>2, <1>3, IngressAssumption
  DEF Init, TypeOK, Labels, LogStatuses, Receipts

\* The row written by a driver is a typed row, and seen only loses readers
\* (SetRow is the UPDATE of each delivery_jobs transaction).
LEMMA SetRowType ==
    ASSUME TypeOK, NEW d \in Drivers, NEW row \in Rows(Owners), SetRow(d, row)
    PROVE  job' \in [Keys -> Rows(Owners)] /\ seen' \subseteq Handlers \cup Msgs
BY Zenon DEF TypeOK, SetRow

\* A driver's step moves its own label and at most gives its message back.
LEMMA RaiseType ==
    ASSUME TypeOK, NEW d \in Drivers, Raise(d)
    PROVE  /\ pc' \in [Drivers -> Labels]
           /\ queue' \in [Msgs -> {"available", "inflight", "removed"}]
BY DriverFacts DEF TypeOK, Raise, Goto, Nak, Msg, Labels

\* The same for the exceptions of _record_poison.
LEMMA UnrecordedType ==
    ASSUME TypeOK, NEW d \in Handlers, Unrecorded(d)
    PROVE  /\ pc' \in [Drivers -> Labels]
           /\ queue' \in [Msgs -> {"available", "inflight", "removed"}]
BY HandlerFacts, Zenon DEF TypeOK, Unrecorded, Goto, Nak, Msg, Labels

\* The row that records an outcome is typed (the tail of execute_once).
LEMMA OutcomeType ==
    ASSUME TypeOK, NEW d \in Drivers, EvidenceInv(d), pc[d] = "complete",
           NEW retry \in NewDeadline(d)
    PROVE  /\ Outcome(d, retry) \in Rows(Owners)
           /\ Outcome(d, retry).lease_owner = NoOwner
           /\ Outcome(d, retry).lease_until = "none"
           /\ Outcome(d, retry).status \in
                 {"succeeded", "quarantined", "replayable", "failed_retryable"}
           /\ Outcome(d, retry).status = "succeeded" => receipt[d] = "succeeded"
<1>1. Row(d) \in Rows(Owners) /\ retry \in {"future", "past"} /\ MaxAttemptsOf(d) \in Nat
  BY DriverFacts, Zenon DEF TypeOK, Row
<1>2. receipt[d] \in {"succeeded", "uncertain", "failed_retryable", "quarantined"}
  BY Zenon DEF EvidenceInv
<1>3. CASE receipt[d] = "uncertain"
  <2>1. Outcome(d, retry) = ReplayableAttempt(Row(d), MaxAttemptsOf(d), retry)
    BY <1>3, Zenon DEF Outcome
  <2> QED BY <1>1, <2>1, RowTransactions, DriverFacts
<1>4. CASE receipt[d] = "failed_retryable"
  <2>1. Outcome(d, retry) = FailedRetryableAttempt(Row(d), MaxAttemptsOf(d), retry)
    BY <1>4, Zenon DEF Outcome
  <2> QED BY <1>1, <2>1, RowTransactions, DriverFacts
<1>5. CASE receipt[d] \in {"succeeded", "quarantined"}
  <2>1. Outcome(d, retry) = Completed(Row(d), receipt[d])
    BY <1>5, Zenon DEF Outcome
  <2> QED BY <1>1, <1>5, <2>1, RowTransactions, DriverFacts
<1> QED
  BY <1>2, <1>3, <1>4, <1>5, Zenon

\* Every step of the lane keeps every variable in its set.
LEMMA TypeStep ==
    ASSUME TypeOK, RetainedPayloadMatches, \A d \in Drivers : EvidenceInv(d), [Next]_vars
    PROVE  TypeOK'
<1> USE DEF brokerVars, acceptVars, jobVars, logVars, localVars
<1>1. ASSUME NEW m \in Msgs, Deliver(m) PROVE TypeOK'
  <2>1. <<m, delivered[m] + 1>> \in Drivers /\ delivered[m] + 1 \in 0 .. MaxDeliver
    BY <1>1, IngressAssumption DEF Deliver, TypeOK, Drivers, Handlers
  <2> QED
    BY <1>1, <2>1, Zenon DEF Deliver, TypeOK, Goto, Labels
<1>2. ASSUME NEW m \in Msgs, AckWait(m) PROVE TypeOK'
  BY <1>2, Zenon DEF AckWait, TypeOK
<1>3. ASSUME NEW d \in Handlers, Refuse(d) PROVE TypeOK'
  <2>1. /\ pc' \in [Drivers -> Labels]
        /\ queue' \in [Msgs -> {"available", "inflight", "removed"}]
    BY <1>3, HandlerFacts, RaiseType DEF Refuse, TypeOK, Goto, Labels
  <2>2. log' \in [Keys -> LogStatuses]
    BY <1>3, Zenon DEF Refuse, TypeOK, LogStatuses
  <2> QED
    BY <1>3, <2>1, <2>2, Zenon DEF Refuse, TypeOK
<1>4. ASSUME NEW d \in Handlers, Lookup(d) PROVE TypeOK'
  BY <1>4, HandlerFacts, RaiseType, Zenon DEF Lookup, TypeOK, Goto, Labels
<1>5. ASSUME NEW d \in Handlers, RecordInbox(d) PROVE TypeOK'
  BY <1>5, HandlerFacts, RaiseType DEF RecordInbox, TypeOK, Goto, Labels
<1>6. ASSUME NEW d \in Handlers, ConsumeInbox(d) PROVE TypeOK'
  BY ZenonT(40), <1>6, HandlerFacts, RaiseType, SetRowType DEF ConsumeInbox, TypeOK, Msg,
    Goto, Labels, NewJob, AbsentJob, Rows, Statuses, Deadlines, ErrorClasses
<1>7. ASSUME NEW d \in Handlers, RecordPayload(d) PROVE TypeOK'
  BY <1>7, HandlerFacts, RaiseType DEF RecordPayload, TypeOK, Msg, Goto, Labels
<1>8. ASSUME NEW d \in Handlers, LogReceived(d) PROVE TypeOK'
  BY <1>8, HandlerFacts, Zenon DEF LogReceived, TypeOK, LogStatuses, Goto, Labels
<1>10. ASSUME NEW d \in Drivers, Execute(d) PROVE TypeOK'
  BY ZenonT(40), <1>10, DriverFacts DEF Execute, TypeOK, Return, Row, Terminal, Rows, Goto,
    Labels, Receipts, AllOutcomes, Statuses
<1>11. ASSUME NEW d \in Drivers, Claim(d) PROVE TypeOK'
  <2> Row(d) \in Rows(Owners)
    BY Zenon DEF TypeOK, Row
  <2>1. job' \in [Keys -> Rows(Owners)] /\ seen' \subseteq Handlers \cup Msgs
    <3>1. CASE UNCHANGED jobVars
      BY <3>1, Zenon DEF TypeOK
    <3>2. CASE SetRow(d, AttemptLimit(Row(d)))
      BY <3>2, RowTransactions, SetRowType, DriverFacts, Zenon
    <3>3. CASE \E until \in NewDeadline(d) : SetRow(d, Claimed(Row(d), OwnerOf(d), until))
      <4> PICK until \in NewDeadline(d) : SetRow(d, Claimed(Row(d), OwnerOf(d), until))
        BY <3>3, Zenon
      <4>1. Claimed(Row(d), OwnerOf(d), until) \in Rows(Owners)
        BY ClaimRows, DriverFacts
      <4> QED
        BY <4>1, SetRowType, Zenon
    <3> QED
      BY <1>11, <3>1, <3>2, <3>3, Zenon DEF Claim
  <2> QED
    BY <1>11, <2>1, Zenon DEF Claim, TypeOK, Goto, Labels
<1>12. ASSUME NEW d \in Drivers, ClaimRejected(d) PROVE TypeOK'
  BY <1>12, DriverFacts, Zenon DEF ClaimRejected, TypeOK, Return, Goto, Labels,
    Receipts, AllOutcomes, Statuses
<1>13. ASSUME NEW d \in Drivers, MarkExecuting(d) PROVE TypeOK'
  <2>1. Executing(Row(d)) \in Rows(Owners)
    BY ClaimRows, DriverFacts DEF TypeOK, Row
  <2> QED
    BY <1>13, <2>1, DriverFacts, SetRowType DEF MarkExecuting, TypeOK, Return,
    Goto, Labels, Receipts, AllOutcomes, Statuses
<1>14. ASSUME NEW d \in Drivers, Submit(d) PROVE TypeOK'
  <2>1. SubmitOutcomes(d) \subseteq AllOutcomes
    BY IngressAssumption, Zenon DEF SubmitOutcomes, AllOutcomes
  <2>2. receipt' \in [Drivers -> Receipts]
    BY <1>14, <2>1, Zenon DEF Submit, TypeOK, Receipts
  <2>3. /\ pc' \in [Drivers -> Labels]
        /\ queue' \in [Msgs -> {"available", "inflight", "removed"}]
    BY <1>14, RaiseType DEF Submit, TypeOK, Goto, Labels
  <2>4. stored' \subseteq Keys \X Hashes
    <3>1. payload[target[d]] # NoPayload => command[target[d]] \in Hashes
      BY DEF RetainedPayloadMatches, TypeOK, Wires
    <3> QED
      BY <1>14, <3>1 DEF Submit, TypeOK
  <2> QED
    BY <1>14, <2>2, <2>3, <2>4, Zenon DEF Submit, TypeOK
<1>15. ASSUME NEW d \in Drivers, Complete(d) PROVE TypeOK'
  <2>1. job' \in [Keys -> Rows(Owners)] /\ seen' \subseteq Handlers \cup Msgs
    BY <1>15, OutcomeType, SetRowType, Zenon DEF Complete, TypeOK
  <2>2. receipt' \in [Drivers -> Receipts] /\ pc' \in [Drivers -> Labels]
    BY <1>15, OutcomeType DEF Complete, TypeOK, Return, Goto, Labels, Receipts, AllOutcomes, Statuses
  <2> QED
    BY <1>15, <2>1, <2>2, Zenon DEF Complete, TypeOK
<1>16. ASSUME NEW d \in Handlers, LogOutcome(d) PROVE TypeOK'
  BY <1>16, HandlerFacts, Zenon DEF LogOutcome, TypeOK, LogStatuses, Goto, Labels,
    Receipts, AllOutcomes, Statuses
<1>17. ASSUME NEW d \in Handlers, Defer(d) PROVE TypeOK'
  BY <1>17, HandlerFacts, RaiseType DEF Defer, TypeOK, Msg, Nak, Goto, Labels,
    Receipts, AllOutcomes, Statuses
<1>18. ASSUME NEW d \in Handlers, Ack(d) PROVE TypeOK'
  BY <1>18, HandlerFacts, Zenon DEF Ack, TypeOK, Msg, Goto, Labels
<1>19. ASSUME NEW d \in Handlers, PoisonRead(d) PROVE TypeOK'
  BY <1>19, HandlerFacts, UnrecordedType, Zenon DEF PoisonRead, TypeOK, Goto, Labels
<1>20. ASSUME NEW d \in Handlers, QuarantineTransport(d) PROVE TypeOK'
  <2>1. TransportQuarantined(Row(d)) \in Rows(Owners)
    BY RowTransactions, HandlerFacts, DriverFacts DEF TypeOK, Row
  <2> QED
    BY Zenon, <1>20, <2>1, HandlerFacts, UnrecordedType, SetRowType
    DEF QuarantineTransport, TypeOK, Goto, Labels
<1>21. ASSUME NEW d \in Handlers, PoisonLink(d) PROVE TypeOK'
  BY <1>21, HandlerFacts, UnrecordedType DEF PoisonLink, TypeOK, LogStatuses,
    Goto, Labels
<1>22. ASSUME NEW d \in Handlers, PoisonLog(d) PROVE TypeOK'
  BY <1>22, HandlerFacts DEF PoisonLog, TypeOK, Msg, Goto, Labels
<1>23. ASSUME NEW d \in Drains, DrainSelect(d) PROVE TypeOK'
  BY <1>23 DEF DrainSelect, TypeOK, Drivers, Goto, Labels
<1>24. ASSUME NEW d \in Drains, DrainNext(d) PROVE TypeOK'
  BY <1>24 DEF DrainNext, TypeOK, Drivers, Goto, Labels
<1>25. ASSUME NEW d \in Drains, DrainFinish(d) PROVE TypeOK'
  BY <1>25, Zenon DEF DrainFinish, TypeOK, Drivers, Goto, Labels
<1>26. ASSUME NEW k \in Keys, LeaseExpires(k) PROVE TypeOK'
  BY <1>26, ClockRows, Zenon DEF LeaseExpires, TypeOK
<1>27. ASSUME NEW k \in Keys, RetryDue(k) PROVE TypeOK'
  BY <1>27, ClockRows, Zenon DEF RetryDue, TypeOK
<1>28. ASSUME NEW d \in Drivers, Fail(d) PROVE TypeOK'
  BY <1>28, RaiseType, UnrecordedType, Zenon DEF Fail, TypeOK, Receipts, AllOutcomes,
    Statuses
<1>29. ASSUME NEW d \in Drivers, Crash(d) PROVE TypeOK'
  BY <1>29, Zenon DEF Crash, TypeOK, Goto, Labels, Receipts, AllOutcomes, Statuses
<1>30. CASE UNCHANGED vars
  BY <1>30, Zenon DEF vars, TypeOK
<1> QED
  BY <1>1, <1>2, <1>3, <1>4, <1>5, <1>6, <1>7, <1>8, <1>10, <1>11, <1>12,
    <1>13, <1>14, <1>15, <1>16, <1>17, <1>18, <1>19, <1>20, <1>21, <1>22,
    <1>23, <1>24, <1>25, <1>26, <1>27, <1>28, <1>29, <1>30, Zenon DEF Next,
    HandlerStep, DrainStep, Accepting, Delivering, Finishing, Drivers

-----------------------------------------------------------------------------
(* The tables.                                                              *)

\* A step that writes no table but the poison rows keeps DataInv.
LEMMA TablesUntouched ==
    ASSUME DataInv, UNCHANGED <<command, job, payload, stored>>, poison \subseteq poison'
    PROVE  DataInv' /\ Monotone
BY Zenon DEF DataInv, JobInv, RetainedPayloadMatches, SucceededIsStored, Monotone

\* A fenced transaction that leaves a fate alone, and a success only behind a
\* stored document, keeps DataInv (the row updates of DeliveryExecutor).
LEMMA RowWritten ==
    ASSUME TypeOK, DataInv, NEW d \in Drivers, NEW row \in Rows(Owners), SetRow(d, row),
           command[target[d]] # NoHash,
           Row(d).status \notin Terminal, row.status # "absent",
           IF row.status \in {"claimed", "executing"}
           THEN row.lease_owner # NoOwner
           ELSE row.lease_owner = NoOwner /\ row.lease_until = "none",
           row.status = "succeeded" => <<target[d], command[target[d]]>> \in stored,
           UNCHANGED <<command, payload, stored, poison>>
    PROVE  DataInv' /\ Monotone
<1>1. /\ job'[target[d]] = row
      /\ \A k \in Keys : k # target[d] => job'[k] = job[k]
      /\ target[d] \in Keys
  BY Zenon DEF TypeOK, SetRow
<1> QED
  BY <1>1 DEF DataInv, JobInv, RetainedPayloadMatches, SucceededIsStored, Monotone,
    Row, Terminal

\* A driver at work has a command and a job for its key.
LEMMA WorkingFacts ==
    ASSUME TypeOK, DataInv, NEW d \in Drivers, DriverInv(d), pc[d] \in Working
    PROVE  /\ target[d] \in Keys /\ command[target[d]] # NoHash
           /\ Row(d).status # "absent" /\ Row(d) \in Rows(Owners)
<1>1. target[d] \in Keys /\ Row(d) \in Rows(Owners)
  BY Zenon DEF TypeOK, Row
<1>2. command[target[d]] # NoHash
  BY HandlerFacts, IngressAssumption, Zenon DEF DriverInv, HandlerInv, DrainInv, Drivers
<1> QED
  BY <1>1, <1>2, Zenon DEF DataInv, JobInv, Row

\* A driver that owns a row's lease, as it sees it, owns a job without a fate
\* (the fence of mark_delivery_executing and of the outcome transactions).
LEMMA OwnedRow ==
    ASSUME TypeOK, DataInv, NEW d \in Drivers, NEW row \in RowAsSeen(d),
           OwnsLease(row, OwnerOf(d))
    PROVE  Row(d).status \in {"claimed", "executing"} /\ Row(d).lease_owner = OwnerOf(d)
<1>1. Row(d).lease_owner = OwnerOf(d) /\ OwnerOf(d) # NoOwner /\ target[d] \in Keys
  BY SeenRows, DriverFacts, Zenon DEF OwnsLease, TypeOK
<1> QED
  BY <1>1, Zenon DEF DataInv, JobInv, Row

\* The clock reaches a deadline of a row and leaves the rest of it alone.
LEMMA TimePasses ==
    ASSUME TypeOK, DataInv, UNCHANGED <<command, payload, stored, poison>>,
           \A j \in Keys :
              /\ job'[j].status = job[j].status /\ job'[j].lease_owner = job[j].lease_owner
              /\ job[j].lease_until = "none" => job'[j].lease_until = "none"
    PROVE  DataInv' /\ Monotone
<1>1. \A k \in Keys : JobInv(k)'
  BY DEF DataInv, JobInv
<1>2. RetainedPayloadMatches' /\ SucceededIsStored'
  BY Zenon DEF DataInv, RetainedPayloadMatches, SucceededIsStored
<1> QED
  BY <1>1, <1>2, Zenon DEF DataInv, Monotone

\* Every step keeps the tables consistent and only adds to them: no command,
\* payload, stored document, poison row or fate is ever taken back.
LEMMA DataStep ==
    ASSUME TypeOK, DataInv, \A d \in Drivers : DriverInv(d), [Next]_vars
    PROVE  DataInv' /\ Monotone
<1> USE DEF brokerVars, acceptVars, jobVars, logVars, localVars
<1>1. ASSUME NEW m \in Msgs, Deliver(m) PROVE DataInv' /\ Monotone
  BY <1>1, TablesUntouched, Zenon DEF Deliver
<1>2. ASSUME NEW m \in Msgs, AckWait(m) PROVE DataInv' /\ Monotone
  BY <1>2, TablesUntouched, Zenon DEF AckWait
<1>3. ASSUME NEW d \in Handlers, Refuse(d) PROVE DataInv' /\ Monotone
  BY <1>3, TablesUntouched, Zenon DEF Refuse
<1>4. ASSUME NEW d \in Handlers, Lookup(d) PROVE DataInv' /\ Monotone
  BY <1>4, TablesUntouched, Zenon DEF Lookup
<1>5. ASSUME NEW d \in Handlers, RecordInbox(d) PROVE DataInv' /\ Monotone
  BY <1>5, TablesUntouched, Zenon DEF RecordInbox
<1>6. ASSUME NEW d \in Handlers, ConsumeInbox(d) PROVE DataInv' /\ Monotone
  <2>1. CASE command[target[d]] = NoHash
    <3>1. /\ target[d] \in Keys /\ Wire[d[1]].hash # NoHash
          /\ payload[target[d]] = NoPayload
      BY <2>1, HandlerFacts, IngressAssumption
      DEF TypeOK, DataInv, RetainedPayloadMatches, Wires
    <3>2. /\ command' = [command EXCEPT ![target[d]] = Wire[d[1]].hash]
          /\ job' = [job EXCEPT ![target[d]] = NewJob]
          /\ UNCHANGED <<payload, stored, poison>>
      BY Zenon, <1>6, <2>1 DEF ConsumeInbox, SetRow, Msg
    <3>3. /\ NewJob.status = "pending" /\ NewJob.lease_owner = NoOwner
          /\ NewJob.lease_until = "none"
      BY Zenon DEF NewJob, AbsentJob
    <3>4. \A k \in Keys : JobInv(k)'
      BY Zenon, <3>1, <3>2, <3>3 DEF DataInv, JobInv, TypeOK
    <3>5. RetainedPayloadMatches' /\ SucceededIsStored'
      BY Zenon, <3>1, <3>2, <3>3 DEF DataInv, RetainedPayloadMatches, SucceededIsStored, TypeOK
    <3>6. Monotone
      BY Zenon, <2>1, <3>1, <3>2, <3>3 DEF DataInv, JobInv, Monotone, TypeOK, Terminal
    <3> QED
      BY <3>4, <3>5, <3>6, Zenon DEF DataInv
  <2>2. CASE command[target[d]] # NoHash
    BY <1>6, <2>2, TablesUntouched, Zenon DEF ConsumeInbox
  <2> QED
    BY <2>1, <2>2, Zenon
<1>7. ASSUME NEW d \in Handlers, RecordPayload(d) PROVE DataInv' /\ Monotone
  <2>1. CASE UNCHANGED payload
    BY <1>7, <2>1, TablesUntouched, Zenon DEF RecordPayload
  <2>2. CASE payload' = [payload EXCEPT ![target[d]] =
                            IF @ = NoPayload THEN Normalized(Wire[d[1]]) ELSE @]
    <3>1. /\ target[d] \in Keys /\ target[d] = Wire[d[1]].key
          /\ command[target[d]] = Wire[d[1]].hash
          /\ UNCHANGED <<command, job, stored, poison>>
      BY Zenon, <1>7, HandlerFacts DEF RecordPayload, TypeOK, DriverInv, HandlerInv, Working
    <3> QED
      BY ZenonT(40), <2>2, <3>1, HandlerFacts
      DEF DataInv, JobInv, RetainedPayloadMatches, SucceededIsStored, Monotone, TypeOK
  <2> QED
    BY <1>7, <2>1, <2>2, Zenon DEF RecordPayload, Msg
<1>8. ASSUME NEW d \in Handlers, LogReceived(d) PROVE DataInv' /\ Monotone
  BY Zenon, <1>8, TablesUntouched DEF LogReceived
<1>10. ASSUME NEW d \in Drivers, Execute(d) PROVE DataInv' /\ Monotone
  BY <1>10, TablesUntouched, Zenon DEF Execute
<1>11. ASSUME NEW d \in Drivers, Claim(d) PROVE DataInv' /\ Monotone
  <2>1. /\ command[target[d]] # NoHash /\ Row(d) \in Rows(Owners)
        /\ UNCHANGED <<command, payload, stored, poison>>
    BY <1>11, WorkingFacts, Zenon DEF Claim, Working
  <2>2. PICK row \in RowAsSeen(d) :
          \/ UNCHANGED jobVars
          \/ /\ Claimable(row, OwnerOf(d))
             /\ \/ SetRow(d, AttemptLimit(Row(d)))
                \/ \E until \in NewDeadline(d) :
                      SetRow(d, Claimed(Row(d), OwnerOf(d), until))
    BY <1>11, Zenon DEF Claim
  <2>3. Claimable(row, OwnerOf(d)) => Row(d).status \notin Terminal
    BY SeenRows, Zenon DEF Claimable, Terminal
  <2>4. CASE UNCHANGED jobVars
    BY <2>1, <2>4, TablesUntouched, Zenon
  <2>5. CASE Claimable(row, OwnerOf(d)) /\ SetRow(d, AttemptLimit(Row(d)))
    <3>1. /\ AttemptLimit(Row(d)) \in Rows(Owners)
          /\ AttemptLimit(Row(d)).status = "quarantined"
          /\ AttemptLimit(Row(d)).lease_owner = NoOwner
          /\ AttemptLimit(Row(d)).lease_until = "none"
      BY <2>1, RowTransactions, DriverFacts
    <3> QED
      BY Zenon, <2>1, <2>3, <2>5, <3>1, RowWritten
  <2>6. ASSUME Claimable(row, OwnerOf(d)), NEW until \in NewDeadline(d),
               SetRow(d, Claimed(Row(d), OwnerOf(d), until))
        PROVE  DataInv' /\ Monotone
    <3>1. /\ Claimed(Row(d), OwnerOf(d), until) \in Rows(Owners)
          /\ Claimed(Row(d), OwnerOf(d), until).status = "claimed"
          /\ Claimed(Row(d), OwnerOf(d), until).lease_owner # NoOwner
      <4>1. OwnerOf(d) \in Owners \ {NoOwner} /\ until \in {"future", "past"}
        BY DriverFacts, Zenon
      <4> QED
        BY <2>1, <4>1, ClaimRows
    <3> QED
      BY Zenon, <2>1, <2>3, <2>6, <3>1, RowWritten
  <2> QED
    BY <2>2, <2>4, <2>5, <2>6, Zenon
<1>12. ASSUME NEW d \in Drivers, ClaimRejected(d) PROVE DataInv' /\ Monotone
  BY <1>12, TablesUntouched, Zenon DEF ClaimRejected
<1>13. ASSUME NEW d \in Drivers, MarkExecuting(d) PROVE DataInv' /\ Monotone
  <2>1. /\ command[target[d]] # NoHash /\ Row(d) \in Rows(Owners)
        /\ UNCHANGED <<command, payload, stored, poison>>
    BY Zenon, <1>13, WorkingFacts DEF MarkExecuting, Working
  <2>2. PICK row \in RowAsSeen(d) :
          \/ UNCHANGED jobVars
          \/ OwnsLease(row, OwnerOf(d)) /\ SetRow(d, Executing(Row(d)))
    BY <1>13, Zenon DEF MarkExecuting
  <2>3. CASE UNCHANGED jobVars
    BY <2>1, <2>3, TablesUntouched, Zenon
  <2>4. CASE OwnsLease(row, OwnerOf(d)) /\ SetRow(d, Executing(Row(d)))
    <3>1. Row(d).status \notin Terminal /\ Row(d).lease_owner # NoOwner
      BY <2>4, OwnedRow, DriverFacts, Zenon DEF Terminal
    <3>2. /\ Executing(Row(d)) \in Rows(Owners)
          /\ Executing(Row(d)).status = "executing"
          /\ Executing(Row(d)).lease_owner # NoOwner
      BY <2>1, <3>1, ClaimRows, DriverFacts
    <3> QED
      BY Zenon, <2>1, <2>4, <3>1, <3>2, RowWritten
  <2> QED
    BY <2>2, <2>3, <2>4, Zenon
<1>14. ASSUME NEW d \in Drivers, Submit(d) PROVE DataInv' /\ Monotone
  <2>1. /\ stored \subseteq stored' /\ UNCHANGED <<command, job, payload, poison>>
    BY Zenon, <1>14 DEF Submit
  <2> QED
    BY <2>1, Zenon DEF DataInv, JobInv, RetainedPayloadMatches, SucceededIsStored, Monotone
<1>15. ASSUME NEW d \in Drivers, Complete(d) PROVE DataInv' /\ Monotone
  <2>1. /\ command[target[d]] # NoHash
        /\ UNCHANGED <<command, payload, stored, poison>>
    BY Zenon, <1>15, WorkingFacts DEF Complete, Working
  <2>2. PICK row \in RowAsSeen(d) :
          \/ UNCHANGED jobVars
          \/ /\ OwnsLease(row, OwnerOf(d))
             /\ \E retry \in NewDeadline(d) : SetRow(d, Outcome(d, retry))
    BY <1>15, Zenon DEF Complete
  <2>3. CASE UNCHANGED jobVars
    BY <2>1, <2>3, TablesUntouched, Zenon
  <2>4. ASSUME OwnsLease(row, OwnerOf(d)), NEW retry \in NewDeadline(d),
               SetRow(d, Outcome(d, retry))
        PROVE  DataInv' /\ Monotone
    <3>1. Row(d).status \notin Terminal
      BY <2>4, OwnedRow, Zenon DEF Terminal
    <3>2. EvidenceInv(d) /\ pc[d] = "complete"
      BY <1>15, Zenon DEF DriverInv, Complete
    <3>3. Outcome(d, retry).status = "succeeded" =>
             <<target[d], command[target[d]]>> \in stored
      BY <3>2, OutcomeType, Zenon DEF EvidenceInv
    <3>4. /\ Outcome(d, retry) \in Rows(Owners)
          /\ Outcome(d, retry).lease_owner = NoOwner
          /\ Outcome(d, retry).lease_until = "none"
          /\ Outcome(d, retry).status \notin {"absent", "claimed", "executing"}
      BY <3>2, OutcomeType, Zenon
    <3> QED
      BY Zenon, <2>1, <2>4, <3>1, <3>3, <3>4, RowWritten
  <2> QED
    BY <2>2, <2>3, <2>4, Zenon
<1>16. ASSUME NEW d \in Handlers, LogOutcome(d) PROVE DataInv' /\ Monotone
  BY <1>16, TablesUntouched, Zenon DEF LogOutcome
<1>17. ASSUME NEW d \in Handlers, Defer(d) PROVE DataInv' /\ Monotone
  BY <1>17, TablesUntouched, Zenon DEF Defer
<1>18. ASSUME NEW d \in Handlers, Ack(d) PROVE DataInv' /\ Monotone
  BY <1>18, TablesUntouched, Zenon DEF Ack
<1>19. ASSUME NEW d \in Handlers, PoisonRead(d) PROVE DataInv' /\ Monotone
  BY <1>19, TablesUntouched, Zenon DEF PoisonRead
<1>20. ASSUME NEW d \in Handlers, QuarantineTransport(d) PROVE DataInv' /\ Monotone
  <2>1. CASE UNCHANGED jobVars
    BY <1>20, <2>1, TablesUntouched, Zenon DEF QuarantineTransport
  <2>2. CASE Row(d).status \notin Terminal /\ SetRow(d, TransportQuarantined(Row(d)))
    <3>1. command[target[d]] # NoHash /\ d \in Drivers /\ Row(d) \in Rows(Owners)
      <4>1. /\ payload[target[d]] = Wire[d[1]] /\ target[d] \in Keys
            /\ Wire[d[1]] # NoPayload /\ Wire[d[1]].hash # NoHash
        BY Zenon, <1>20, HandlerFacts, IngressAssumption
        DEF QuarantineTransport, DriverInv, HandlerInv, TypeOK
      <4> QED
        BY Zenon, <4>1, HandlerFacts DEF DataInv, RetainedPayloadMatches, TypeOK, Row
    <3>2. /\ TransportQuarantined(Row(d)) \in Rows(Owners)
          /\ TransportQuarantined(Row(d)).status = "quarantined"
          /\ TransportQuarantined(Row(d)).lease_owner = NoOwner
          /\ TransportQuarantined(Row(d)).lease_until = "none"
      BY Zenon, <3>1, RowTransactions, DriverFacts
    <3> QED
      BY Zenon, <1>20, <2>2, <3>1, <3>2, RowWritten DEF QuarantineTransport
  <2> QED
    BY <1>20, <2>1, <2>2, Zenon DEF QuarantineTransport
<1>21. ASSUME NEW d \in Handlers, PoisonLink(d) PROVE DataInv' /\ Monotone
  BY Zenon, <1>21, TablesUntouched DEF PoisonLink
<1>22. ASSUME NEW d \in Handlers, PoisonLog(d) PROVE DataInv' /\ Monotone
  BY <1>22, TablesUntouched, Zenon DEF PoisonLog
<1>23. ASSUME NEW d \in Drains, DrainSelect(d) PROVE DataInv' /\ Monotone
  BY <1>23, TablesUntouched, Zenon DEF DrainSelect
<1>24. ASSUME NEW d \in Drains, DrainNext(d) PROVE DataInv' /\ Monotone
  BY <1>24, TablesUntouched, Zenon DEF DrainNext
<1>25. ASSUME NEW d \in Drains, DrainFinish(d) PROVE DataInv' /\ Monotone
  BY <1>25, TablesUntouched, Zenon DEF DrainFinish
<1>26. ASSUME NEW k \in Keys, LeaseExpires(k) PROVE DataInv' /\ Monotone
  <2>1. /\ job' = [job EXCEPT ![k] = LeaseReached(job[k])] /\ job[k] \in Rows(Owners)
        /\ UNCHANGED <<command, payload, stored, poison>>
    BY <1>26, Zenon DEF LeaseExpires, TypeOK
  <2>2. \A j \in Keys :
          /\ job'[j].status = job[j].status /\ job'[j].lease_owner = job[j].lease_owner
          /\ job[j].lease_until = "none" => job'[j].lease_until = "none"
    BY <1>26, <2>1, ClockRows DEF LeaseExpires, TypeOK
  <2> QED
    BY <2>1, <2>2, TimePasses, Zenon
<1>27. ASSUME NEW k \in Keys, RetryDue(k) PROVE DataInv' /\ Monotone
  <2>1. /\ job' = [job EXCEPT ![k] = RetryReached(job[k])] /\ job[k] \in Rows(Owners)
        /\ UNCHANGED <<command, payload, stored, poison>>
    BY <1>27, Zenon DEF RetryDue, TypeOK
  <2>2. \A j \in Keys :
          /\ job'[j].status = job[j].status /\ job'[j].lease_owner = job[j].lease_owner
          /\ job[j].lease_until = "none" => job'[j].lease_until = "none"
    BY <1>27, <2>1, ClockRows DEF RetryDue, TypeOK
  <2> QED
    BY <2>1, <2>2, TimePasses, Zenon
<1>28. ASSUME NEW d \in Drivers, Fail(d) PROVE DataInv' /\ Monotone
  BY <1>28, TablesUntouched, Zenon DEF Fail
<1>29. ASSUME NEW d \in Drivers, Crash(d) PROVE DataInv' /\ Monotone
  BY <1>29, TablesUntouched, Zenon DEF Crash
<1>30. CASE UNCHANGED vars
  BY <1>30, TablesUntouched, Zenon DEF vars
<1> QED
  BY <1>1, <1>2, <1>3, <1>4, <1>5, <1>6, <1>7, <1>8, <1>10, <1>11, <1>12,
    <1>13, <1>14, <1>15, <1>16, <1>17, <1>18, <1>19, <1>20, <1>21, <1>22,
    <1>23, <1>24, <1>25, <1>26, <1>27, <1>28, <1>29, <1>30, Zenon DEF Next,
    HandlerStep, DrainStep, Accepting, Delivering, Finishing, Drivers

-----------------------------------------------------------------------------
(* The drivers.                                                             *)

\* A settled message stays settled.
LEMMA SettledStays ==
    ASSUME NEW m \in Msgs, Settled(m), Monotone
    PROVE  Settled(m)'
<1>1. Wire[m].key \in Keys /\ Wire[m].hash # NoHash
  BY IngressAssumption DEF Wires
<1> QED
  BY <1>1, Zenon DEF Settled, Excused, Monotone

\* Where driver d stands did not change.
Still(d) ==
    /\ pc'[d] = pc[d] /\ target'[d] = target[d] /\ receipt'[d] = receipt[d]
    /\ d \in Drains => todo'[d] = todo[d]

\* Only driver d moves.
Alone(d) == \A e \in Drivers : e # d => Still(e)

\* What a driver relies on survives the steps of the others.
LEMMA Bystander ==
    ASSUME TypeOK, NEW d \in Drivers, DriverInv(d), Still(d), Monotone
    PROVE  DriverInv(d)'
<1>1. ASSUME d \in Handlers PROVE HandlerInv(d)'
  <2>1. /\ target[d] \in Keys /\ Wire[d[1]].hash # NoHash /\ Wire[d[1]] # NoPayload
        /\ d[1] \in Msgs /\ HandlerInv(d)
    BY Zenon, <1>1, HandlerFacts, IngressAssumption DEF TypeOK, DriverInv
  <2>2. pc'[d] = "ack" => Settled(d[1])'
    BY Zenon, <2>1, SettledStays DEF HandlerInv, Still
  <2> QED
    BY Zenon, <2>1, <2>2 DEF HandlerInv, Still, Monotone
<1>2. ASSUME d \in Drains PROVE DrainInv(d)'
  BY Zenon, <1>2 DEF TypeOK, DriverInv, DrainInv, Still, Monotone
<1>3. EvidenceInv(d)'
  <2>1. pc[d] = "complete" => command[target[d]] # NoHash /\ target[d] \in Keys
    BY HandlerFacts, IngressAssumption
    DEF TypeOK, DriverInv, HandlerInv, DrainInv, Drivers, Working
  <2> QED
    BY <2>1, Zenon DEF DriverInv, EvidenceInv, Still, Monotone
<1> QED
  BY <1>1, <1>2, <1>3, Zenon DEF DriverInv

\* So it is enough to look at the driver that moves.
LEMMA OneMoves ==
    ASSUME TypeOK, \A e \in Drivers : DriverInv(e), Monotone,
           NEW d \in Drivers, Alone(d), DriverInv(d)'
    PROVE  \A e \in Drivers : DriverInv(e)'
BY Bystander, Zenon DEF Alone

\* A driver that holds no claim on the tables has nothing to show.
LEMMA AtRest ==
    ASSUME TypeOK, NEW d \in Drivers, DriverInv(d), Monotone, target'[d] = target[d],
           d \in Drains => todo'[d] = todo[d],
           pc'[d] \in {"idle", "start", "inbox", "consume", "poison", "poison_log",
                       "next", "done"}
    PROVE  DriverInv(d)'
<1>1. d \in Drains => \A k \in todo[d] : command'[k] # NoHash
  BY Zenon DEF TypeOK, DriverInv, DrainInv, Monotone
<1> QED
  BY Zenon, <1>1 DEF DriverInv, HandlerInv, DrainInv, EvidenceInv, Working

\* A driver that goes on working on its key keeps its command.
LEMMA Onward ==
    ASSUME TypeOK, NEW d \in Drivers, DriverInv(d), Monotone, target'[d] = target[d],
           d \in Drains => todo'[d] = todo[d],
           pc[d] \in Working, pc'[d] \in Working \ {"complete", "settle"}
    PROVE  DriverInv(d)'
<1>1. d \in Drains => \A k \in todo[d] : command'[k] # NoHash
  BY Zenon DEF TypeOK, DriverInv, DrainInv, Monotone
<1>2. command[target[d]] # NoHash /\ target[d] \in Keys
  BY HandlerFacts, IngressAssumption
  DEF TypeOK, DriverInv, HandlerInv, DrainInv, Drivers
<1>3. command'[target[d]] = command[target[d]]
  BY <1>2, Zenon DEF Monotone
<1> QED
  BY Zenon, <1>1, <1>2, <1>3 DEF DriverInv, HandlerInv, DrainInv, EvidenceInv, Working

\* A receipt is returned with the fate it reports (execute_once_with_receipt).
LEMMA Returned ==
    ASSUME TypeOK, NEW d \in Drivers, DriverInv(d), Monotone, UNCHANGED <<target, todo>>,
           pc[d] \in Working, NEW status, Return(d, status),
           status \in Terminal => job'[target[d]].status = status
    PROVE  DriverInv(d)' /\ Alone(d)
<1>1. Alone(d)
  BY Zenon DEF TypeOK, Return, Goto, Alone, Still
<1>2. CASE d \in Drains
  <2>1. pc'[d] = "next"
    BY <1>2, Zenon DEF TypeOK, Return, Goto
  <2> QED
    BY <1>1, <2>1, AtRest, Zenon
<1>3. CASE d \in Handlers
  <2>1. pc'[d] = "settle" /\ receipt'[d] = status /\ target'[d] = target[d]
    BY Zenon, <1>3, DriverFacts DEF TypeOK, Return, Goto
  <2>2. /\ target[d] \in Keys /\ target[d] = Wire[d[1]].key
        /\ command[target[d]] = Wire[d[1]].hash
    BY Zenon, <1>3 DEF TypeOK, DriverInv, HandlerInv
  <2>3. Wire[d[1]].hash # NoHash
    BY <1>3, HandlerFacts, IngressAssumption, Zenon
  <2>4. command'[target[d]] = Wire[d[1]].hash
    BY Zenon, <2>2, <2>3 DEF Monotone
  <2> QED
    BY Zenon, <1>1, <1>3, <2>1, <2>2, <2>4, DriverFacts
    DEF DriverInv, HandlerInv, EvidenceInv
<1> QED
  BY <1>2, <1>3, Zenon DEF Drivers

\* A driver that ends on an exception is at rest (handle_msg, drain).
LEMMA Raised ==
    ASSUME TypeOK, NEW d \in Drivers, DriverInv(d), Monotone, UNCHANGED <<target, todo>>,
           Raise(d) \/ (d \in Handlers /\ Unrecorded(d)),
           \A e \in Drivers : e # d => receipt'[e] = receipt[e]
    PROVE  DriverInv(d)' /\ Alone(d)
<1>1. pc'[d] \in {"poison", "done"} /\ Alone(d)
  BY DriverFacts DEF TypeOK, Raise, Unrecorded, Goto, Alone, Still
<1> QED
  BY Zenon, <1>1, AtRest

\* A handler that is about to ack a settled message.
LEMMA AboutToAck ==
    ASSUME TypeOK, NEW d \in Handlers, DriverInv(d), Settled(d[1])',
           target'[d] = target[d], pc'[d] = "ack"
    PROVE  DriverInv(d)'
BY Zenon, HandlerFacts DEF DriverInv, HandlerInv, EvidenceInv, Working

\* Wherever the drivers stand, what each relies on keeps holding.
LEMMA DriverStep ==
    ASSUME TypeOK, DataInv, \A e \in Drivers : DriverInv(e), Monotone, [Next]_vars
    PROVE  \A e \in Drivers : DriverInv(e)'
<1> USE DEF brokerVars, acceptVars, jobVars, logVars, localVars
<1>1. ASSUME NEW m \in Msgs, Deliver(m) PROVE \A e \in Drivers : DriverInv(e)'
  <2> DEFINE d == <<m, delivered[m] + 1>>
  <2>1. d \in Handlers
    BY <1>1, IngressAssumption DEF Deliver, TypeOK, Handlers
  <2>2. /\ d \in Drivers /\ d \notin Drains /\ pc' = [pc EXCEPT ![d] = "start"]
        /\ UNCHANGED <<target, todo, receipt>>
    BY <1>1, <2>1, HandlerFacts, Zenon DEF Deliver, Goto
  <2> HIDE DEF d
  <2>3. Alone(d) /\ pc'[d] = "start" /\ target'[d] = target[d]
    BY <2>2, Zenon DEF Alone, Still, TypeOK
  <2> QED
    BY Zenon, <2>2, <2>3, AtRest, OneMoves
<1>2. ASSUME NEW m \in Msgs, AckWait(m) PROVE \A e \in Drivers : DriverInv(e)'
  <2>1. \A e \in Drivers : Still(e)
    BY <1>2, Zenon DEF AckWait, Still
  <2> QED
    BY <2>1, Bystander, Zenon
<1>3. ASSUME NEW d \in Handlers, Refuse(d) PROVE \A e \in Drivers : DriverInv(e)'
  <2>1. d \in Drivers /\ UNCHANGED <<target, todo, receipt>>
    BY <1>3, HandlerFacts, Zenon DEF Refuse
  <2>2. CASE Raise(d)
    BY <2>1, <2>2, Raised, OneMoves, Zenon
  <2>3. CASE Wire[d[1]].class = "unredacted" /\ Goto(d, "ack")
    <3>1. Settled(d[1])'
      BY <2>3, HandlerFacts, Zenon DEF Settled, Excused
    <3>2. Alone(d) /\ pc'[d] = "ack"
      BY Zenon, <2>1, <2>3 DEF Goto, Alone, Still, TypeOK
    <3> QED
      BY <2>1, <3>1, <3>2, AboutToAck, OneMoves, Zenon
  <2> QED
    BY <1>3, <2>2, <2>3, Zenon DEF Refuse, Msg
<1>4. ASSUME NEW d \in Handlers, Lookup(d) PROVE \A e \in Drivers : DriverInv(e)'
  <2>1. d \in Drivers /\ UNCHANGED <<command, target, todo, receipt>>
    BY Zenon, <1>4, HandlerFacts DEF Lookup
  <2>2. CASE Raise(d)
    BY <2>1, <2>2, Raised, OneMoves, Zenon
  <2>3. CASE Goto(d, "inbox")
    <3>1. Alone(d) /\ pc'[d] = "inbox"
      BY <2>1, <2>3, Zenon DEF Goto, Alone, Still, TypeOK
    <3> QED
      BY <2>1, <3>1, AtRest, OneMoves, Zenon
  <2>4. CASE command[target[d]] = Wire[d[1]].hash /\ Goto(d, "payload_gap")
    <3>1. Alone(d) /\ pc'[d] = "payload_gap"
      BY Zenon, <2>1, <2>4 DEF Goto, Alone, Still, TypeOK
    <3>2. DriverInv(d)'
      BY Zenon, <2>1, <2>4, <3>1, HandlerFacts DEF DriverInv, HandlerInv, EvidenceInv
    <3> QED
      BY <2>1, <3>1, <3>2, OneMoves, Zenon
  <2> QED
    BY <1>4, <2>2, <2>3, <2>4, Zenon DEF Lookup, Msg
<1>5. ASSUME NEW d \in Handlers, RecordInbox(d) PROVE \A e \in Drivers : DriverInv(e)'
  <2>1. /\ Alone(d) /\ d \in Drivers /\ UNCHANGED <<target, todo>>
        /\ pc'[d] \in {"idle", "start", "inbox", "consume", "poison", "poison_log",
                        "next", "done"}
    BY <1>5, HandlerFacts, DriverFacts DEF RecordInbox, Goto, Alone, Still, TypeOK, Raise
  <2> QED
    BY Zenon, <2>1, AtRest, OneMoves
<1>6. ASSUME NEW d \in Handlers, ConsumeInbox(d) PROVE \A e \in Drivers : DriverInv(e)'
  <2>1. d \in Drivers /\ UNCHANGED <<target, todo, receipt>>
    BY Zenon, <1>6, HandlerFacts DEF ConsumeInbox
  <2>2. CASE Raise(d)
    BY <2>1, <2>2, Raised, OneMoves, Zenon
  <2>3. CASE /\ command' = [command EXCEPT ![target[d]] = Wire[d[1]].hash]
             /\ Goto(d, "payload_new")
    <3>1. Alone(d) /\ pc'[d] = "payload_new" /\ command'[target[d]] = Wire[d[1]].hash
      BY Zenon, <2>1, <2>3 DEF Goto, Alone, Still, TypeOK
    <3>2. DriverInv(d)'
      BY Zenon, <2>1, <3>1, HandlerFacts DEF DriverInv, HandlerInv, EvidenceInv
    <3> QED
      BY <2>1, <3>1, <3>2, OneMoves, Zenon
  <2> QED
    BY Zenon, <1>6, <2>2, <2>3 DEF ConsumeInbox, Msg
<1>7. ASSUME NEW d \in Handlers, RecordPayload(d) PROVE \A e \in Drivers : DriverInv(e)'
  <2>1. d \in Drivers /\ UNCHANGED <<target, todo, receipt>>
    BY Zenon, <1>7, HandlerFacts DEF RecordPayload
  <2>2. CASE Raise(d)
    BY <2>1, <2>2, Raised, OneMoves, Zenon
  <2>3. CASE Goto(d, IF pc[d] = "payload_new" THEN "received" ELSE "exec")
    <3>1. /\ Alone(d) /\ pc[d] \in Working /\ pc'[d] \in Working \ {"complete", "settle"}
      BY <1>7, <2>1, <2>3, Zenon DEF RecordPayload, Goto, Alone, Still, TypeOK, Working
    <3> QED
      BY <2>1, <3>1, Onward, OneMoves, Zenon
  <2> QED
    BY Zenon, <1>7, <2>2, <2>3 DEF RecordPayload
<1>8. ASSUME NEW d \in Handlers, LogReceived(d) PROVE \A e \in Drivers : DriverInv(e)'
  <2>1. /\ Alone(d) /\ d \in Drivers /\ UNCHANGED <<target, todo>>
        /\ pc[d] \in Working /\ pc'[d] \in Working \ {"complete", "settle"}
    BY Zenon, <1>8, HandlerFacts DEF LogReceived, Goto, Alone, Still, TypeOK, Working
  <2> QED
    BY <2>1, Onward, OneMoves, Zenon
<1>10. ASSUME NEW d \in Drivers, Execute(d) PROVE \A e \in Drivers : DriverInv(e)'
  <2>1. UNCHANGED <<target, todo, job>> /\ pc[d] \in Working
    BY <1>10, Zenon DEF Execute, Working
  <2>2. CASE Return(d, Row(d).status)
    BY <2>1, <2>2, Returned, OneMoves, Zenon DEF Row
  <2>3. CASE Goto(d, "claim") /\ UNCHANGED receipt
    <3>1. Alone(d) /\ pc'[d] \in Working \ {"complete", "settle"}
      BY <2>1, <2>3, Zenon DEF Goto, Alone, Still, TypeOK, Working
    <3> QED
      BY <2>1, <3>1, Onward, OneMoves, Zenon
  <2> QED
    BY <1>10, <2>2, <2>3, Zenon DEF Execute
<1>11. ASSUME NEW d \in Drivers, Claim(d) PROVE \A e \in Drivers : DriverInv(e)'
  <2>1. /\ Alone(d) /\ d \in Drivers /\ UNCHANGED <<target, todo>>
        /\ pc[d] \in Working /\ pc'[d] \in Working \ {"complete", "settle"}
    BY Zenon, <1>11, HandlerFacts DEF Claim, Goto, Alone, Still, TypeOK, Working
  <2> QED
    BY <2>1, Onward, OneMoves, Zenon
<1>12. ASSUME NEW d \in Drivers, ClaimRejected(d) PROVE \A e \in Drivers : DriverInv(e)'
  <2> DEFINE status == IF Row(d).status = "quarantined" THEN "quarantined"
                       ELSE "claim_rejected"
  <2>1. /\ UNCHANGED <<target, todo, job>> /\ pc[d] \in Working /\ Return(d, status)
        /\ status \in Terminal => job'[target[d]].status = status
    BY <1>12, Zenon DEF ClaimRejected, Working, Terminal, Row
  <2> QED
    BY Zenon, <2>1, Returned, OneMoves
<1>13. ASSUME NEW d \in Drivers, MarkExecuting(d) PROVE \A e \in Drivers : DriverInv(e)'
  <2>1. UNCHANGED <<target, todo>> /\ pc[d] \in Working
    BY <1>13, Zenon DEF MarkExecuting, Working
  <2>2. CASE Return(d, "stale_owner_rejected")
    BY <2>1, <2>2, Returned, OneMoves, Zenon DEF Terminal
  <2>3. CASE Goto(d, "submit") /\ UNCHANGED receipt
    <3>1. Alone(d) /\ pc'[d] \in Working \ {"complete", "settle"}
      BY <2>1, <2>3, Zenon DEF Goto, Alone, Still, TypeOK, Working
    <3> QED
      BY <2>1, <3>1, Onward, OneMoves, Zenon
  <2> QED
    BY <1>13, <2>2, <2>3, Zenon DEF MarkExecuting
<1>14. ASSUME NEW d \in Drivers, Submit(d) PROVE \A e \in Drivers : DriverInv(e)'
  <2>1. UNCHANGED <<target, todo, command>> /\ pc[d] \in Working
    BY <1>14, Zenon DEF Submit, Working
  <2>2. CASE Raise(d) /\ UNCHANGED receipt
    BY <2>1, <2>2, Raised, OneMoves
  <2>3. ASSUME NEW outcome \in SubmitOutcomes(d) \ {"raises"}, Goto(d, "complete"),
               receipt' = [receipt EXCEPT ![d] = outcome],
               outcome = "succeeded" => <<target[d], command[target[d]]>> \in stored'
        PROVE  \A e \in Drivers : DriverInv(e)'
    <3>1. Alone(d) /\ pc'[d] = "complete" /\ receipt'[d] = outcome
      BY <2>1, <2>3, Zenon DEF Goto, Alone, Still, TypeOK
    <3>2. outcome \in {"succeeded", "uncertain", "failed_retryable", "quarantined"}
      BY IngressAssumption DEF SubmitOutcomes, AllOutcomes
    <3>3. DriverInv(d)'
      BY Zenon, <2>1, <2>3, <3>1, <3>2 DEF DriverInv, HandlerInv, DrainInv, EvidenceInv, Working
    <3> QED
      BY <3>1, <3>3, OneMoves, Zenon
  <2> QED
    BY <1>14, <2>2, <2>3, Zenon DEF Submit
<1>15. ASSUME NEW d \in Drivers, Complete(d) PROVE \A e \in Drivers : DriverInv(e)'
  <2>1. UNCHANGED <<target, todo>> /\ pc[d] \in Working /\ target[d] \in Keys
    BY <1>15 DEF Complete, Working, TypeOK
  <2>2. CASE Return(d, "stale_owner_rejected")
    BY <2>1, <2>2, Returned, OneMoves, Zenon DEF Terminal
  <2>3. ASSUME NEW retry \in NewDeadline(d), SetRow(d, Outcome(d, retry)),
               Return(d, Outcome(d, retry).status)
        PROVE  \A e \in Drivers : DriverInv(e)'
    <3>1. job'[target[d]].status = Outcome(d, retry).status
      BY <2>1, <2>3 DEF SetRow, TypeOK
    <3> QED
      BY Zenon, <2>1, <2>3, <3>1, Returned, OneMoves
  <2> QED
    BY <1>15, <2>2, <2>3, Zenon DEF Complete
<1>16. ASSUME NEW d \in Handlers, LogOutcome(d) PROVE \A e \in Drivers : DriverInv(e)'
  <2>1. Alone(d) /\ d \in Drivers /\ target'[d] = target[d] /\ pc'[d] = "ack"
    BY Zenon, <1>16, HandlerFacts DEF LogOutcome, Goto, Alone, Still, TypeOK
  <2>2. Settled(d[1])
    BY Zenon, <1>16, <2>1 DEF LogOutcome, DriverInv, HandlerInv, Settled, Working
  <2> QED
    BY Zenon, <2>1, <2>2, SettledStays, HandlerFacts, AboutToAck, OneMoves
<1>17. ASSUME NEW d \in Handlers, Defer(d) PROVE \A e \in Drivers : DriverInv(e)'
  <2>1. /\ Alone(d) /\ d \in Drivers /\ UNCHANGED <<target, todo>>
        /\ pc'[d] \in {"idle", "start", "inbox", "consume", "poison", "poison_log",
                        "next", "done"}
    BY <1>17, HandlerFacts, DriverFacts DEF Defer, Goto, Alone, Still, TypeOK, Raise
  <2> QED
    BY Zenon, <2>1, AtRest, OneMoves
<1>18. ASSUME NEW d \in Handlers, Ack(d) PROVE \A e \in Drivers : DriverInv(e)'
  <2>1. /\ Alone(d) /\ d \in Drivers /\ UNCHANGED <<target, todo>>
        /\ pc'[d] \in {"idle", "start", "inbox", "consume", "poison", "poison_log",
                        "next", "done"}
    BY <1>18, HandlerFacts, DriverFacts, Zenon DEF Ack, Goto, Alone, Still, TypeOK
  <2> QED
    BY <2>1, AtRest, OneMoves, Zenon
<1>19. ASSUME NEW d \in Handlers, PoisonRead(d) PROVE \A e \in Drivers : DriverInv(e)'
  <2>1. d \in Drivers /\ UNCHANGED <<target, todo, receipt, payload>>
    BY Zenon, <1>19, HandlerFacts DEF PoisonRead
  <2>2. CASE Unrecorded(d)
    BY <2>1, <2>2, Raised, OneMoves, Zenon
  <2>3. CASE Goto(d, "poison_log")
    <3>1. Alone(d) /\ pc'[d] = "poison_log"
      BY <2>1, <2>3 DEF Goto, Alone, Still, TypeOK
    <3> QED
      BY <2>1, <3>1, AtRest, OneMoves, Zenon
  <2>4. CASE payload[target[d]] = Wire[d[1]] /\ Goto(d, "quarantine")
    <3>1. Alone(d) /\ pc'[d] = "quarantine"
      BY Zenon, <2>1, <2>4 DEF Goto, Alone, Still, TypeOK
    <3>2. DriverInv(d)'
      BY Zenon, <2>1, <2>4, <3>1, HandlerFacts DEF DriverInv, HandlerInv, EvidenceInv, Working
    <3> QED
      BY <2>1, <3>1, <3>2, OneMoves, Zenon
  <2> QED
    BY <1>19, <2>2, <2>3, <2>4, Zenon DEF PoisonRead, Msg
<1>20. ASSUME NEW d \in Handlers, QuarantineTransport(d) PROVE \A e \in Drivers : DriverInv(e)'
  <2>1. d \in Drivers /\ UNCHANGED <<target, todo, receipt, payload>>
    BY Zenon, <1>20, HandlerFacts DEF QuarantineTransport
  <2>2. CASE Unrecorded(d)
    BY <2>1, <2>2, Raised, OneMoves, Zenon
  <2>3. CASE Goto(d, "poison_link")
    <3>1. Alone(d) /\ pc'[d] = "poison_link"
      BY <2>1, <2>3, Zenon DEF Goto, Alone, Still, TypeOK
    <3>2. DriverInv(d)'
      BY Zenon, <1>20, <2>1, <3>1, HandlerFacts
      DEF QuarantineTransport, DriverInv, HandlerInv, EvidenceInv, Working
    <3> QED
      BY <2>1, <3>1, <3>2, OneMoves, Zenon
  <2> QED
    BY <1>20, <2>2, <2>3, Zenon DEF QuarantineTransport
<1>21. ASSUME NEW d \in Handlers, PoisonLink(d) PROVE \A e \in Drivers : DriverInv(e)'
  <2>1. /\ Alone(d) /\ d \in Drivers /\ UNCHANGED <<target, todo>>
        /\ pc'[d] \in {"idle", "start", "inbox", "consume", "poison", "poison_log",
                        "next", "done"}
    BY Zenon, <1>21, HandlerFacts, DriverFacts DEF PoisonLink, Goto, Alone, Still, TypeOK, Unrecorded
  <2> QED
    BY <2>1, AtRest, OneMoves, Zenon
<1>22. ASSUME NEW d \in Handlers, PoisonLog(d) PROVE \A e \in Drivers : DriverInv(e)'
  <2>1. Alone(d) /\ d \in Drivers /\ target'[d] = target[d] /\ pc'[d] = "ack"
    BY <1>22, HandlerFacts, Zenon DEF PoisonLog, Goto, Alone, Still, TypeOK
  <2>2. Settled(d[1])'
    BY <1>22, HandlerFacts, Zenon DEF PoisonLog, Settled, Excused, Msg
  <2> QED
    BY <2>1, <2>2, AboutToAck, OneMoves, Zenon
<1>23. ASSUME NEW d \in Drains, DrainSelect(d) PROVE \A e \in Drivers : DriverInv(e)'
  <2>1. d \in Drivers /\ d \notin Handlers /\ pc'[d] = "next"
    BY <1>23, DriverFacts, Zenon DEF DrainSelect, Goto, TypeOK, Drivers
  <2>2. Alone(d)
    BY <1>23, <2>1, Zenon DEF DrainSelect, Goto, Alone, Still, TypeOK
  <2>3. \A k \in todo'[d] : command'[k] # NoHash
    BY <1>23 DEF DrainSelect, Drainable, DataInv, JobInv, TypeOK
  <2> QED
    BY Zenon, <2>1, <2>2, <2>3, OneMoves DEF DriverInv, DrainInv, EvidenceInv, Working
<1>24. ASSUME NEW d \in Drains, DrainNext(d) PROVE \A e \in Drivers : DriverInv(e)'
  <2>1. d \in Drivers /\ d \notin Handlers /\ pc'[d] = "exec"
    BY <1>24, DriverFacts, Zenon DEF DrainNext, Goto, TypeOK, Drivers
  <2>2. Alone(d)
    BY <1>24, <2>1, Zenon DEF DrainNext, Goto, Alone, Still, TypeOK
  <2>3. target'[d] \in todo[d] /\ todo'[d] \subseteq todo[d] /\ UNCHANGED command
    BY <1>24, <2>1 DEF DrainNext, TypeOK
  <2> QED
    BY Zenon, <2>1, <2>2, <2>3, OneMoves DEF DriverInv, DrainInv, EvidenceInv
<1>25. ASSUME NEW d \in Drains, DrainFinish(d) PROVE \A e \in Drivers : DriverInv(e)'
  <2>1. /\ Alone(d) /\ d \in Drivers /\ UNCHANGED <<target, todo>>
        /\ pc'[d] \in {"idle", "start", "inbox", "consume", "poison", "poison_log",
                        "next", "done"}
    BY <1>25, DriverFacts, Zenon DEF DrainFinish, Goto, Alone, Still, TypeOK, Drivers
  <2> QED
    BY <2>1, AtRest, OneMoves, Zenon
<1>26. ASSUME NEW k \in Keys, LeaseExpires(k) PROVE \A e \in Drivers : DriverInv(e)'
  <2>1. \A e \in Drivers : Still(e)
    BY Zenon, <1>26 DEF LeaseExpires, Still
  <2> QED
    BY <2>1, Bystander, Zenon
<1>27. ASSUME NEW k \in Keys, RetryDue(k) PROVE \A e \in Drivers : DriverInv(e)'
  <2>1. \A e \in Drivers : Still(e)
    BY Zenon, <1>27 DEF RetryDue, Still
  <2> QED
    BY <2>1, Bystander, Zenon
<1>28. ASSUME NEW d \in Drivers, Fail(d) PROVE \A e \in Drivers : DriverInv(e)'
  <2>1. /\ Alone(d) /\ d \in Drivers /\ UNCHANGED <<target, todo>>
        /\ pc'[d] \in {"idle", "start", "inbox", "consume", "poison", "poison_log",
                        "next", "done"}
    BY <1>28, DriverFacts, Zenon DEF Fail, Goto, Alone, Still, TypeOK, Raise, Unrecorded
  <2> QED
    BY Zenon, <2>1, AtRest, OneMoves
<1>29. ASSUME NEW d \in Drivers, Crash(d) PROVE \A e \in Drivers : DriverInv(e)'
  <2>1. /\ Alone(d) /\ d \in Drivers /\ UNCHANGED <<target, todo>>
        /\ pc'[d] \in {"idle", "start", "inbox", "consume", "poison", "poison_log",
                        "next", "done"}
    BY <1>29, DriverFacts, Zenon DEF Crash, Goto, Alone, Still, TypeOK
  <2> QED
    BY <2>1, AtRest, OneMoves, Zenon
<1>30. CASE UNCHANGED vars
  BY <1>30, Bystander, Zenon DEF vars, Still
<1> QED
  BY <1>1, <1>2, <1>3, <1>4, <1>5, <1>6, <1>7, <1>8, <1>10, <1>11, <1>12,
    <1>13, <1>14, <1>15, <1>16, <1>17, <1>18, <1>19, <1>20, <1>21, <1>22,
    <1>23, <1>24, <1>25, <1>26, <1>27, <1>28, <1>29, <1>30, Zenon DEF Next,
    HandlerStep, DrainStep, Accepting, Delivering, Finishing, Drivers

-----------------------------------------------------------------------------
(* The queue and the log.                                                   *)

\* Only a settled message is newly removed, only a success newly logged.
QueueMove ==
    /\ \A m \in Msgs : queue'[m] = "removed" => queue[m] = "removed" \/ Settled(m)
    /\ \A k \in Keys : log'[k] = "delivered" => log[k] = "delivered" \/ job[k].status = "succeeded"

\* A nak never removes a message (handle_msg's exception paths).
LEMMA NakKeeps ==
    ASSUME TypeOK, NEW m \in Msgs, Nak(m)
    PROVE  \A n \in Msgs : queue'[n] = "removed" <=> queue[n] = "removed"
BY Zenon DEF TypeOK, Nak

\* Neither does any other end of a driver.
LEMMA RaiseKeeps ==
    ASSUME TypeOK, NEW d \in Drivers, Raise(d) \/ (d \in Handlers /\ Unrecorded(d))
    PROVE  \A n \in Msgs : queue'[n] = "removed" <=> queue[n] = "removed"
BY NakKeeps, HandlerFacts DEF Raise, Unrecorded, Msg

\* A message is removed only when it is settled, and a delivery is logged only
\* for a job that succeeded.
LEMMA QueueStep ==
    ASSUME TypeOK, \A d \in Drivers : DriverInv(d), [Next]_vars
    PROVE  QueueMove
<1> USE DEF brokerVars, acceptVars, jobVars, logVars, localVars
<1>1. ASSUME NEW m \in Msgs, Deliver(m) PROVE QueueMove
  BY <1>1, Zenon DEF Deliver, QueueMove, TypeOK
<1>2. ASSUME NEW m \in Msgs, AckWait(m) PROVE QueueMove
  BY <1>2 DEF AckWait, QueueMove, TypeOK
<1>3. ASSUME NEW d \in Handlers, Refuse(d) PROVE QueueMove
  BY Zenon, <1>3, HandlerFacts, RaiseKeeps DEF Refuse, QueueMove, TypeOK
<1>4. ASSUME NEW d \in Handlers, Lookup(d) PROVE QueueMove
  BY Zenon, <1>4, HandlerFacts, RaiseKeeps DEF Lookup, QueueMove, TypeOK
<1>5. ASSUME NEW d \in Handlers, RecordInbox(d) PROVE QueueMove
  BY Zenon, <1>5, HandlerFacts, RaiseKeeps DEF RecordInbox, QueueMove, TypeOK
<1>6. ASSUME NEW d \in Handlers, ConsumeInbox(d) PROVE QueueMove
  BY Zenon, <1>6, HandlerFacts, RaiseKeeps DEF ConsumeInbox, QueueMove, TypeOK
<1>7. ASSUME NEW d \in Handlers, RecordPayload(d) PROVE QueueMove
  BY Zenon, <1>7, HandlerFacts, RaiseKeeps DEF RecordPayload, QueueMove, TypeOK
<1>8. ASSUME NEW d \in Handlers, LogReceived(d) PROVE QueueMove
  BY Zenon, <1>8, HandlerFacts, RaiseKeeps DEF LogReceived, QueueMove, TypeOK
<1>10. ASSUME NEW d \in Drivers, Execute(d) PROVE QueueMove
  BY <1>10, Zenon DEF Execute, QueueMove, TypeOK
<1>11. ASSUME NEW d \in Drivers, Claim(d) PROVE QueueMove
  BY <1>11, Zenon DEF Claim, QueueMove, TypeOK
<1>12. ASSUME NEW d \in Drivers, ClaimRejected(d) PROVE QueueMove
  BY <1>12 DEF ClaimRejected, QueueMove, TypeOK
<1>13. ASSUME NEW d \in Drivers, MarkExecuting(d) PROVE QueueMove
  BY <1>13, Zenon DEF MarkExecuting, QueueMove, TypeOK
<1>14. ASSUME NEW d \in Drivers, Submit(d) PROVE QueueMove
  BY <1>14, RaiseKeeps, Zenon DEF Submit, QueueMove, TypeOK
<1>15. ASSUME NEW d \in Drivers, Complete(d) PROVE QueueMove
  BY <1>15 DEF Complete, QueueMove, TypeOK
<1>16. ASSUME NEW d \in Handlers, LogOutcome(d) PROVE QueueMove
  BY Zenon, <1>16, HandlerFacts DEF LogOutcome, QueueMove, TypeOK, DriverInv,
    HandlerInv, Terminal
<1>17. ASSUME NEW d \in Handlers, Defer(d) PROVE QueueMove
  BY Zenon, <1>17, HandlerFacts, RaiseKeeps, NakKeeps DEF Defer, QueueMove, TypeOK,
    Msg
<1>18. ASSUME NEW d \in Handlers, Ack(d) PROVE QueueMove
  BY Zenon, <1>18, HandlerFacts DEF Ack, QueueMove, TypeOK, Msg, DriverInv, HandlerInv
<1>19. ASSUME NEW d \in Handlers, PoisonRead(d) PROVE QueueMove
  BY Zenon, <1>19, HandlerFacts, RaiseKeeps DEF PoisonRead, QueueMove, TypeOK
<1>20. ASSUME NEW d \in Handlers, QuarantineTransport(d) PROVE QueueMove
  BY Zenon, <1>20, HandlerFacts, RaiseKeeps DEF QuarantineTransport, QueueMove, TypeOK
<1>21. ASSUME NEW d \in Handlers, PoisonLink(d) PROVE QueueMove
  BY Zenon, <1>21, HandlerFacts, RaiseKeeps DEF PoisonLink, QueueMove, TypeOK
<1>22. ASSUME NEW d \in Handlers, PoisonLog(d) PROVE QueueMove
  BY Zenon, <1>22, HandlerFacts, RaiseKeeps DEF PoisonLog, QueueMove, TypeOK
<1>23. ASSUME NEW d \in Drains, DrainSelect(d) PROVE QueueMove
  BY <1>23 DEF DrainSelect, QueueMove, TypeOK
<1>24. ASSUME NEW d \in Drains, DrainNext(d) PROVE QueueMove
  BY <1>24, Zenon DEF DrainNext, QueueMove, TypeOK
<1>25. ASSUME NEW d \in Drains, DrainFinish(d) PROVE QueueMove
  BY <1>25, Zenon DEF DrainFinish, QueueMove, TypeOK
<1>26. ASSUME NEW k \in Keys, LeaseExpires(k) PROVE QueueMove
  BY <1>26 DEF LeaseExpires, QueueMove, TypeOK
<1>27. ASSUME NEW k \in Keys, RetryDue(k) PROVE QueueMove
  BY <1>27, Zenon DEF RetryDue, QueueMove, TypeOK
<1>28. ASSUME NEW d \in Drivers, Fail(d) PROVE QueueMove
  BY Zenon, <1>28, RaiseKeeps DEF Fail, QueueMove, TypeOK
<1>29. ASSUME NEW d \in Drivers, Crash(d) PROVE QueueMove
  BY <1>29, Zenon DEF Crash, QueueMove, TypeOK
<1>30. CASE UNCHANGED vars
  BY Zenon, <1>30 DEF vars, QueueMove
<1> QED
  BY Zenon, <1>1, <1>2, <1>3, <1>4, <1>5, <1>6, <1>7, <1>8, <1>10, <1>11, <1>12,
    <1>13, <1>14, <1>15, <1>16, <1>17, <1>18, <1>19, <1>20, <1>21, <1>22,
    <1>23, <1>24, <1>25, <1>26, <1>27, <1>28, <1>29, <1>30 DEF Next,
    HandlerStep, DrainStep, Accepting, Delivering, Finishing, Drivers

-----------------------------------------------------------------------------
(* The theorems.                                                            *)

\* The empty tables, idle drivers and full queue satisfy the invariant.
LEMMA InvInit == Init => Inv
<1> SUFFICES ASSUME Init PROVE Inv
  BY Zenon
<1>1. TypeOK
  BY TypeInit, Zenon
<1>2. DataInv
  BY Zenon DEF Init, DataInv, JobInv, AbsentJob, RetainedPayloadMatches, SucceededIsStored
<1>3. \A d \in Drivers : DriverInv(d)
  BY Zenon, DriverFacts, HandlerFacts
  DEF Init, DriverInv, HandlerInv, DrainInv, EvidenceInv, Working, Drivers
<1>4. QueueInv
  BY Zenon DEF Init, QueueInv, LoggedDeliveryIsCanonical
<1> QED
  BY <1>1, <1>2, <1>3, <1>4, Zenon DEF Inv

\* Every step keeps the invariant, and the tables only grow.
LEMMA InvStep ==
    ASSUME Inv, [Next]_vars
    PROVE  Inv' /\ Monotone
<1>1. TypeOK'
  BY TypeStep, Zenon DEF Inv, DataInv, DriverInv
<1>2. DataInv' /\ Monotone
  BY DataStep, Zenon DEF Inv
<1>3. (\A d \in Drivers : DriverInv(d))'
  BY <1>2, DriverStep, Zenon DEF Inv
<1>4. QueueInv'
  <2>1. QueueMove
    BY QueueStep, Zenon DEF Inv
  <2>2. \A m \in Msgs : queue'[m] = "removed" => Settled(m)'
    BY <1>2, <2>1, SettledStays, Zenon DEF Inv, QueueInv, QueueMove
  <2>3. LoggedDeliveryIsCanonical'
    BY <1>2, <2>1, Zenon DEF Inv, QueueInv, QueueMove, LoggedDeliveryIsCanonical, Monotone, Terminal
  <2> QED
    BY <2>2, <2>3, Zenon DEF QueueInv
<1> QED
  BY <1>1, <1>2, <1>3, <1>4, Zenon DEF Inv

\* The inductive invariant holds throughout the ingress lane.
THEOREM Invariance == Spec => []Inv
<1>1. Inv /\ [Next]_vars => Inv'
  BY InvStep, Zenon
<1> QED
  BY InvInit, <1>1, PTL DEF Spec

\* Every table, label and receipt keeps its type in every reachable state.
THEOREM TypeCorrect == Spec => []TypeOK
<1>1. Inv => TypeOK
  BY Zenon DEF Inv
<1> QED
  BY Invariance, <1>1, PTL

\* A job reads succeeded only when the source store has its content, for any
\* number of handlers and drains (complete_delivery_with_evidence).
THEOREM SuccessIsReal == Spec => []SucceededIsStored
<1>1. Inv => SucceededIsStored
  BY Zenon DEF Inv, DataInv
<1> QED
  BY Invariance, <1>1, PTL

\* The shadow log reports a delivery only for a succeeded job (process_payload).
THEOREM LogIsHonest == Spec => []LoggedDeliveryIsCanonical
<1>1. Inv => LoggedDeliveryIsCanonical
  BY Zenon DEF Inv, QueueInv
<1> QED
  BY Invariance, <1>1, PTL

\* A retained payload is the accepted one (record_delivery_payload).
THEOREM PayloadIsRetained == Spec => []RetainedPayloadMatches
<1>1. Inv => RetainedPayloadMatches
  BY Zenon DEF Inv, DataInv
<1> QED
  BY Invariance, <1>1, PTL

\* No message is removed without durable evidence of its fate (handle_msg).
THEOREM NoSilentLoss == Spec => []RemovedIsSettled
<1>1. Inv => RemovedIsSettled
  BY Zenon DEF Inv, QueueInv, Settled, Excused, RemovedIsSettled
<1> QED
  BY Invariance, <1>1, PTL

\* succeeded and quarantined are final under every interleaving of claims,
\* completions, transport quarantines and drains.
THEOREM FateIsFinal == Spec => TerminalIsFinal
<1>1. Inv /\ [Next]_vars =>
         [\A k \in Keys : job[k].status \in Terminal => job'[k].status = job[k].status]_vars
  BY InvStep, Zenon DEF Monotone
<1> QED
  BY Invariance, <1>1, PTL DEF Spec, TerminalIsFinal

-----------------------------------------------------------------------------
(* The refinement of DeliveryPromise.                                       *)

Promised == Promise!Next \/ UNCHANGED Promise!promiseVars

\* Steps that touch neither commands, fates, documents, poison rows nor the
\* set of removed messages are stutters of the promise.
LEMMA Quiet ==
    ASSUME UNCHANGED <<command, stored, poison>>,
           \A k \in Keys : job'[k].status = job[k].status,
           \A m \in Msgs : queue'[m] = "removed" <=> queue[m] = "removed"
    PROVE  Promised
<1>1. Fate' = Fate
  BY Zenon DEF Fate
<1>2. Excused' = Excused /\ Gone' = Gone
  BY Zenon DEF Excused, Gone
<1> QED
  BY <1>1, <1>2, Zenon DEF Promised, Promise!promiseVars

\* A fenced row update quarantines, succeeds behind a stored document, or
\* leaves the fate open (the row updates of DeliveryExecutor).
LEMMA RowPromised ==
    ASSUME TypeOK, NEW d \in Drivers, NEW row \in Rows(Owners), SetRow(d, row),
           command[target[d]] # NoHash, Row(d).status \notin Terminal,
           row.status = "succeeded" => <<target[d], command[target[d]]>> \in stored,
           UNCHANGED <<command, stored, poison, queue>>
    PROVE  Promised
<1>1. /\ target[d] \in Keys /\ job'[target[d]] = row
      /\ \A k \in Keys : k # target[d] => job'[k] = job[k]
  BY Zenon DEF TypeOK, SetRow
<1>2. Excused' = Excused /\ Gone' = Gone
  BY Zenon DEF Excused, Gone
<1>3. Fate[target[d]] = "open"
  BY Zenon, <1>1 DEF Fate, Row
<1>4. CASE row.status = "succeeded"
  <2>1. Fate' = [Fate EXCEPT ![target[d]] = "succeeded"]
    BY Zenon, <1>1, <1>4 DEF Fate, Terminal
  <2> QED
    BY Zenon, <1>1, <1>2, <1>3, <1>4, <2>1 DEF Promised, Promise!Next, Promise!Succeed
<1>5. CASE row.status = "quarantined"
  <2>1. Fate' = [Fate EXCEPT ![target[d]] = "quarantined"]
    BY Zenon, <1>1, <1>5 DEF Fate, Terminal
  <2> QED
    BY Zenon, <1>1, <1>2, <1>3, <2>1 DEF Promised, Promise!Next, Promise!Quarantine
<1>6. CASE row.status \notin Terminal
  <2>1. Fate' = Fate
    BY Zenon, <1>1, <1>6 DEF Fate, Row
  <2> QED
    BY Zenon, <1>2, <2>1 DEF Promised, Promise!promiseVars
<1> QED
  BY <1>4, <1>5, <1>6, Zenon DEF Terminal

\* Every step of the lane is a step the promise allows.
LEMMA PromiseStep ==
    ASSUME TypeOK, DataInv, \A d \in Drivers : DriverInv(d), [Next]_vars
    PROVE  Promised
<1> USE DEF brokerVars, acceptVars, jobVars, logVars, localVars
<1>1. ASSUME NEW m \in Msgs, Deliver(m) PROVE Promised
  BY <1>1, Quiet, Zenon DEF Deliver, TypeOK
<1>2. ASSUME NEW m \in Msgs, AckWait(m) PROVE Promised
  BY <1>2, Quiet, Zenon DEF AckWait, TypeOK
<1>3. ASSUME NEW d \in Handlers, Refuse(d) PROVE Promised
  BY Zenon, <1>3, Quiet, HandlerFacts, RaiseKeeps DEF Refuse
<1>4. ASSUME NEW d \in Handlers, Lookup(d) PROVE Promised
  BY Zenon, <1>4, Quiet, HandlerFacts, RaiseKeeps DEF Lookup
<1>5. ASSUME NEW d \in Handlers, RecordInbox(d) PROVE Promised
  BY Zenon, <1>5, Quiet, HandlerFacts, RaiseKeeps DEF RecordInbox
<1>6. ASSUME NEW d \in Handlers, ConsumeInbox(d) PROVE Promised
  <2>1. CASE command[target[d]] = NoHash
    <3>1. /\ target[d] \in Keys /\ Wire[d[1]].hash \in Hashes
          /\ command' = [command EXCEPT ![target[d]] = Wire[d[1]].hash]
          /\ job' = [job EXCEPT ![target[d]] = NewJob]
          /\ UNCHANGED <<stored, poison, queue>>
      BY Zenon, <1>6, <2>1, HandlerFacts DEF ConsumeInbox, SetRow, Msg, TypeOK
    <3>2. Fate' = Fate
      BY <2>1, <3>1 DEF Fate, NewJob, AbsentJob, DataInv, JobInv, Terminal, TypeOK
    <3>3. Excused' = Excused /\ Gone' = Gone
      BY Zenon, <3>1 DEF Excused, Gone
    <3> QED
      BY Zenon, <2>1, <3>1, <3>2, <3>3 DEF Promised, Promise!Next, Promise!Accept
  <2>2. CASE command[target[d]] # NoHash
    BY Zenon, <1>6, <2>2, Quiet, HandlerFacts, RaiseKeeps DEF ConsumeInbox
  <2> QED
    BY <2>1, <2>2
<1>7. ASSUME NEW d \in Handlers, RecordPayload(d) PROVE Promised
  BY Zenon, <1>7, Quiet, HandlerFacts, RaiseKeeps DEF RecordPayload
<1>8. ASSUME NEW d \in Handlers, LogReceived(d) PROVE Promised
  BY Zenon, <1>8, Quiet, HandlerFacts, RaiseKeeps DEF LogReceived
<1>10. ASSUME NEW d \in Drivers, Execute(d) PROVE Promised
  BY <1>10, Quiet, Zenon DEF Execute
<1>11. ASSUME NEW d \in Drivers, Claim(d) PROVE Promised
  <2>1. /\ command[target[d]] # NoHash /\ Row(d) \in Rows(Owners)
        /\ UNCHANGED <<command, stored, poison, queue>>
    BY Zenon, <1>11, WorkingFacts DEF Claim, Working
  <2>2. PICK row \in RowAsSeen(d) :
          \/ UNCHANGED jobVars
          \/ /\ Claimable(row, OwnerOf(d))
             /\ \/ SetRow(d, AttemptLimit(Row(d)))
                \/ \E until \in NewDeadline(d) :
                      SetRow(d, Claimed(Row(d), OwnerOf(d), until))
    BY <1>11, Zenon DEF Claim
  <2>3. Claimable(row, OwnerOf(d)) => Row(d).status \notin Terminal
    BY SeenRows, Zenon DEF Claimable, Terminal
  <2>4. CASE UNCHANGED jobVars
    BY Zenon, <2>1, <2>4, Quiet
  <2>5. CASE Claimable(row, OwnerOf(d)) /\ SetRow(d, AttemptLimit(Row(d)))
    <3>1. /\ AttemptLimit(Row(d)) \in Rows(Owners)
          /\ AttemptLimit(Row(d)).status = "quarantined"
      BY Zenon, <2>1, RowTransactions, DriverFacts
    <3> QED
      BY Zenon, <2>1, <2>3, <2>5, <3>1, RowPromised
  <2>6. ASSUME Claimable(row, OwnerOf(d)), NEW until \in NewDeadline(d),
               SetRow(d, Claimed(Row(d), OwnerOf(d), until))
        PROVE  Promised
    <3>1. /\ Claimed(Row(d), OwnerOf(d), until) \in Rows(Owners)
          /\ Claimed(Row(d), OwnerOf(d), until).status = "claimed"
      <4>1. OwnerOf(d) \in Owners /\ until \in {"future", "past"} /\ Row(d) \in Rows(Owners)
        BY <2>1, DriverFacts, Zenon
      <4> QED
        BY Zenon, <4>1, ClaimRows
    <3> QED
      BY Zenon, <2>1, <2>3, <2>6, <3>1, RowPromised
  <2> QED
    BY <2>2, <2>4, <2>5, <2>6, Zenon
<1>12. ASSUME NEW d \in Drivers, ClaimRejected(d) PROVE Promised
  BY <1>12, Quiet, Zenon DEF ClaimRejected
<1>13. ASSUME NEW d \in Drivers, MarkExecuting(d) PROVE Promised
  <2>1. /\ command[target[d]] # NoHash /\ Row(d) \in Rows(Owners)
        /\ UNCHANGED <<command, stored, poison, queue>>
    BY Zenon, <1>13, WorkingFacts DEF MarkExecuting, Working
  <2>2. PICK row \in RowAsSeen(d) :
          \/ UNCHANGED jobVars
          \/ OwnsLease(row, OwnerOf(d)) /\ SetRow(d, Executing(Row(d)))
    BY <1>13, Zenon DEF MarkExecuting
  <2>3. CASE UNCHANGED jobVars
    BY Zenon, <2>1, <2>3, Quiet
  <2>4. CASE OwnsLease(row, OwnerOf(d)) /\ SetRow(d, Executing(Row(d)))
    <3>1. Row(d).status \notin Terminal
      BY <2>4, OwnedRow, Zenon DEF Terminal
    <3>2. Executing(Row(d)) \in Rows(Owners) /\ Executing(Row(d)).status = "executing"
      BY Zenon, <2>1, ClaimRows, DriverFacts
    <3> QED
      BY Zenon, <2>1, <2>4, <3>1, <3>2, RowPromised
  <2> QED
    BY <2>2, <2>3, <2>4, Zenon
<1>14. ASSUME NEW d \in Drivers, Submit(d) PROVE Promised
  <2>1. /\ UNCHANGED <<command, job, poison>> /\ target[d] \in Keys
        /\ command[target[d]] # NoHash
        /\ \A m \in Msgs : queue'[m] = "removed" <=> queue[m] = "removed"
    BY Zenon, <1>14, WorkingFacts, RaiseKeeps DEF Submit, Working
  <2>2. Excused' = Excused /\ Gone' = Gone /\ Fate' = Fate
    BY Zenon, <2>1 DEF Excused, Gone, Fate
  <2>3. CASE UNCHANGED stored
    BY <2>1, <2>3, Quiet, Zenon
  <2>4. CASE stored' = stored \cup {<<target[d], command[target[d]]>>}
    BY Zenon, <2>1, <2>2, <2>4 DEF Promised, Promise!Next, Promise!Write
  <2> QED
    BY <1>14, <2>3, <2>4, Zenon DEF Submit
<1>15. ASSUME NEW d \in Drivers, Complete(d) PROVE Promised
  <2>1. /\ command[target[d]] # NoHash
        /\ UNCHANGED <<command, stored, poison, queue>>
    BY Zenon, <1>15, WorkingFacts DEF Complete, Working
  <2>2. PICK row \in RowAsSeen(d) :
          \/ UNCHANGED jobVars
          \/ /\ OwnsLease(row, OwnerOf(d))
             /\ \E retry \in NewDeadline(d) : SetRow(d, Outcome(d, retry))
    BY <1>15, Zenon DEF Complete
  <2>3. CASE UNCHANGED jobVars
    BY Zenon, <2>1, <2>3, Quiet
  <2>4. ASSUME OwnsLease(row, OwnerOf(d)), NEW retry \in NewDeadline(d),
               SetRow(d, Outcome(d, retry))
        PROVE  Promised
    <3>1. Row(d).status \notin Terminal
      BY <2>4, OwnedRow, Zenon DEF Terminal
    <3>2. EvidenceInv(d) /\ pc[d] = "complete"
      BY <1>15, Zenon DEF DriverInv, Complete
    <3>3. /\ Outcome(d, retry) \in Rows(Owners)
          /\ Outcome(d, retry).status = "succeeded" =>
                <<target[d], command[target[d]]>> \in stored
      BY Zenon, <3>2, OutcomeType DEF EvidenceInv
    <3> QED
      BY Zenon, <2>1, <2>4, <3>1, <3>3, RowPromised
  <2> QED
    BY <2>2, <2>3, <2>4, Zenon
<1>16. ASSUME NEW d \in Handlers, LogOutcome(d) PROVE Promised
  BY Zenon, <1>16, Quiet, HandlerFacts, RaiseKeeps DEF LogOutcome
<1>17. ASSUME NEW d \in Handlers, Defer(d) PROVE Promised
  BY Zenon, <1>17, Quiet, HandlerFacts, RaiseKeeps, NakKeeps DEF Defer, Msg
<1>18. ASSUME NEW d \in Handlers, Ack(d) PROVE Promised
  <2>1. /\ d[1] \in Msgs /\ Settled(d[1]) /\ queue' = [queue EXCEPT ![d[1]] = "removed"]
        /\ UNCHANGED <<command, job, stored, poison>>
    BY Zenon, <1>18, HandlerFacts DEF Ack, Msg, DriverInv, HandlerInv
  <2>2. Fate' = Fate /\ Excused' = Excused /\ Gone' = Gone \cup {d[1]}
    BY Zenon, <2>1 DEF Fate, Excused, Gone, TypeOK
  <2>3. Wire[d[1]].key \in Keys
    BY HandlerFacts, Zenon
  <2>4. \/ d[1] \in Excused
        \/ /\ Fate[[m \in Msgs |-> Wire[m].key][d[1]]] # "open"
           /\ command[[m \in Msgs |-> Wire[m].key][d[1]]] = [m \in Msgs |-> Wire[m].hash][d[1]]
    BY Zenon, <2>1, <2>3 DEF Settled, Fate, Terminal
  <2> QED
    BY Zenon, <2>1, <2>2, <2>4 DEF Promised, Promise!Next, Promise!Remove
<1>19. ASSUME NEW d \in Handlers, PoisonRead(d) PROVE Promised
  BY Zenon, <1>19, Quiet, HandlerFacts, RaiseKeeps DEF PoisonRead
<1>20. ASSUME NEW d \in Handlers, QuarantineTransport(d) PROVE Promised
  <2>1. CASE UNCHANGED jobVars
    BY Zenon, <1>20, <2>1, Quiet, HandlerFacts, RaiseKeeps DEF QuarantineTransport
  <2>2. CASE Row(d).status \notin Terminal /\ SetRow(d, TransportQuarantined(Row(d)))
                /\ UNCHANGED queue
    <3>1. command[target[d]] # NoHash /\ d \in Drivers /\ Row(d) \in Rows(Owners)
      <4>1. /\ payload[target[d]] = Wire[d[1]] /\ target[d] \in Keys
            /\ Wire[d[1]] # NoPayload /\ Wire[d[1]].hash # NoHash
        BY Zenon, <1>20, HandlerFacts, IngressAssumption
        DEF QuarantineTransport, DriverInv, HandlerInv, TypeOK
      <4> QED
        BY Zenon, <4>1, HandlerFacts DEF DataInv, RetainedPayloadMatches, TypeOK, Row
    <3>2. /\ TransportQuarantined(Row(d)) \in Rows(Owners)
          /\ TransportQuarantined(Row(d)).status = "quarantined"
      BY Zenon, <3>1, RowTransactions, DriverFacts
    <3> QED
      BY Zenon, <1>20, <2>2, <3>1, <3>2, RowPromised DEF QuarantineTransport
  <2> QED
    BY <1>20, <2>1, <2>2, Zenon DEF QuarantineTransport
<1>21. ASSUME NEW d \in Handlers, PoisonLink(d) PROVE Promised
  BY Zenon, <1>21, Quiet, HandlerFacts, RaiseKeeps DEF PoisonLink
<1>22. ASSUME NEW d \in Handlers, PoisonLog(d) PROVE Promised
  <2>1. /\ d[1] \in Msgs /\ poison' = poison \cup {d[1]}
        /\ UNCHANGED <<command, job, stored, queue>>
    BY Zenon, <1>22, HandlerFacts DEF PoisonLog, Msg
  <2>2. Fate' = Fate /\ Excused' = Excused \cup {d[1]} /\ Gone' = Gone
    BY Zenon, <2>1 DEF Fate, Excused, Gone
  <2> QED
    BY <2>1, <2>2, Zenon DEF Promised, Promise!Next, Promise!Excuse
<1>23. ASSUME NEW d \in Drains, DrainSelect(d) PROVE Promised
  BY <1>23, Quiet, Zenon DEF DrainSelect
<1>24. ASSUME NEW d \in Drains, DrainNext(d) PROVE Promised
  BY Zenon, <1>24, Quiet DEF DrainNext
<1>25. ASSUME NEW d \in Drains, DrainFinish(d) PROVE Promised
  BY <1>25, Quiet, Zenon DEF DrainFinish
<1>26. ASSUME NEW k \in Keys, LeaseExpires(k) PROVE Promised
  BY <1>26, Quiet, ClockRows DEF LeaseExpires, TypeOK
<1>27. ASSUME NEW k \in Keys, RetryDue(k) PROVE Promised
  BY Zenon, <1>27, Quiet, ClockRows DEF RetryDue, TypeOK
<1>28. ASSUME NEW d \in Drivers, Fail(d) PROVE Promised
  BY Zenon, <1>28, Quiet, RaiseKeeps DEF Fail
<1>29. ASSUME NEW d \in Drivers, Crash(d) PROVE Promised
  BY <1>29, Quiet, Zenon DEF Crash
<1>30. CASE UNCHANGED vars
  BY <1>30, Quiet, Zenon DEF vars
<1> QED
  BY Zenon, <1>1, <1>2, <1>3, <1>4, <1>5, <1>6, <1>7, <1>8, <1>10, <1>11, <1>12,
    <1>13, <1>14, <1>15, <1>16, <1>17, <1>18, <1>19, <1>20, <1>21, <1>22,
    <1>23, <1>24, <1>25, <1>26, <1>27, <1>28, <1>29, <1>30 DEF Next,
    HandlerStep, DrainStep, Accepting, Delivering, Finishing, Drivers

\* Handlers, leases, retries, crashes and drains implement DeliveryPromise:
\* one content per key, success only behind its document, one final fate, and
\* removal only behind a fate or an excuse.
THEOREM Refinement == Spec => KeepsPromise
<1>1. Init => Promise!Init
  <2> SUFFICES ASSUME Init PROVE Promise!Init
    BY Zenon
  <2>1. Fate = [k \in Keys |-> "open"] /\ Gone = {} /\ Excused \subseteq Msgs
    BY Zenon DEF Init, Fate, Gone, Excused, AbsentJob, Terminal
  <2> QED
    BY Zenon, <2>1 DEF Init, Promise!Init
<1>2. Inv /\ [Next]_vars => [Promise!Next]_(Promise!promiseVars)
  BY PromiseStep, Zenon DEF Inv, Promised
<1> QED
  BY Invariance, <1>1, <1>2, PTL DEF Spec, KeepsPromise, Promise!Spec

-----------------------------------------------------------------------------
(***************************************************************************)
(* On top of the invariant: the attempt budget, the visibility of an       *)
(* uncertain outcome, the protection a live lease gives, and that a        *)
(* quarantine keeps the payload.  They all rest on one lemma, RowChange:   *)
(* the ways in which a step can rewrite a delivery_jobs row, and who can   *)
(* do it from where.                                                       *)
(***************************************************************************)

(* What the transactions do to attempt_count and last_error_class.         *)

\* A claim, a mark, an attempt limit, a transport cap and a completion spend
\* no attempt (the transactions of state_db.py that leave attempt_count).
LEMMA SameCount ==
    ASSUME NEW row \in Rows(Owners), NEW owner, NEW until
    PROVE  /\ Claimed(row, owner, until).attempt_count = row.attempt_count
           /\ Executing(row).attempt_count = row.attempt_count
           /\ AttemptLimit(row).attempt_count = row.attempt_count
           /\ TransportQuarantined(row).attempt_count = row.attempt_count
           /\ LeaseReached(row).attempt_count = row.attempt_count
           /\ RetryReached(row).attempt_count = row.attempt_count
           /\ Claimed(row, owner, until).last_error_class = row.last_error_class
           /\ Executing(row).last_error_class = row.last_error_class
           /\ LeaseReached(row).last_error_class = row.last_error_class
           /\ RetryReached(row).last_error_class = row.last_error_class
           /\ TransportQuarantined(row).last_error_class =
                 IF row.last_error_class = "none" THEN "transport_max_deliver"
                 ELSE row.last_error_class
           /\ \A status \in Terminal :
                 /\ Completed(row, status).attempt_count = row.attempt_count
                 /\ Completed(row, status).last_error_class \in {"none", "delivery_evidence"}
<1>1. /\ Claimed(row, owner, until).attempt_count = row.attempt_count
      /\ Executing(row).attempt_count = row.attempt_count
      /\ Claimed(row, owner, until).last_error_class = row.last_error_class
      /\ Executing(row).last_error_class = row.last_error_class
  BY Zenon DEF Rows, Claimed, Executing
<1>2. /\ LeaseReached(row).attempt_count = row.attempt_count
      /\ RetryReached(row).attempt_count = row.attempt_count
      /\ LeaseReached(row).last_error_class = row.last_error_class
      /\ RetryReached(row).last_error_class = row.last_error_class
  BY Zenon DEF Rows, LeaseReached, RetryReached
<1>3. /\ Unleased(row) \in Rows(Owners)
      /\ Unleased(row).attempt_count = row.attempt_count
      /\ Unleased(row).last_error_class = row.last_error_class
  BY Zenon DEF Rows, Unleased, Deadlines
<1>4. /\ AttemptLimit(row).attempt_count = row.attempt_count
      /\ TransportQuarantined(row).attempt_count = row.attempt_count
  BY Zenon, <1>3 DEF Rows, AttemptLimit, TransportQuarantined
<1>5. TransportQuarantined(row).last_error_class =
          IF row.last_error_class = "none" THEN "transport_max_deliver"
          ELSE row.last_error_class
  BY Zenon, <1>3 DEF Rows, TransportQuarantined
<1>6. \A status \in Terminal :
         /\ Completed(row, status).attempt_count = row.attempt_count
         /\ Completed(row, status).last_error_class \in {"none", "delivery_evidence"}
  BY Zenon, <1>3 DEF Rows, Completed
<1> QED
  BY Zenon, <1>1, <1>2, <1>4, <1>5, <1>6

\* An attempt that ends without a result is counted, and the one that reaches
\* the cap quarantines the job and keeps or sets a class that names the
\* attempt (record_replayable_attempt, record_failed_retryable_attempt).
LEMMA SpentCount ==
    ASSUME NEW row \in Rows(Owners), NEW max \in Nat, NEW retry \in {"future", "past"},
           NEW new \in {ReplayableAttempt(row, max, retry),
                        FailedRetryableAttempt(row, max, retry)}
    PROVE  /\ new.attempt_count = row.attempt_count + 1
           /\ row.attempt_count + 1 >= max => new.status = "quarantined"
           /\ new.last_error_class \in {"remote_outcome_uncertain", "async_parse_failed",
                                        row.last_error_class}
<1>1. /\ Unleased(row) \in Rows(Owners)
      /\ Unleased(row).attempt_count = row.attempt_count
      /\ Unleased(row).last_error_class = row.last_error_class
  BY Zenon DEF Rows, Unleased, Deadlines
<1> DEFINE last == row.attempt_count + 1 >= max
<1>2. CASE new = ReplayableAttempt(row, max, retry)
  <2> HIDE DEF last
  <2>1. /\ new.attempt_count = Unleased(row).attempt_count + 1
        /\ last => new.status = "quarantined"
        /\ new.last_error_class = IF last /\ row.last_error_class # "none"
                                  THEN Unleased(row).last_error_class
                                  ELSE "remote_outcome_uncertain"
    BY Zenon, <1>1, <1>2 DEF Rows, ReplayableAttempt, last
  <2> QED
    BY Zenon, <1>1, <2>1 DEF last
<1>3. CASE new = FailedRetryableAttempt(row, max, retry)
  <2> HIDE DEF last
  <2>1. /\ new.attempt_count = Unleased(row).attempt_count + 1
        /\ last => new.status = "quarantined"
        /\ new.last_error_class = "async_parse_failed"
    BY Zenon, <1>1, <1>3 DEF Rows, FailedRetryableAttempt, last
  <2> QED
    BY Zenon, <1>1, <2>1 DEF last
<1> QED
  BY Zenon, <1>2, <1>3
-----------------------------------------------------------------------------
(* How a row changes.                                                       *)

\* claim_delivery_job by driver d: a claim, or the end of a spent job.
ClaimWrites(d) ==
    /\ pc[d] = "claim" /\ pc'[d] # pc[d]
    /\ \E row \in RowAsSeen(d) :
         /\ Claimable(row, OwnerOf(d))
         /\ \/ /\ row.attempt_count >= MaxAttemptsOf(d)
               /\ job'[target[d]] = AttemptLimit(Row(d))
            \/ \E until \in NewDeadline(d) :
                  job'[target[d]] = Claimed(Row(d), OwnerOf(d), until)

\* A fenced transition by driver d: mark_delivery_executing or an outcome.
OwnerWrites(d) ==
    /\ pc[d] \in {"mark", "complete"} /\ pc'[d] # pc[d]
    /\ \E row \in RowAsSeen(d) : OwnsLease(row, OwnerOf(d))
    /\ \/ job'[target[d]] = Executing(Row(d))
       \/ /\ pc[d] = "complete"
          /\ \E retry \in NewDeadline(d) : job'[target[d]] = Outcome(d, retry)

\* quarantine_transport_delivery by handler d.
CapWrites(d) ==
    /\ d \in Handlers /\ pc[d] = "quarantine"
    /\ ~LeaseLive(Row(d))
    /\ job'[target[d]] = TransportQuarantined(Row(d))

\* All that can happen to the row of key k in one step.
RowMove(k) ==
    \/ job'[k] = job[k]
    \/ job'[k] \in {LeaseReached(job[k]), RetryReached(job[k])}
    \/ job[k].status = "absent" /\ job'[k] = NewJob
    \/ \E d \in Drivers :
          target[d] = k /\ (ClaimWrites(d) \/ OwnerWrites(d) \/ CapWrites(d))

\* A step that rewrites the row of one driver's target leaves the others alone.
LEMMA OneRow ==
    ASSUME TypeOK, NEW d \in Drivers, NEW row, SetRow(d, row)
    PROVE  /\ target[d] \in Keys /\ job'[target[d]] = row
           /\ \A k \in Keys : k # target[d] => job'[k] = job[k]
BY Zenon DEF TypeOK, SetRow

\* A row changes only by the clock, by the command transaction, by a claim,
\* by the owner of its lease, or by the transport cap on an unleased row.
LEMMA RowChange ==
    ASSUME Inv, [Next]_vars
    PROVE  \A k \in Keys : RowMove(k)
<1> USE DEF brokerVars, acceptVars, jobVars, logVars, localVars
<1>t. TypeOK /\ DataInv
  BY Zenon DEF Inv
<1>u. CASE UNCHANGED job
  BY <1>u, Zenon DEF RowMove
<1>1. ASSUME NEW m \in Msgs, Deliver(m) \/ AckWait(m) PROVE UNCHANGED job
  BY <1>1, Zenon DEF Deliver, AckWait
<1>2. ASSUME NEW d \in Handlers,
             Refuse(d) \/ Lookup(d) \/ RecordInbox(d) \/ RecordPayload(d) \/ LogReceived(d)
      PROVE  UNCHANGED job
  BY <1>2, Zenon DEF Refuse, Lookup, RecordInbox, RecordPayload, LogReceived
<1>3. ASSUME NEW d \in Drivers, Execute(d) \/ ClaimRejected(d) \/ Submit(d)
      PROVE  UNCHANGED job
  BY <1>3, Zenon DEF Execute, ClaimRejected, Submit
<1>4. ASSUME NEW d \in Handlers,
             LogOutcome(d) \/ Defer(d) \/ Ack(d) \/ PoisonRead(d) \/ PoisonLink(d)
                \/ PoisonLog(d)
      PROVE  UNCHANGED job
  BY <1>4, Zenon DEF LogOutcome, Defer, Ack, PoisonRead, PoisonLink, PoisonLog
<1>5. ASSUME NEW d \in Drains, DrainSelect(d) \/ DrainNext(d) \/ DrainFinish(d)
      PROVE  UNCHANGED job
  BY <1>5, Zenon DEF DrainSelect, DrainNext, DrainFinish
<1>6. ASSUME NEW d \in Drivers, Fail(d) \/ Crash(d) PROVE UNCHANGED job
  BY <1>6, Zenon DEF Fail, Crash
<1>7. ASSUME NEW d \in Handlers, ConsumeInbox(d) PROVE \A k \in Keys : RowMove(k)
  <2>1. CASE command[target[d]] = NoHash
    <3>1. SetRow(d, NewJob) /\ d \in Drivers
      BY <1>7, <2>1, HandlerFacts, Zenon DEF ConsumeInbox
    <3>2. /\ target[d] \in Keys /\ job'[target[d]] = NewJob
          /\ \A k \in Keys : k # target[d] => job'[k] = job[k]
      BY <1>t, <3>1, OneRow, Zenon
    <3>3. job[target[d]].status = "absent"
      BY <1>t, <2>1, <3>2, Zenon DEF DataInv, JobInv
    <3> QED
      BY <3>2, <3>3, Zenon DEF RowMove
  <2>2. CASE command[target[d]] # NoHash
    BY <1>7, <2>2, <1>u, Zenon DEF ConsumeInbox
  <2> QED
    BY <2>1, <2>2, Zenon
<1>8. ASSUME NEW d \in Drivers, Claim(d) PROVE \A k \in Keys : RowMove(k)
  <2>1. PICK row \in RowAsSeen(d) :
          \/ UNCHANGED jobVars
          \/ /\ Claimable(row, OwnerOf(d)) /\ row.attempt_count >= MaxAttemptsOf(d)
             /\ SetRow(d, AttemptLimit(Row(d))) /\ Goto(d, "rejected")
          \/ /\ Claimable(row, OwnerOf(d)) /\ Goto(d, "mark")
             /\ \E until \in NewDeadline(d) : SetRow(d, Claimed(Row(d), OwnerOf(d), until))
    BY <1>8, Zenon DEF Claim
  <2>2. CASE UNCHANGED jobVars
    BY <2>2, <1>u, Zenon
  <2>3. CASE /\ Claimable(row, OwnerOf(d)) /\ row.attempt_count >= MaxAttemptsOf(d)
             /\ SetRow(d, AttemptLimit(Row(d))) /\ Goto(d, "rejected")
    <3>1. pc[d] = "claim" /\ pc'[d] = "rejected"
      BY <1>8, <1>t, <2>3, Zenon DEF Claim, Goto, TypeOK
    <3>2. /\ target[d] \in Keys /\ job'[target[d]] = AttemptLimit(Row(d))
          /\ \A k \in Keys : k # target[d] => job'[k] = job[k]
      BY <1>t, <2>3, OneRow, Zenon
    <3>3. ClaimWrites(d)
      BY <2>3, <3>1, <3>2, Zenon DEF ClaimWrites
    <3> QED
      BY <3>2, <3>3, Zenon DEF RowMove
  <2>4. ASSUME Claimable(row, OwnerOf(d)), Goto(d, "mark"), NEW until \in NewDeadline(d),
               SetRow(d, Claimed(Row(d), OwnerOf(d), until))
        PROVE  \A k \in Keys : RowMove(k)
    <3>1. pc[d] = "claim" /\ pc'[d] = "mark"
      BY <1>8, <1>t, <2>4, Zenon DEF Claim, Goto, TypeOK
    <3>2. /\ target[d] \in Keys /\ job'[target[d]] = Claimed(Row(d), OwnerOf(d), until)
          /\ \A k \in Keys : k # target[d] => job'[k] = job[k]
      BY <1>t, <2>4, OneRow, Zenon
    <3>3. ClaimWrites(d)
      BY <2>4, <3>1, <3>2, Zenon DEF ClaimWrites
    <3> QED
      BY <3>2, <3>3, Zenon DEF RowMove
  <2> QED
    BY <2>1, <2>2, <2>3, <2>4, Zenon
<1>9. ASSUME NEW d \in Drivers, MarkExecuting(d) PROVE \A k \in Keys : RowMove(k)
  <2>1. PICK row \in RowAsSeen(d) :
          \/ UNCHANGED jobVars
          \/ /\ OwnsLease(row, OwnerOf(d))
             /\ SetRow(d, Executing(Row(d))) /\ Goto(d, "submit")
    BY <1>9, Zenon DEF MarkExecuting
  <2>2. CASE UNCHANGED jobVars
    BY <2>2, <1>u, Zenon
  <2>3. CASE /\ OwnsLease(row, OwnerOf(d))
             /\ SetRow(d, Executing(Row(d))) /\ Goto(d, "submit")
    <3>1. pc[d] = "mark" /\ pc'[d] = "submit"
      BY <1>9, <1>t, <2>3, Zenon DEF MarkExecuting, Goto, TypeOK
    <3>2. /\ target[d] \in Keys /\ job'[target[d]] = Executing(Row(d))
          /\ \A k \in Keys : k # target[d] => job'[k] = job[k]
      BY <1>t, <2>3, OneRow, Zenon
    <3>3. OwnerWrites(d)
      BY <2>3, <3>1, <3>2, Zenon DEF OwnerWrites
    <3> QED
      BY <3>2, <3>3, Zenon DEF RowMove
  <2> QED
    BY <2>1, <2>2, <2>3, Zenon
<1>10. ASSUME NEW d \in Drivers, Complete(d) PROVE \A k \in Keys : RowMove(k)
  <2>1. PICK row \in RowAsSeen(d) :
          \/ UNCHANGED jobVars
          \/ /\ OwnsLease(row, OwnerOf(d))
             /\ \E retry \in NewDeadline(d) :
                   SetRow(d, Outcome(d, retry)) /\ Return(d, Outcome(d, retry).status)
    BY <1>10, Zenon DEF Complete
  <2>2. CASE UNCHANGED jobVars
    BY <2>2, <1>u, Zenon
  <2>3. ASSUME OwnsLease(row, OwnerOf(d)), NEW retry \in NewDeadline(d),
               SetRow(d, Outcome(d, retry)), Return(d, Outcome(d, retry).status)
        PROVE  \A k \in Keys : RowMove(k)
    <3>1. pc[d] = "complete" /\ pc'[d] \in {"next", "settle"}
      BY <1>10, <1>t, <2>3, Zenon DEF Complete, Return, Goto, TypeOK
    <3>2. /\ target[d] \in Keys /\ job'[target[d]] = Outcome(d, retry)
          /\ \A k \in Keys : k # target[d] => job'[k] = job[k]
      BY <1>t, <2>3, OneRow, Zenon
    <3>3. OwnerWrites(d)
      BY <2>3, <3>1, <3>2, Zenon DEF OwnerWrites
    <3> QED
      BY <3>2, <3>3, Zenon DEF RowMove
  <2> QED
    BY <2>1, <2>2, <2>3, Zenon
<1>11. ASSUME NEW d \in Handlers, QuarantineTransport(d) PROVE \A k \in Keys : RowMove(k)
  <2>1. CASE UNCHANGED jobVars
    BY <2>1, <1>u, Zenon
  <2>2. CASE /\ pc[d] = "quarantine" /\ ~LeaseLive(Row(d))
             /\ SetRow(d, TransportQuarantined(Row(d)))
    <3>1. d \in Drivers
      BY HandlerFacts, Zenon
    <3>2. /\ target[d] \in Keys /\ job'[target[d]] = TransportQuarantined(Row(d))
          /\ \A k \in Keys : k # target[d] => job'[k] = job[k]
      BY <1>t, <2>2, <3>1, OneRow, Zenon
    <3>3. CapWrites(d)
      BY <2>2, <3>2, Zenon DEF CapWrites
    <3> QED
      BY <3>1, <3>2, <3>3, Zenon DEF RowMove
  <2> QED
    BY <1>11, <2>1, <2>2, Zenon DEF QuarantineTransport
<1>12. ASSUME NEW j \in Keys, LeaseExpires(j) \/ RetryDue(j) PROVE \A k \in Keys : RowMove(k)
  <2>1. \/ job' = [job EXCEPT ![j] = LeaseReached(job[j])]
        \/ job' = [job EXCEPT ![j] = RetryReached(job[j])]
    BY <1>12, Zenon DEF LeaseExpires, RetryDue
  <2> QED
    BY <1>t, <2>1, Zenon DEF RowMove, TypeOK
<1> QED
  BY <1>u, <1>1, <1>2, <1>3, <1>4, <1>5, <1>6, <1>7, <1>8, <1>9, <1>10, <1>11, <1>12,
    Zenon DEF Next, HandlerStep, DrainStep, Accepting, Delivering, Finishing, Drivers, vars

-----------------------------------------------------------------------------
(* A live lease.                                                            *)

\* A row whose lease is live is rewritten only by the clock or by a step of a
\* driver that holds that lease: every claim, mark, outcome and transport cap
\* of another driver is fenced off, for any number of handlers and drains and
\* with a drain's older clock (_lease_is_live, claim_delivery_job).
THEOREM LeaseProtects == Spec => LiveLeaseIsRespected
<1> DEFINE Respected(k) ==
             LeaseLive(job[k]) /\ job'[k] # job[k] /\ job'[k] # LeaseReached(job[k])
                /\ job'[k] # RetryReached(job[k]) =>
                \E d \in Drivers : OwnerOf(d) = job[k].lease_owner /\ pc'[d] # pc[d]
<1>1. ASSUME Inv, [Next]_vars, NEW k \in Keys PROVE Respected(k)
  <2> SUFFICES ASSUME LeaseLive(job[k]), job'[k] # job[k], job'[k] # LeaseReached(job[k]),
                      job'[k] # RetryReached(job[k])
               PROVE  \E d \in Drivers : OwnerOf(d) = job[k].lease_owner /\ pc'[d] # pc[d]
    BY Zenon
  <2>1. TypeOK /\ JobInv(k)
    BY <1>1, Zenon DEF Inv, DataInv
  <2>2. job[k].status \in {"claimed", "executing"} /\ job[k].lease_owner # NoOwner
    BY <2>1, Zenon DEF JobInv, LeaseLive
  <2>3. PICK d \in Drivers : target[d] = k /\ (ClaimWrites(d) \/ OwnerWrites(d) \/ CapWrites(d))
    BY <1>1, <2>2, RowChange, Zenon DEF RowMove
  <2>4. Row(d) = job[k]
    BY <2>3, Zenon DEF Row
  <2>5. CASE ClaimWrites(d)
    <3>1. PICK row \in RowAsSeen(d) : Claimable(row, OwnerOf(d))
      BY <2>5, Zenon DEF ClaimWrites
    <3>2. row.status = job[k].status /\ row.lease_owner = job[k].lease_owner
      BY <2>1, <2>4, SeenRows, Zenon
    <3>3. LeaseLive(row)
      <4>1. PICK t \in Looks(d, Row(d).lease_until) \X Looks(d, Row(d).next_retry_at) :
               row = [Row(d) EXCEPT !.lease_until = t[1], !.next_retry_at = t[2]]
        BY Zenon DEF RowAsSeen
      <4>2. t[1] = "future"
        BY <2>4, Zenon DEF Looks, LeaseLive
      <4>3. job[k] \in Rows(Owners)
        BY <2>1, Zenon DEF TypeOK
      <4> QED
        BY <2>4, <4>1, <4>2, <4>3, Zenon DEF LeaseLive, Rows
    <3>4. job[k].lease_owner = OwnerOf(d)
      BY <2>2, <3>1, <3>2, <3>3, Zenon DEF Claimable
    <3> QED
      BY <2>5, <3>4, Zenon DEF ClaimWrites
  <2>6. CASE OwnerWrites(d)
    <3>1. PICK row \in RowAsSeen(d) : OwnsLease(row, OwnerOf(d))
      BY <2>6, Zenon DEF OwnerWrites
    <3>2. job[k].lease_owner = OwnerOf(d)
      BY <2>1, <2>4, <3>1, SeenRows, Zenon DEF OwnsLease
    <3> QED
      BY <2>6, <3>2, Zenon DEF OwnerWrites
  <2>7. CASE CapWrites(d)
    BY <2>4, <2>7, Zenon DEF CapWrites
  <2> QED
    BY <2>3, <2>5, <2>6, <2>7, Zenon
<1>2. Inv /\ [Next]_vars => [\A k \in Keys : Respected(k)]_vars
  BY <1>1, Zenon
<1> QED
  BY Invariance, <1>2, PTL DEF Spec, LiveLeaseIsRespected

-----------------------------------------------------------------------------
(* The attempt budget.                                                      *)

\* An operator's drain allows a job no more attempts than the worker does.
DrainWithinBudget == Drains = {} \/ DrainMaxAttempts <= WorkerMaxAttempts

\* The outcome of an attempt is counted or final (_retryable_or_replayable).
LEMMA OutcomeCount ==
    ASSUME TypeOK, NEW d \in Drivers, EvidenceInv(d), pc[d] = "complete",
           NEW retry \in NewDeadline(d)
    PROVE  LET new == Outcome(d, retry) IN
           /\ \/ new.attempt_count = Row(d).attempt_count
              \/ /\ new.attempt_count = Row(d).attempt_count + 1
                 /\ Row(d).attempt_count + 1 >= MaxAttemptsOf(d) => new.status = "quarantined"
           /\ new.last_error_class \in {"none", "delivery_evidence", "async_parse_failed",
                                        "remote_outcome_uncertain", Row(d).last_error_class}
<1>1. Row(d) \in Rows(Owners) /\ retry \in {"future", "past"} /\ MaxAttemptsOf(d) \in Nat
  BY DriverFacts, Zenon DEF TypeOK, Row
<1>2. receipt[d] \in {"succeeded", "uncertain", "failed_retryable", "quarantined"}
  BY Zenon DEF EvidenceInv
<1>3. CASE receipt[d] \in {"uncertain", "failed_retryable"}
  <2>1. Outcome(d, retry) \in {ReplayableAttempt(Row(d), MaxAttemptsOf(d), retry),
                              FailedRetryableAttempt(Row(d), MaxAttemptsOf(d), retry)}
    BY <1>3, Zenon DEF Outcome
  <2> QED
    BY <1>1, <2>1, SpentCount, Zenon
<1>4. CASE receipt[d] \in {"succeeded", "quarantined"}
  <2>1. Outcome(d, retry) = Completed(Row(d), receipt[d])
    BY <1>4, Zenon DEF Outcome
  <2>3. Completed(Row(d), receipt[d]).attempt_count = Row(d).attempt_count
    BY <1>1, <1>4, SameCount, Zenon DEF Terminal
  <2>4. Completed(Row(d), receipt[d]).last_error_class \in {"none", "delivery_evidence"}
    BY <1>1, <1>4, SameCount, Zenon DEF Terminal
  <2> QED
    BY <2>1, <2>3, <2>4, Zenon
<1> QED
  BY <1>2, <1>3, <1>4, Zenon

\* A row that a driver may complete has no fate yet (the fence of the outcome
\* transactions).
LEMMA OwnedIsOpen ==
    ASSUME TypeOK, DataInv, NEW d \in Drivers, OwnerWrites(d) \/ ClaimWrites(d)
    PROVE  Row(d).status \notin Terminal
<1>1. CASE OwnerWrites(d)
  BY <1>1, OwnedRow, Zenon DEF OwnerWrites, Terminal
<1>2. CASE ClaimWrites(d)
  <2>1. PICK row \in RowAsSeen(d) : Claimable(row, OwnerOf(d))
    BY <1>2, Zenon DEF ClaimWrites
  <2> QED
    BY <2>1, SeenRows, Zenon DEF Claimable, Terminal
<1> QED
  BY <1>1, <1>2, Zenon

\* One step keeps the budget of every job.
LEMMA BudgetStep ==
    ASSUME DrainWithinBudget, Inv, AttemptBudget, [Next]_vars
    PROVE  AttemptBudget'
<1>1. TypeOK /\ DataInv
  BY Zenon DEF Inv
<1>2. WorkerMaxAttempts \in Nat \ {0}
  BY IngressAssumption, Zenon
<1> SUFFICES ASSUME NEW k \in Keys
             PROVE  /\ job'[k].attempt_count <= WorkerMaxAttempts
                    /\ job'[k].attempt_count = WorkerMaxAttempts =>
                          job'[k].status = "quarantined"
  BY Zenon DEF AttemptBudget
<1>3. /\ job[k] \in Rows(Owners) /\ job[k].attempt_count \in Nat
      /\ job[k].attempt_count <= WorkerMaxAttempts
      /\ job[k].attempt_count = WorkerMaxAttempts => job[k].status = "quarantined"
  BY <1>1 DEF TypeOK, Rows, AttemptBudget
<1>4. CASE job'[k].attempt_count = job[k].attempt_count
             /\ (job[k].status = "quarantined" => job'[k].status = "quarantined")
  BY <1>3, <1>4, Zenon
<1>5. job[k].status = "quarantined" => job'[k].status = "quarantined"
  BY InvStep, Zenon DEF Monotone, Terminal
<1>6. CASE job'[k] = job[k] \/ job'[k] \in {LeaseReached(job[k]), RetryReached(job[k])}
  <2>1. job'[k].attempt_count = job[k].attempt_count
    BY <1>3, <1>6, SameCount, Zenon
  <2> QED
    BY <1>4, <1>5, <2>1, Zenon
<1>7. CASE job[k].status = "absent" /\ job'[k] = NewJob
  <2>1. job'[k].attempt_count = 0
    BY <1>7, Zenon DEF NewJob, AbsentJob
  <2> QED
    BY <1>2, <2>1
<1>8. ASSUME NEW d \in Drivers, target[d] = k,
             ClaimWrites(d) \/ OwnerWrites(d) \/ CapWrites(d)
      PROVE  /\ job'[k].attempt_count <= WorkerMaxAttempts
             /\ job'[k].attempt_count = WorkerMaxAttempts => job'[k].status = "quarantined"
  <2>1. /\ Row(d) = job[k] /\ OwnerOf(d) \in Owners
        /\ NewDeadline(d) \subseteq {"future", "past"}
    BY <1>8, DriverFacts, Zenon DEF Row
  <2>2. CASE job'[k].attempt_count = job[k].attempt_count
    BY <1>4, <1>5, <2>2, Zenon
  <2>s. CASE job'[k] \in {Executing(job[k]), AttemptLimit(job[k]),
                          TransportQuarantined(job[k])}
    <3>1. job'[k].attempt_count = job[k].attempt_count
      BY <1>3, <2>s, SameCount, Zenon
    <3> QED
      BY <2>2, <3>1, Zenon
  <2>c. ASSUME NEW until \in NewDeadline(d), job'[k] = Claimed(job[k], OwnerOf(d), until)
        PROVE  job'[k].attempt_count = job[k].attempt_count
    BY <1>3, <2>c, SameCount
  <2>3. ASSUME NEW retry \in NewDeadline(d), pc[d] = "complete", OwnerWrites(d),
               job'[k] = Outcome(d, retry)
        PROVE  /\ job'[k].attempt_count <= WorkerMaxAttempts
               /\ job'[k].attempt_count = WorkerMaxAttempts => job'[k].status = "quarantined"
    <3>1. MaxAttemptsOf(d) \in Nat /\ MaxAttemptsOf(d) <= WorkerMaxAttempts
      <4>1. CASE d \in Drains
        BY <1>2, <4>1, IngressAssumption DEF DrainWithinBudget, MaxAttemptsOf
      <4>2. CASE d \notin Drains
        BY <1>2, <4>2 DEF MaxAttemptsOf
      <4> QED
        BY <4>1, <4>2, Zenon
    <3>2. EvidenceInv(d)
      BY Zenon DEF Inv, DriverInv
    <3>3. job[k].status # "quarantined"
      BY <1>1, <2>1, <2>3, OwnedIsOpen, Zenon DEF Terminal
    <3>4. \/ job'[k].attempt_count = job[k].attempt_count
          \/ /\ job'[k].attempt_count = job[k].attempt_count + 1
             /\ job[k].attempt_count + 1 >= MaxAttemptsOf(d) => job'[k].status = "quarantined"
      BY <1>1, <2>1, <2>3, <3>2, OutcomeCount, Zenon
    <3> QED
      BY <1>2, <1>3, <3>1, <3>3, <3>4
  <2> QED
    BY <1>8, <2>1, <2>2, <2>s, <2>c, <2>3, Zenon DEF ClaimWrites, OwnerWrites, CapWrites
<1> QED
  BY <1>6, <1>7, <1>8, RowChange, Zenon DEF RowMove

\* No job is attempted more often than the worker allows, and one that has
\* used every attempt is quarantined, whatever handlers and drains share the
\* attempts, provided no drain is started with a higher cap than the worker's
\* (--max-attempts of drain_pending_deliveries).
THEOREM BudgetIsKept == ASSUME DrainWithinBudget PROVE Spec => []AttemptBudget
<1>1. Init => AttemptBudget
  <2>1. AbsentJob.attempt_count = 0 /\ AbsentJob.status = "absent"
    BY Zenon DEF AbsentJob
  <2> QED
    BY <2>1, IngressAssumption DEF Init, AttemptBudget
<1>2. Inv /\ AttemptBudget /\ [Next]_vars => AttemptBudget'
  BY BudgetStep, Zenon
<1> QED
  BY Invariance, <1>1, <1>2, PTL DEF Spec

-----------------------------------------------------------------------------
(* An uncertain outcome.                                                    *)

\* Drains, if there are any, run with the worker's own cap.
DrainSharesBudget == Drains = {} \/ DrainMaxAttempts = WorkerMaxAttempts

\* A spent job is quarantined already, so nobody can claim it to record an
\* attempt limit (claim_delivery_job).
LEMMA NoLateLimit ==
    ASSUME DrainSharesBudget, TypeOK, DataInv, AttemptBudget, NEW d \in Drivers,
           ClaimWrites(d)
    PROVE  \E until \in NewDeadline(d) : job'[target[d]] = Claimed(Row(d), OwnerOf(d), until)
<1>1. MaxAttemptsOf(d) = WorkerMaxAttempts
  BY Zenon DEF DrainSharesBudget, MaxAttemptsOf
<1>2. target[d] \in Keys /\ Row(d) \in Rows(Owners)
  BY Zenon DEF TypeOK, Row
<1>3. Row(d).attempt_count \in Nat /\ WorkerMaxAttempts \in Nat
  BY <1>2, IngressAssumption, Zenon DEF Rows
<1>4. Row(d).status # "quarantined"
  BY OwnedIsOpen, Zenon DEF Terminal
<1>5. Row(d).attempt_count < WorkerMaxAttempts
  BY <1>2, <1>3, <1>4 DEF AttemptBudget, Row
<1>6. \A row \in RowAsSeen(d) : ~(row.attempt_count >= MaxAttemptsOf(d))
  <2> TAKE row \in RowAsSeen(d)
  <2>1. row.attempt_count = Row(d).attempt_count
    BY SeenRows, Zenon
  <2> QED
    BY <1>1, <1>3, <1>5, <2>1
<1> QED
  BY <1>6, Zenon DEF ClaimWrites

\* A job whose last attempt may have reached the store keeps saying so until
\* another attempt has an outcome of its own: neither the attempt limit nor
\* the transport cap overwrites the class, as long as every drain runs with
\* the worker's cap (quarantine_transport_delivery, record_replayable_attempt).
THEOREM UncertaintyIsKept == ASSUME DrainSharesBudget PROVE Spec => UncertaintyStaysVisible
<1> DEFINE Caps == {"lease_attempt_limit", "transport_max_deliver"}
           Visible(k) ==
             /\ job[k].last_error_class = "remote_outcome_uncertain"
             /\ job'[k].last_error_class # job[k].last_error_class
             => job'[k].last_error_class \notin Caps
<1>0. DrainWithinBudget
  BY IngressAssumption DEF DrainSharesBudget, DrainWithinBudget
<1>1. ASSUME Inv, AttemptBudget, [Next]_vars, NEW k \in Keys PROVE Visible(k)
  <2> SUFFICES ASSUME job[k].last_error_class = "remote_outcome_uncertain",
                      job'[k].last_error_class # job[k].last_error_class
               PROVE  job'[k].last_error_class \notin Caps
    BY Zenon
  <2>1. TypeOK /\ DataInv /\ job[k] \in Rows(Owners) /\ RowMove(k)
    BY <1>1, RowChange, Zenon DEF Inv, TypeOK
  <2>4. CASE job'[k] = job[k] \/ job'[k] \in {LeaseReached(job[k]), RetryReached(job[k])}
    BY <2>1, <2>4, SameCount, Zenon
  <2>5. CASE job'[k] = NewJob
    BY <2>5, Zenon DEF NewJob, AbsentJob
  <2>6. ASSUME NEW d \in Drivers, target[d] = k,
               ClaimWrites(d) \/ OwnerWrites(d) \/ CapWrites(d)
        PROVE  job'[k].last_error_class \notin Caps
    <3>1. /\ Row(d) = job[k] /\ OwnerOf(d) \in Owners
          /\ NewDeadline(d) \subseteq {"future", "past"}
      BY <2>6, DriverFacts, Zenon DEF Row
    <3>2. CASE ClaimWrites(d)
      <4>1. PICK until \in NewDeadline(d) : job'[k] = Claimed(job[k], OwnerOf(d), until)
        BY <1>1, <2>1, <2>6, <3>1, <3>2, NoLateLimit, Zenon
      <4>2. job'[k].last_error_class = job[k].last_error_class
        BY <2>1, <4>1, SameCount
      <4> QED
        BY <4>2, Zenon
    <3>3. CASE job'[k] = Executing(job[k])
      BY <2>1, <3>3, SameCount, Zenon
    <3>4. CASE job'[k] = TransportQuarantined(job[k])
      <4>1. TransportQuarantined(job[k]).last_error_class = job[k].last_error_class
        BY <2>1, SameCount, Zenon
      <4> QED
        BY <3>4, <4>1, Zenon
    <3>5. ASSUME NEW retry \in NewDeadline(d), pc[d] = "complete", job'[k] = Outcome(d, retry)
          PROVE  job'[k].last_error_class \notin Caps
      <4>1. EvidenceInv(d)
        BY <1>1, Zenon DEF Inv, DriverInv
      <4>2. job'[k].last_error_class \in {"none", "delivery_evidence", "async_parse_failed",
                                          "remote_outcome_uncertain", job[k].last_error_class}
        BY <2>1, <3>1, <3>5, <4>1, OutcomeCount, Zenon
      <4> QED
        BY <4>2, Zenon
    <3> QED
      BY <2>6, <3>1, <3>2, <3>3, <3>4, <3>5, Zenon DEF OwnerWrites, CapWrites
  <2> QED
    BY <2>1, <2>4, <2>5, <2>6, Zenon DEF RowMove
<1>2. Inv /\ AttemptBudget /\ [Next]_vars => [\A k \in Keys : Visible(k)]_vars
  BY <1>1, Zenon
<1>3. Spec => []AttemptBudget
  BY <1>0, BudgetIsKept, Zenon
<1> QED
  BY Invariance, <1>2, <1>3, PTL DEF Spec, UncertaintyStaysVisible

-----------------------------------------------------------------------------
(* The payload of a quarantined job.                                        *)

\* Labels a handler reaches only through record_delivery_payload.
AfterPayload == {"received", "exec", "claim", "rejected", "mark", "submit", "complete"}

\* A handler delivers only what it has retained.
Retains(d) == pc[d] \in AfterPayload => payload[target[d]] # NoPayload

RetainInv == QuarantineKeepsPayload /\ \A d \in Handlers : Retains(d)

\* A handler gets past record_delivery_payload only with the payload on
\* record, whatever the other handlers do (process_payload).
LEMMA RetainsStep ==
    ASSUME Inv, \A d \in Handlers : Retains(d), [Next]_vars, NEW d \in Handlers
    PROVE  Retains(d)'
<1> USE DEF brokerVars, acceptVars, jobVars, logVars, localVars
<1>1. /\ d \in Drivers /\ d \notin Drains /\ target[d] \in Keys /\ TypeOK
      /\ pc \in [Drivers -> Labels] /\ payload \in [Keys -> Wires \cup {NoPayload}]
  BY HandlerFacts, Zenon DEF Inv, TypeOK
<1>2. target'[d] = target[d]
  BY <1>1, InvStep, Zenon DEF Inv, DriverInv, HandlerInv
<1>3. payload[target[d]] # NoPayload => payload'[target[d]] # NoPayload
  BY <1>1, InvStep, Zenon DEF Monotone
<1>4. CASE pc'[d] \notin AfterPayload \/ pc[d] \in AfterPayload
  BY <1>2, <1>3, <1>4, Zenon DEF Retains
<1>5. CASE pc'[d] \in AfterPayload /\ pc[d] \notin AfterPayload
  <2> USE DEF AfterPayload
  <2>1. ASSUME NEW m \in Msgs, Deliver(m) \/ AckWait(m) PROVE FALSE
    BY <1>1, <1>5, <2>1, Zenon DEF Deliver, AckWait, Goto
  <2>2. ASSUME NEW e \in Handlers, Refuse(e) PROVE FALSE
    BY <1>1, <1>5, <2>2, Zenon DEF Refuse, Raise, Goto
  <2>3. ASSUME NEW e \in Handlers, Lookup(e) PROVE FALSE
    BY <1>1, <1>5, <2>3, Zenon DEF Lookup, Raise, Goto
  <2>4. ASSUME NEW e \in Handlers, RecordInbox(e) \/ ConsumeInbox(e) PROVE FALSE
    BY <1>1, <1>5, <2>4, Zenon DEF RecordInbox, ConsumeInbox, Raise, Goto
  <2>5. ASSUME NEW e \in Handlers, RecordPayload(e) PROVE Retains(d)'
    <3>1. CASE Raise(e)
      BY <1>1, <1>5, <3>1, Zenon DEF Raise, Goto
    <3>2. CASE /\ payload' = [payload EXCEPT ![target[e]] =
                                 IF @ = NoPayload THEN Normalized(Wire[e[1]]) ELSE @]
               /\ Goto(e, IF pc[e] = "payload_new" THEN "received" ELSE "exec")
      <4>1. e = d
        BY <1>1, <1>5, <3>2, Zenon DEF Goto
      <4>2. Normalized(Wire[d[1]]) # NoPayload
        BY HandlerFacts, IngressAssumption, Zenon
      <4>3. payload'[target[d]] # NoPayload
        BY <1>1, <3>2, <4>1, <4>2, Zenon
      <4> QED
        BY <1>2, <4>3, Zenon DEF Retains
    <3> QED
      BY <2>5, <3>1, <3>2, Zenon DEF RecordPayload, Msg
  <2>6. ASSUME NEW e \in Handlers, LogReceived(e) PROVE FALSE
    BY <1>1, <1>5, <2>6, Zenon DEF LogReceived, Goto
  <2>7. ASSUME NEW e \in Drivers, Execute(e) \/ Claim(e) \/ ClaimRejected(e) PROVE FALSE
    BY <1>1, <1>5, <2>7, Zenon DEF Execute, Claim, ClaimRejected, Return, Goto
  <2>8. ASSUME NEW e \in Drivers, MarkExecuting(e) \/ Complete(e) PROVE FALSE
    BY <1>1, <1>5, <2>8, Zenon DEF MarkExecuting, Complete, Return, Goto
  <2>9. ASSUME NEW e \in Drivers, Submit(e) PROVE FALSE
    BY <1>1, <1>5, <2>9, Zenon DEF Submit, Raise, Goto
  <2>10. ASSUME NEW e \in Handlers, LogOutcome(e) \/ Ack(e) \/ PoisonLog(e) PROVE FALSE
    BY <1>1, <1>5, <2>10, Zenon DEF LogOutcome, Ack, PoisonLog, Goto
  <2>11. ASSUME NEW e \in Handlers, Defer(e) PROVE FALSE
    BY <1>1, <1>5, <2>11, Zenon DEF Defer, Raise, Goto
  <2>12. ASSUME NEW e \in Handlers, PoisonRead(e) \/ QuarantineTransport(e) \/ PoisonLink(e)
         PROVE  FALSE
    BY <1>1, <1>5, <2>12, Zenon
    DEF PoisonRead, QuarantineTransport, PoisonLink, Unrecorded, Goto
  <2>13. ASSUME NEW e \in Drains, DrainSelect(e) \/ DrainNext(e) \/ DrainFinish(e)
         PROVE  FALSE
    BY <1>1, <1>5, <2>13, Zenon DEF DrainSelect, DrainNext, DrainFinish, Goto
  <2>14. ASSUME NEW k \in Keys, LeaseExpires(k) \/ RetryDue(k) PROVE FALSE
    BY <1>5, <2>14, Zenon DEF LeaseExpires, RetryDue
  <2>15. ASSUME NEW e \in Drivers, Fail(e) PROVE FALSE
    BY <1>1, <1>5, <2>15, Zenon DEF Fail, Raise, Unrecorded, Goto
  <2>16. ASSUME NEW e \in Drivers, Crash(e) PROVE FALSE
    BY <1>1, <1>5, <2>16, Zenon DEF Crash, Goto
  <2>17. CASE UNCHANGED vars
    BY <1>5, <2>17, Zenon DEF vars
  <2> QED
    BY <2>1, <2>2, <2>3, <2>4, <2>5, <2>6, <2>7, <2>8, <2>9, <2>10, <2>11, <2>12,
      <2>13, <2>14, <2>15, <2>16, <2>17, Zenon DEF Next, HandlerStep, DrainStep,
      Accepting, Delivering, Finishing, Drivers
<1> QED
  BY <1>4, <1>5, Zenon

\* Without drains a job is quarantined by a handler: by one that delivers, or
\* by one that caps the transport of the very payload on record.
LEMMA QuarantineStep ==
    ASSUME Drains = {}, Inv, RetainInv, [Next]_vars
    PROVE  QuarantineKeepsPayload'
<1> SUFFICES ASSUME NEW k \in Keys, job'[k].status = "quarantined"
             PROVE  payload'[k] # NoPayload
  BY Zenon DEF QuarantineKeepsPayload
<1> SUFFICES payload[k] # NoPayload
  BY InvStep, Zenon DEF Monotone
<1>1. TypeOK /\ job[k] \in Rows(Owners) /\ RowMove(k)
  BY RowChange, Zenon DEF Inv, TypeOK
<1>2. CASE job[k].status = "quarantined"
  BY <1>2, Zenon DEF RetainInv, QuarantineKeepsPayload
<1>3. CASE job'[k] = job[k] \/ job'[k] \in {LeaseReached(job[k]), RetryReached(job[k])}
  BY <1>1, <1>2, <1>3, ClockRows, Zenon
<1>4. CASE job'[k] = NewJob
  BY <1>4, Zenon DEF NewJob, AbsentJob
<1>5. ASSUME NEW d \in Drivers, target[d] = k,
             ClaimWrites(d) \/ OwnerWrites(d) \/ CapWrites(d)
      PROVE  payload[k] # NoPayload
  <2>1. d \in Handlers
    BY Zenon DEF Drivers
  <2>2. CASE ClaimWrites(d) \/ OwnerWrites(d)
    <3>1. pc[d] \in AfterPayload
      BY <2>2, Zenon DEF ClaimWrites, OwnerWrites, AfterPayload
    <3> QED
      BY <1>5, <2>1, <3>1, Zenon DEF RetainInv, Retains
  <2>3. CASE CapWrites(d)
    <3>1. payload[k] = Wire[d[1]] /\ Wire[d[1]] \in Wires
      BY <1>5, <2>1, <2>3, HandlerFacts, Zenon DEF CapWrites, Inv, DriverInv, HandlerInv
    <3> QED
      BY <3>1, IngressAssumption, Zenon
  <2> QED
    BY <1>5, <2>2, <2>3, Zenon
<1> QED
  BY <1>1, <1>3, <1>4, <1>5, Zenon DEF RowMove

\* No handler quarantines a job whose payload could not be replayed later:
\* every path to a quarantine goes through record_delivery_payload or compares
\* with what it retained.  A drain has no payload of its own to retain, so the
\* theorem is about the worker without drains.
THEOREM QuarantineIsReplayable == ASSUME Drains = {} PROVE Spec => []QuarantineKeepsPayload
<1>1. Init => RetainInv
  <2> SUFFICES ASSUME Init PROVE RetainInv
    BY Zenon
  <2>1. \A d \in Handlers : pc[d] = "idle"
    BY HandlerFacts, Zenon DEF Init
  <2>2. \A d \in Handlers : Retains(d)
    BY <2>1, Zenon DEF Retains, AfterPayload
  <2>3. QuarantineKeepsPayload
    BY Zenon DEF Init, QuarantineKeepsPayload, AbsentJob
  <2> QED
    BY <2>2, <2>3, Zenon DEF RetainInv
<1>2. Inv /\ RetainInv /\ [Next]_vars => RetainInv'
  <2> SUFFICES ASSUME Inv, RetainInv, [Next]_vars PROVE RetainInv'
    BY Zenon
  <2>1. \A d \in Handlers : Retains(d)'
    BY RetainsStep, Zenon DEF RetainInv
  <2> QED
    BY <2>1, QuarantineStep, Zenon DEF RetainInv
<1>3. RetainInv => QuarantineKeepsPayload
  BY Zenon DEF RetainInv
<1> QED
  BY Invariance, <1>1, <1>2, <1>3, PTL DEF Spec

=============================================================================
