---------------------------- MODULE DeliveryJobs ----------------------------
(***************************************************************************)
(* One row of the delivery_jobs table of the canonical state DB            *)
(* (rag_ingress/state_db.py) and the transactions that rewrite it.  Every  *)
(* operator is one BEGIN IMMEDIATE transaction: a guard on the row it read *)
(* and the row it writes.                                                  *)
(*                                                                         *)
(* Time is abstracted to what the code compares.  A stored deadline is     *)
(* absent, still ahead of the clock, or reached; the modules that use this *)
(* one have an action that turns "future" into "past".  updated_at, which  *)
(* every transaction stamps with microsecond resolution, is not stored:    *)
(* those modules record who has read the row since it was last written.    *)
(***************************************************************************)
EXTENDS Naturals

CONSTANT NoOwner        \* lease_owner = ''

Statuses == {"absent", "pending", "claimed", "executing", "replayable",
             "failed_retryable", "succeeded", "quarantined"}

Terminal == {"succeeded", "quarantined"}

Deadlines == {"none", "future", "past"}

ErrorClasses == {"none", "remote_outcome_uncertain", "async_parse_failed",
                 "lease_attempt_limit", "transport_max_deliver",
                 "delivery_evidence"}

Rows(owners) ==
    [status : Statuses, attempt_count : Nat, next_retry_at : Deadlines,
     lease_owner : owners \cup {NoOwner}, lease_until : Deadlines,
     last_error_class : ErrorClasses]

\* There is no row yet.
AbsentJob ==
    [status |-> "absent", attempt_count |-> 0, next_retry_at |-> "none",
     lease_owner |-> NoOwner, lease_until |-> "none",
     last_error_class |-> "none"]

\* _insert_delivery_job: the row the command transaction creates.
NewJob == [AbsentJob EXCEPT !.status = "pending"]

-----------------------------------------------------------------------------
\* _lease_is_live
LeaseLive(row) == row.lease_until = "future"

\* The ownership test of every fenced transition.
OwnsLease(row, owner) == row.lease_owner = owner /\ LeaseLive(row)

Unleased(row) ==
    [row EXCEPT !.lease_owner = NoOwner, !.lease_until = "none"]

-----------------------------------------------------------------------------
\* Faulty: a live lease does not protect its holder.
ClaimableDespiteLease(row, owner) ==
    \/ row.status \in {"pending", "claimed", "executing"}
    \/ row.status \in {"replayable", "failed_retryable"} /\ row.next_retry_at = "past"

\* Faulty: the claim trusts the caller's earlier read of the status.
ClaimableWhateverStatus(row, owner) == LeaseLive(row) => row.lease_owner \in {NoOwner, owner}

\* claim_delivery_job: which rows may be claimed by owner ...
Claimable(row, owner) ==
    \/ row.status = "pending"
    \/ row.status \in {"replayable", "failed_retryable"} /\ row.next_retry_at = "past"
    \/ /\ row.status \in {"claimed", "executing"}
       /\ LeaseLive(row) => row.lease_owner \in {NoOwner, owner}

\* ... the claim itself, which leaves attempt_count and next_retry_at alone ...
Claimed(row, owner, until) ==
    [row EXCEPT !.status = "claimed", !.lease_owner = owner, !.lease_until = until]

\* ... and the claim of a job whose attempts are spent.
AttemptLimit(row) ==
    [Unleased(row) EXCEPT !.status = "quarantined",
                          !.last_error_class = "lease_attempt_limit"]

\* mark_delivery_executing
Executing(row) == [row EXCEPT !.status = "executing"]

\* complete_delivery_with_evidence
Completed(row, status) ==
    [Unleased(row) EXCEPT
        !.status = status,
        !.last_error_class = IF status = "succeeded" THEN "none" ELSE "delivery_evidence"]

\* Faulty: the cap is compared with the attempts before this one.
ReplayableAttemptLate(row, max, retry) ==
    LET last == row.attempt_count >= max
    IN  [Unleased(row) EXCEPT
            !.status = IF last THEN "quarantined" ELSE "replayable",
            !.attempt_count = @ + 1,
            !.next_retry_at = IF last THEN "none" ELSE retry,
            !.last_error_class = "remote_outcome_uncertain"]

\* record_replayable_attempt
ReplayableAttempt(row, max, retry) ==
    LET last == row.attempt_count + 1 >= max
    IN  [Unleased(row) EXCEPT
            !.status = IF last THEN "quarantined" ELSE "replayable",
            !.attempt_count = @ + 1,
            !.next_retry_at = IF last THEN "none" ELSE retry,
            !.last_error_class =
                IF last /\ row.last_error_class # "none"
                THEN @ ELSE "remote_outcome_uncertain"]

\* record_failed_retryable_attempt
FailedRetryableAttempt(row, max, retry) ==
    LET last == row.attempt_count + 1 >= max
    IN  [Unleased(row) EXCEPT
            !.status = IF last THEN "quarantined" ELSE "failed_retryable",
            !.attempt_count = @ + 1,
            !.next_retry_at = IF last THEN "none" ELSE retry,
            !.last_error_class = "async_parse_failed"]

\* Faulty: the cap replaces the error class of the last attempt.
TransportQuarantinedLoud(row) ==
    [Unleased(row) EXCEPT
        !.status = "quarantined", !.next_retry_at = "none",
        !.last_error_class = "transport_max_deliver"]

\* quarantine_transport_delivery
TransportQuarantined(row) ==
    [Unleased(row) EXCEPT
        !.status = "quarantined", !.next_retry_at = "none",
        !.last_error_class = IF @ = "none" THEN "transport_max_deliver" ELSE @]

-----------------------------------------------------------------------------
\* The deadline process_payload defers to: next_retry_at or lease_until.
DeferDeadline(row) ==
    IF row.next_retry_at # "none" THEN row.next_retry_at ELSE row.lease_until

\* The clock reaches a stored deadline.
LeaseReached(row) == [row EXCEPT !.lease_until = "past"]
RetryReached(row) == [row EXCEPT !.next_retry_at = "past"]
=============================================================================
