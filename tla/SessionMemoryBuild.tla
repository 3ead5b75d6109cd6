------------------------ MODULE SessionMemoryBuild ------------------------
(***************************************************************************)
(* The session-memory builder (couchdb-session-memory-build with the       *)
(* postgres_pgvector backend).  A scheduler starts one build after         *)
(* another.  A build selects sessions whose projection is not the current  *)
(* source revision, writes the selection checkpoint, and then materializes *)
(* and projects the selected sessions one by one.                          *)
(*                                                                         *)
(* Two things find work.  A full walk compares every session; the change   *)
(* feed names only the sessions with a change after the checkpoint's       *)
(* watermark.  The watermark moves when sessions are selected, before any  *)
(* of them is projected, so the checkpoint also lists the selected         *)
(* sessions as pending.  A build is killed by its timeout at any point,    *)
(* and deliveries change the source all the while.                         *)
(*                                                                         *)
(* A source revision of a session is a number, a hash is the revision it   *)
(* covers.  The feed has two documents per session: its source and its     *)
(* coverage manifest; changes of projection_state are ignored by the feed  *)
(* reader and left out.  Sessions have an active revision: a session       *)
(* without one would also get its session document rewritten by a build.   *)
(***************************************************************************)
EXTENDS Integers, Sequences, Lists

CONSTANTS
    Sessions,
    Builders,            \* processes that share the checkpoint file
    WalkOrder,           \* the order in which a full walk meets the sessions
    Limits,              \* values of --limit; 0 is unlimited
    Modes,               \* values of SESSION_MEMORY_SELECTION_MODE
    Rejected,            \* <<session, revision, policy>> that the input policy refuses
    ChunkCount,          \* embedding cycles the body of a session needs
    MaxPendingAttempts,  \* MAX_PENDING_ATTEMPTS; 6 in the code
    LastRevision,        \* bound on the source revisions of each session
    MaxPolicy,           \* bound on the input policy version
    MaxFaults,           \* bound on the faults of a behaviour
    Faults               \* the kinds of fault that may happen

Kinds == {"source", "coverage"}
Revisions == {0} \cup UNION {0..LastRevision[s] : s \in Sessions}

ASSUME BuildAssumption ==
    /\ WalkOrder \in Seq(Sessions)
    /\ Range(WalkOrder) = Sessions
    /\ Distinct(WalkOrder)
    /\ Limits \subseteq Nat
    /\ Modes \subseteq {"auto", "full"}
    /\ Rejected \subseteq Sessions \X Revisions \X (1..MaxPolicy)
    /\ ChunkCount \in [Sessions -> Nat \ {0}]
    /\ LastRevision \in [Sessions -> Nat]
    /\ {MaxPendingAttempts, MaxFaults} \subseteq Nat
    /\ MaxPolicy \in Nat \ {0}

VARIABLES
    source,    \* current source revision of a session; 0 before the first
    coverage,  \* revision its coverage manifest names
    seq,       \* update sequence of the database
    feed,      \* sequence of the last change of each document
    state,     \* the projection_state documents
    chunks,    \* embedding cycles completed for a body, per session and revision
    file,      \* the selection checkpoint
    policy,    \* PG_INPUT_POLICY_VERSION of a build that starts now
    build,     \* what each build knows and where it is
    gaveUp,    \* revision at which the attempt cap dropped a session; 0 if none
    erased,    \* revision whose refusal a late pending mark erased; 0 if none
    faults     \* faults so far

vars == <<source, coverage, seq, feed, state, chunks, file, policy, build, gaveUp, erased, faults>>
db == <<source, coverage, seq, feed>>
losses == <<gaveUp, erased>>

\* A missing or unreadable checkpoint is read as an empty one.
NoCheckpoint ==
    [seq |-> 0, pending |-> <<>>, attempts |-> [s \in Sessions |-> 0],
     walk |-> FALSE, policy |-> 0]

NoAttempt == [outcome |-> "none", revision |-> 0, policy |-> 0]

NoState ==
    [projected |-> 0,         \* projected_source_hash of the PROJECTED receipt
     dataError |-> FALSE,     \* the receipt records a DataError
     attempt   |-> NoAttempt, \* projection_attempt
     terminal  |-> 0,         \* terminal_failure_policy_version
     marked    |-> 0]         \* source_hash of the pending mark

Idle ==
    [pc |-> "idle", policy |-> 0, last |-> 0, walking |-> FALSE,
     sessions |-> <<>>, rest |-> <<>>, attempts |-> [s \in Sessions |-> 0],
     dropped |-> {}, room |-> 0, rows |-> {}, examined |-> {},
     fresh |-> <<>>, states |-> [s \in Sessions |-> NoState], cursor |-> 0,
     revision |-> 0, outcome |-> "none"]

Init ==
    /\ source = [s \in Sessions |-> 0]
    /\ coverage = [s \in Sessions |-> 0]
    /\ seq = 1
    /\ feed = [s \in Sessions |-> [k \in Kinds |-> 0]]
    /\ state = [s \in Sessions |-> NoState]
    /\ chunks = [s \in Sessions |-> [r \in Revisions |-> 0]]
    /\ file = NoCheckpoint
    /\ policy = 1
    /\ build = [b \in Builders |-> Idle]
    /\ gaveUp = [s \in Sessions |-> 0]
    /\ erased = [s \in Sessions |-> 0]
    /\ faults = 0

Becomes(b, me) == build' = [build EXCEPT ![b] = me]

Fault(kind) ==
    /\ kind \in Faults
    /\ faults < MaxFaults
    /\ faults' = faults + 1

\* _blocked_source_hash_from_state: the revision the input policy refused.
BlockedRevision(doc, version) ==
    IF doc.attempt.outcome = "rejected" /\ doc.attempt.policy = version
    THEN doc.attempt.revision ELSE 0

-----------------------------------------------------------------------------
(***************************************************************************)
(* Deliveries.  SourceRevision models them in detail; here a delivery is   *)
(* the change of the source and, later, its two derived records.           *)
(***************************************************************************)
Deliver(s) ==
    /\ source[s] < LastRevision[s]
    /\ source' = [source EXCEPT ![s] = @ + 1]
    /\ seq' = seq + 1
    /\ feed' = [feed EXCEPT ![s]["source"] = seq + 1]
    /\ UNCHANGED <<coverage, state, chunks, file, policy, build, losses, faults>>

\* store.put of the coverage manifest: an identical document is not written.
PutCoverage(s) ==
    /\ coverage' = [coverage EXCEPT ![s] = source[s]]
    /\ IF coverage[s] = source[s]
       THEN UNCHANGED <<seq, feed>>
       ELSE /\ seq' = seq + 1
            /\ feed' = [feed EXCEPT ![s]["coverage"] = seq + 1]

\* The delivery refreshes the coverage and marks the projection pending.
\* The mark rebuilds the document and keeps only the receipts: the attempt
\* and the terminal summary are gone.
MarkPending(s) ==
    /\ source[s] # 0
    /\ state[s].marked # source[s]
    /\ PutCoverage(s)
    /\ state' = [state EXCEPT ![s] =
                    [@ EXCEPT !.marked = source[s], !.attempt = NoAttempt, !.terminal = 0]]
    /\ erased' = [erased EXCEPT ![s] =
                      IF state[s].terminal # 0 /\ state[s].attempt.revision = source[s]
                      THEN source[s] ELSE @]
    /\ UNCHANGED <<source, chunks, file, policy, build, gaveUp, faults>>

\* A release with another input policy.
Upgrade ==
    /\ policy < MaxPolicy
    /\ policy' = policy + 1
    /\ UNCHANGED <<db, state, chunks, file, build, losses, faults>>
-----------------------------------------------------------------------------
(***************************************************************************)
(* Selection.                                                              *)
(***************************************************************************)
\* The test that the full walk and _evaluate_session_change share.
NeedsProjection(s, doc, version) ==
    /\ source[s] # 0
    /\ doc.projected # source[s]
    /\ BlockedRevision(doc, version) # source[s]

\* Faulty: sessions may repeat.
JoinedBlindly(first, second) == first \o second

\* _dedupe_sessions of two lists without repetitions.
Joined(first, second) == first \o Within(second, Sessions \ Range(first))

Take(list, n) == SubSeq(list, 1, IF n < Len(list) THEN n ELSE Len(list))

\* Sessions to look at again because the policy of their failure changed.
Recoverable(version) ==
    {s \in Sessions : state[s].terminal \in 1..(version - 1) \/ state[s].dataError}

\* Faulty: a policy change recovers nothing.
PendingIdsAsListed == file.pending

PendingIds ==
    IF file.policy = policy THEN file.pending
    ELSE Joined(file.pending, Within(WalkOrder, Recoverable(policy)))

\* processed_pending and remaining_pending.
SplitPending(kept, limit) ==
    LET now == IF limit = 0 THEN kept ELSE Take(kept, limit)
    IN  [now |-> now, later |-> SubSeq(kept, Len(now) + 1, Len(kept))]

(***************************************************************************)
(* _select_sessions_for_cycle up to the choice of the source of fresh      *)
(* work.  An id whose evaluation fails stays pending ("odd").  Every       *)
(* pending id counts one more attempt, whether this build reaches it or    *)
(* not.  room is fresh_limit, -1 when unlimited.                           *)
(***************************************************************************)
Begin(b, limit, mode, odd) ==
    LET still == Within(PendingIds,
                        {s \in Sessions : s \in odd \/ NeedsProjection(s, state[s], policy)})
        kept == Within(still, {s \in Sessions : file.attempts[s] < MaxPendingAttempts})
        split == SplitPending(kept, limit)
        room == IF limit = 0 THEN -1 ELSE limit - Len(split.now)
        pc == IF room = 0 THEN "write"
              ELSE IF mode # "full" /\ file.seq # 0 /\ ~file.walk THEN "feed" ELSE "walk"
    IN  /\ build[b].pc = "idle"
        /\ Becomes(b, [Idle EXCEPT
               !.pc = pc, !.policy = policy, !.last = file.seq, !.walking = file.walk,
               !.sessions = split.now, !.rest = split.later, !.room = room,
               !.attempts = [s \in Sessions |->
                                IF s \in Range(kept) THEN file.attempts[s] + 1 ELSE 0],
               !.dropped = Range(still) \ Range(kept)])
        /\ UNCHANGED <<db, state, chunks, file, policy, losses>>

Start(b) ==
    \E limit \in Limits, mode \in Modes :
        \/ Begin(b, limit, mode, {}) /\ UNCHANGED faults
        \/ \E s \in Range(PendingIds) : Fault("read") /\ Begin(b, limit, mode, {s})

\* Rows of the feed after a watermark.
RowsAfter(last) ==
    {row \in {<<feed[s][k], s>> : s \in Sessions, k \in Kinds} : row[1] > last}

\* The row the loop comes to next: the oldest change is first.
NextRow(rows) == {row \in rows : \A other \in rows : row[1] <= other[1]}

ReadFeed(b) ==
    /\ build[b].pc = "feed"
    /\ Becomes(b, [build[b] EXCEPT !.pc = "rows", !.rows = RowsAfter(build[b].last)])
    /\ UNCHANGED <<db, state, chunks, file, policy, losses, faults>>

Room(b, list) == build[b].room = -1 \/ Len(list) < build[b].room

\* One row.  A session is evaluated once per window, against the store as
\* it is when its row is reached.
ExamineRow(b) ==
    LET me == build[b]
        new(s) == IF s \notin me.examined /\ NeedsProjection(s, state[s], me.policy)
                  THEN <<s>> ELSE <<>>
    IN  /\ me.pc = "rows"
        /\ \E row \in NextRow(me.rows) :
              /\ row[2] \in me.examined \/ Room(b, me.fresh)
              /\ Becomes(b, [me EXCEPT !.rows = @ \ {row}, !.examined = @ \cup {row[2]},
                                       !.fresh = @ \o new(row[2]), !.last = row[1]])
        /\ UNCHANGED <<db, state, chunks, file, policy, losses, faults>>

\* The window is exhausted, or the next row is a new session over the limit.
EndFeed(b) ==
    LET me == build[b]
    IN  /\ me.pc = "rows"
        /\ \A row \in NextRow(me.rows) : row[2] \notin me.examined /\ ~Room(b, me.fresh)
        /\ Becomes(b, [me EXCEPT !.pc = "write", !.sessions = Joined(me.sessions, me.fresh),
                                 !.rows = {}, !.examined = {}, !.fresh = <<>>])
        /\ UNCHANGED <<db, state, chunks, file, policy, losses, faults>>

\* An unmappable or deleted document, or a failed request, discards the
\* window and falls back to the full walk.
FeedFails(b) ==
    /\ build[b].pc \in {"feed", "rows"}
    /\ Fault("feed")
    /\ Becomes(b, [build[b] EXCEPT !.pc = "walk", !.rows = {}, !.examined = {}, !.fresh = <<>>])
    /\ UNCHANGED <<db, state, chunks, file, policy, losses>>

\* Faulty: the walk claims the sequence at which it ends.
EndWalkClaims(b) == seq

\* What an uncapped walk may claim: the sequence read before it began.
EndWalkSequence(b) == build[b].last

\* The update sequence, then all projection states, are read before the
\* first session is.  Without the sequence the walk claims nothing.
BeginWalk(b) ==
    /\ build[b].pc = "walk"
    /\ \E known \in BOOLEAN :
          /\ IF known THEN UNCHANGED faults ELSE Fault("sequence")
          /\ Becomes(b, [build[b] EXCEPT !.pc = "walking", !.cursor = 1, !.states = state,
                                         !.last = IF known THEN seq ELSE 0])
    /\ UNCHANGED <<db, state, chunks, file, policy, losses>>

WalkSession(b) ==
    LET me == build[b]
        s == WalkOrder[me.cursor]
        new == IF NeedsProjection(s, me.states[s], me.policy) THEN <<s>> ELSE <<>>
    IN  /\ me.pc = "walking"
        /\ me.cursor <= Len(WalkOrder)
        /\ Room(b, me.fresh)
        /\ Becomes(b, [me EXCEPT !.cursor = @ + 1, !.fresh = @ \o new])
        /\ UNCHANGED <<db, state, chunks, file, policy, losses, faults>>

\* A walk that filled its room is repeated by the next build.
EndWalk(b) ==
    LET me == build[b]
        capped == ~Room(b, me.fresh)
    IN  /\ me.pc = "walking"
        /\ me.cursor > Len(WalkOrder) \/ capped
        /\ Becomes(b, [me EXCEPT !.pc = "write", !.sessions = Joined(me.sessions, me.fresh),
                                 !.last = IF capped THEN 0 ELSE EndWalkSequence(b),
                                 !.walking = capped, !.cursor = 0, !.fresh = <<>>,
                                 !.states = [s \in Sessions |-> NoState]])
        /\ UNCHANGED <<db, state, chunks, file, policy, losses, faults>>
-----------------------------------------------------------------------------
(***************************************************************************)
(* The checkpoint.  It is rewritten in place, before the first projection. *)
(***************************************************************************)
Projecting(b) ==
    Becomes(b, [Idle EXCEPT !.pc = IF build[b].sessions = <<>> THEN "idle" ELSE "cover",
                            !.policy = build[b].policy, !.sessions = build[b].sessions])

NewCheckpoint(b) ==
    LET me == build[b]
        pending == Joined(me.rest, me.sessions)
    IN  [seq |-> me.last, pending |-> pending, walk |-> me.walking, policy |-> me.policy,
         attempts |-> [s \in Sessions |-> IF s \in Range(pending) THEN me.attempts[s] ELSE 0]]

WriteCheckpoint(b) ==
    /\ build[b].pc = "write"
    /\ file' = NewCheckpoint(b)
    /\ gaveUp' = [s \in Sessions |-> IF s \in build[b].dropped THEN source[s] ELSE gaveUp[s]]
    /\ Projecting(b)
    /\ UNCHANGED <<db, state, chunks, policy, erased, faults>>

\* An OSError is ignored: the old file is still there, or nothing is.
WriteFails(b) ==
    /\ build[b].pc = "write"
    /\ Fault("write")
    /\ file' \in {file, NoCheckpoint}
    /\ Projecting(b)
    /\ UNCHANGED <<db, state, chunks, policy, losses>>

\* The timeout kills the build; in the middle of the write it leaves a file
\* that does not parse.
Killed(b) ==
    /\ build[b].pc # "idle"
    /\ Fault("kill")
    /\ file' \in IF build[b].pc = "write" THEN {file, NoCheckpoint} ELSE {file}
    /\ Becomes(b, Idle)
    /\ UNCHANGED <<db, state, chunks, policy, losses>>
-----------------------------------------------------------------------------
(***************************************************************************)
(* materialize_and_project of the first session in the list.               *)
(***************************************************************************)
Current(b) == Head(build[b].sessions)

NextSession(b) ==
    LET left == Tail(build[b].sessions)
    IN  IF left = <<>> THEN Becomes(b, Idle)
        ELSE Becomes(b, [Idle EXCEPT !.pc = "cover", !.policy = build[b].policy, !.sessions = left])

\* update_coverage_with_tool_evidence.
RefreshCoverage(b) ==
    /\ build[b].pc = "cover"
    /\ PutCoverage(Current(b))
    /\ Becomes(b, [build[b] EXCEPT !.pc = "project"])
    /\ UNCHANGED <<source, state, chunks, file, policy, losses, faults>>

\* materialize_session_memory and the projector.  Coverage of another
\* revision is a materialization loss; the input policy comes before the
\* embedding; the embedding may need several builds.
Project(b) ==
    LET s == Current(b)
        r == source[s]
        done == chunks[s][r] + 1
        sound == coverage[s] = r
        refused == <<s, r, build[b].policy>> \in Rejected
        result == IF ~sound THEN "failed"
                  ELSE IF refused THEN "rejected"
                  ELSE IF done < ChunkCount[s] THEN "pending" ELSE "projected"
    IN  /\ build[b].pc = "project"
        /\ Becomes(b, [build[b] EXCEPT !.pc = "check", !.revision = r, !.outcome = result])
        /\ chunks' = IF result = "pending" THEN [chunks EXCEPT ![s][r] = done] ELSE chunks
        /\ UNCHANGED <<db, state, file, policy, losses, faults>>

\* The projector raises: the failure is committed with its reason.
ProjectorFails(b) ==
    /\ build[b].pc = "project"
    /\ coverage[Current(b)] = source[Current(b)]
    /\ Fault("projector")
    /\ \E result \in {"failed", "data_error"} :
          Becomes(b, [build[b] EXCEPT !.pc = "check", !.revision = source[Current(b)],
                                      !.outcome = result])
    /\ UNCHANGED <<db, state, chunks, file, policy, losses>>

\* Any other exception of the session is counted and the loop goes on.
SessionRaises(b) ==
    /\ build[b].pc \in {"cover", "project", "check", "commit"}
    /\ Fault("raise")
    /\ NextSession(b)
    /\ UNCHANGED <<db, state, chunks, file, policy, losses>>

\* _with_projection_attempt.
WithAttempt(doc, b) ==
    LET outcome == build[b].outcome
    IN  [doc EXCEPT
            !.attempt = [outcome |-> outcome, revision |-> build[b].revision,
                         policy |-> build[b].policy],
            !.terminal = CASE outcome = "rejected" -> build[b].policy
                           [] outcome = "projected" -> 0
                           [] OTHER -> @]

\* _commit_projection_state_if_source_current: the currentness test.  When
\* the source has moved on only the attempt is recorded, if there is a
\* document to record it in.
CheckCurrent(b) ==
    LET s == Current(b)
    IN  /\ build[b].pc = "check"
        /\ IF source[s] = build[b].revision
           THEN Becomes(b, [build[b] EXCEPT !.pc = "commit"]) /\ UNCHANGED state
           ELSE /\ state' = [state EXCEPT ![s] = IF @ = NoState THEN @ ELSE WithAttempt(@, b)]
                /\ NextSession(b)
        /\ UNCHANGED <<db, chunks, file, policy, losses, faults>>

\* Faulty: a failed refresh replaces the receipt.
ReceiptReplaced(doc, b) ==
    [doc EXCEPT !.projected = IF build[b].outcome = "projected" THEN build[b].revision ELSE 0,
                !.dataError = build[b].outcome = "data_error"]

\* A failure never replaces the receipt of an earlier success.
Receipt(doc, b) ==
    IF build[b].outcome # "projected" /\ doc.projected # 0 THEN doc
    ELSE [doc EXCEPT
            !.projected = IF build[b].outcome = "projected" THEN build[b].revision ELSE 0,
            !.dataError = build[b].outcome = "data_error"]

\* The document is read and written back at the revision read.
CommitState(b) ==
    LET s == Current(b)
    IN  /\ build[b].pc = "commit"
        /\ state' = [state EXCEPT ![s] = WithAttempt(Receipt(@, b), b)]
        /\ NextSession(b)
        /\ UNCHANGED <<db, chunks, file, policy, losses, faults>>
-----------------------------------------------------------------------------
Step(b) ==
    \/ Start(b)
    \/ ReadFeed(b)
    \/ ExamineRow(b)
    \/ EndFeed(b)
    \/ BeginWalk(b)
    \/ WalkSession(b)
    \/ EndWalk(b)
    \/ WriteCheckpoint(b)
    \/ RefreshCoverage(b)
    \/ Project(b)
    \/ CheckCurrent(b)
    \/ CommitState(b)

Trouble(b) ==
    \/ FeedFails(b)
    \/ WriteFails(b)
    \/ Killed(b)
    \/ ProjectorFails(b)
    \/ SessionRaises(b)

Next ==
    \/ \E s \in Sessions : Deliver(s) \/ MarkPending(s)
    \/ Upgrade
    \/ \E b \in Builders : Step(b) \/ Trouble(b)

Spec == Init /\ [][Next]_vars

\* The scheduler starts a build whenever the last one has ended, and a
\* build goes on until it ends or is killed.
FairSpec == Spec /\ \A b \in Builders : WF_vars(Step(b))
-----------------------------------------------------------------------------
Outcomes == {"none", "projected", "pending", "failed", "data_error", "rejected"}

Attempts == [outcome : Outcomes, revision : Revisions, policy : 0..MaxPolicy]

States ==
    [projected : Revisions, dataError : BOOLEAN, attempt : Attempts, terminal : 0..MaxPolicy,
     marked : Revisions]

Labels ==
    {"idle", "feed", "rows", "walk", "walking", "write", "cover", "project", "check", "commit"}

Builds(n) ==
    [pc : Labels, policy : 0..MaxPolicy, last : 0..n, walking : BOOLEAN,
     sessions : Seq(Sessions), rest : Seq(Sessions),
     attempts : [Sessions -> 0..MaxPendingAttempts], dropped : SUBSET Sessions, room : Int,
     rows : SUBSET ((0..n) \X Sessions), examined : SUBSET Sessions, fresh : Seq(Sessions),
     states : [Sessions -> States], cursor : Nat, revision : Revisions, outcome : Outcomes]

\* Every variable has its type; no session appears twice among the pending
\* ids, and none carries more attempts than the cap.
TypeOK ==
    /\ source \in [Sessions -> Revisions]
    /\ coverage \in [Sessions -> Revisions]
    /\ seq \in Nat
    /\ feed \in [Sessions -> [Kinds -> 0..seq]]
    /\ state \in [Sessions -> States]
    /\ chunks \in [Sessions -> [Revisions -> Nat]]
    /\ file \in [seq : 0..seq, pending : Seq(Sessions), walk : BOOLEAN, policy : 0..policy,
                attempts : [Sessions -> 0..MaxPendingAttempts]]
    /\ Distinct(file.pending)
    /\ policy \in 1..MaxPolicy
    /\ build \in [Builders -> Builds(seq)]
    /\ gaveUp \in [Sessions -> Revisions]
    /\ erased \in [Sessions -> Revisions]
    /\ faults \in 0..MaxFaults

(***************************************************************************)
(* Properties.                                                             *)
(***************************************************************************)
\* The current revision of s is not projected although nothing refuses it.
Outstanding(s) ==
    /\ source[s] # 0
    /\ state[s].projected # source[s]
    /\ <<s, source[s], policy>> \notin Rejected

Announced(s) == \E k \in Kinds : feed[s][k] > file.seq

\* Whatever was selected, killed, cut by a limit, refused by the feed or
\* torn on disk: a session with an outstanding revision is found again by
\* the checkpoint as it is on disk.  It is pending, it has a row after the
\* watermark, the next build walks everything, or its failure is recovered
\* by the policy change; or the attempt cap gave this revision up, or a late
\* pending mark erased the record that the policy change looks for.
NothingForgotten ==
    \A s \in Sessions :
        Outstanding(s) =>
            \/ s \in Range(file.pending)
            \/ Announced(s)
            \/ file.seq = 0 \/ file.walk
            \/ file.policy # policy /\ s \in Recoverable(policy)
            \/ source[s] \in {gaveUp[s], erased[s]}

\* A projection that was published is not taken back: no failed refresh and
\* no late commit replaces the receipt by an older one or by none.
ReceiptsOnlyAdvance ==
    [][\A s \in Sessions : state'[s].projected >= state[s].projected]_vars

\* Once deliveries, faults and releases stop, every session is projected at
\* its current revision, or that revision is refused by the input policy or
\* was lost in one of the two ways NothingForgotten names.
EverySessionSettles ==
    \A s \in Sessions :
        <>[](Outstanding(s) => source[s] \in {gaveUp[s], erased[s]})

\* A session that the attempt cap dropped comes back while its source still
\* differs from the projected revision.
DroppedSessionReturns ==
    \A s \in Sessions :
        gaveUp[s] # 0 ~> \/ state[s].projected = source[s]
                         \/ s \in Range(file.pending)

=============================================================================
