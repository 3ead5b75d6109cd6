---------------------- MODULE SessionMemoryBuildProofs ----------------------
(***************************************************************************)
(* SessionMemoryBuild for any sessions, walk order, limits, modes, bodies, *)
(* refusals, attempt cap, policies and faults, and one build at a time:    *)
(* nothing is forgotten, and receipts only advance.                        *)
(***************************************************************************)
EXTENDS SessionMemoryBuildTypes, SessionMemoryBuildKept, TLAPS

\* The prover of the steps that name none.
USE Zenon

-----------------------------------------------------------------------------
(* The selection.                                                          *)

\* The selection keeps the invariant.
LEMMA SelectStep ==
    ASSUME OneBuilder, IInv, NEW b \in Builders,
           \/ Start(b) \/ ReadFeed(b) \/ ExamineRow(b) \/ EndFeed(b) \/ FeedFails(b)
           \/ BeginWalk(b) \/ WalkSession(b) \/ EndWalk(b)
    PROVE  IInv'
<1>0. TypeInv
    BY InvParts
<1>1. TypeInv'
    BY <1>0, StartTypes, SelectTypes
<1>2. UNCHANGED <<db, state, chunks, file, policy, losses>>
    BY DEF Start, Begin, ReadFeed, ExamineRow, EndFeed, FeedFails, BeginWalk, WalkSession, EndWalk
<1>3. UNCHANGED Data
    BY <1>2 DEF Data, db, losses
<1>4. \E me : Becomes(b, me) /\ BuildOK(me)
  <2>1. CASE Start(b)
    <3>1. PICK limit \in Limits, mode \in Modes : \E odd : Begin(b, limit, mode, odd)
      BY <2>1 DEF Start
    <3>2. PICK odd : Begin(b, limit, mode, odd)
      BY <3>1
    <3>3. limit \in Nat
      BY BuildAssumption
    <3>4. PICK me : Becomes(b, me) /\ Begun(me, odd)
      BY <1>0, <3>2, <3>3, BeginMoves
    <3>5. /\ Range(file.pending) \subseteq Range(PendingIds)
          /\ file.policy # policy => Recoverable(policy) \subseteq Range(PendingIds)
      BY <1>0, TypeParts, PendingLists
    <3> QED
      BY <3>4, <3>5, StartOK
  <2>2. CASE ReadFeed(b)
    BY <1>0, <2>2, ReadFeedMoves, ReadFeedOK
  <2>3. CASE ExamineRow(b)
    <3>1. PICK me, row :
               /\ Becomes(b, me) /\ Keeps(me, build[b])
               /\ build[b].pc = "rows" /\ me.pc = "rows"
               /\ row \in NextRow(build[b].rows)
               /\ me.rows = build[b].rows \ {row} /\ me.last = row[1]
               /\ me.examined = build[b].examined \cup {row[2]}
               /\ Range(build[b].fresh) \subseteq Range(me.fresh)
               /\ row[2] \notin build[b].examined
                    /\ NeedsProjection(row[2], state[row[2]], build[b].policy) =>
                        row[2] \in Range(me.fresh)
      BY <1>0, <2>3, ExamineRowMoves
    <3>2. BuildOK(me)
      BY <3>1, ExamineRowOK
    <3> QED
      BY <3>1, <3>2
  <2>4. CASE EndFeed(b)
    <3>1. PICK me : /\ Becomes(b, me)
                    /\ build[b].pc = "rows" /\ me.pc = "write"
                    /\ Range(me.sessions) = Range(build[b].sessions) \cup Range(build[b].fresh)
                    /\ me.policy = build[b].policy /\ me.rest = build[b].rest
                    /\ me.dropped = build[b].dropped /\ me.last = build[b].last /\ me.rows = {}
      BY <1>0, <2>4, EndFeedMoves
    <3>2. BuildOK(me)
      BY <3>1, EndFeedOK
    <3> QED
      BY <3>1, <3>2
  <2>5. CASE FeedFails(b)
    <3>1. PICK me : /\ Becomes(b, me) /\ build[b].pc \in {"feed", "rows"} /\ me.pc = "walk"
                    /\ me.policy = build[b].policy /\ me.rows = {}
      BY <1>0, <2>5, FeedFailsMoves, SMT
    <3>2. BuildOK(me)
      BY <3>1, FeedFailsOK, SMT
    <3> QED
      BY <3>1, <3>2
  <2>6. CASE BeginWalk(b)
    BY <1>0, <2>6, BeginWalkMoves, BeginWalkOK
  <2>7. CASE WalkSession(b)
    <3>1. PICK me, s :
               /\ Becomes(b, me) /\ Keeps(me, build[b])
               /\ build[b].pc = "walking" /\ me.pc = "walking"
               /\ build[b].cursor \in 1..Len(WalkOrder) /\ s = WalkOrder[build[b].cursor]
               /\ s \in Sessions
               /\ me.cursor = build[b].cursor + 1 /\ me.states = build[b].states
               /\ me.last = build[b].last /\ me.rows = build[b].rows
               /\ Range(build[b].fresh) \subseteq Range(me.fresh)
               /\ NeedsProjection(s, build[b].states[s], build[b].policy) => s \in Range(me.fresh)
      BY <1>0, <2>7, WalkSessionMoves
    <3>2. BuildOK(me)
      BY <3>1, WalkSessionOK
    <3> QED
      BY <3>1, <3>2
  <2>8. CASE EndWalk(b)
    <3>1. PICK me : /\ Becomes(b, me)
                    /\ build[b].pc = "walking" /\ me.pc = "write"
                    /\ Range(me.sessions) = Range(build[b].sessions) \cup Range(build[b].fresh)
                    /\ me.policy = build[b].policy /\ me.rest = build[b].rest
                    /\ me.dropped = build[b].dropped /\ me.rows = build[b].rows
                    /\ me.walking \/ (me.last = build[b].last /\ build[b].cursor > Len(WalkOrder))
      BY <1>0, <2>8, EndWalkMoves
    <3>2. BuildOK(me)
      BY <3>1, EndWalkOK
    <3> QED
      BY <3>1, <3>2
  <2> QED
    BY <2>1, <2>2, <2>3, <2>4, <2>5, <2>6, <2>7, <2>8
<1> QED
    BY <1>1, <1>3, <1>4, Continued

-----------------------------------------------------------------------------
(* The checkpoint.                                                         *)

\* The checkpoint takes over what the selection pursued.
LEMMA WriteCheckpointStep ==
    ASSUME OneBuilder, IInv, NEW b \in Builders, WriteCheckpoint(b)
    PROVE  IInv'
<1> DEFINE old == build[b]
<1>0. /\ TypeInv /\ BuildOK(old) /\ ListsOK(old) /\ FeedOK
      /\ \A s \in Sessions : DocOK(s)
    BY InvParts
<1>1. TypeInv' /\ GoesOn(b)
    BY <1>0, WriteTypes
<1>2. /\ old.pc = "write" /\ file' = NewCheckpoint(b)
      /\ gaveUp' = [s \in Sessions |-> IF s \in old.dropped THEN source[s] ELSE gaveUp[s]]
      /\ UNCHANGED <<source, feed, state, policy, erased>>
    BY DEF WriteCheckpoint, db
<1>3. /\ Range(file'.pending) = Range(old.rest) \cup Range(old.sessions)
      /\ file'.seq = old.last /\ file'.walk = old.walking /\ file'.policy = old.policy
    BY <1>0, <1>2, CheckpointTypes
<1>4. FeedOK' /\ \A s \in Sessions : DocOK(s)'
    BY <1>0, <1>2, SMT DEF FeedOK, DocOK
<1>5. ASSUME NEW s \in Sessions
      PROVE  OnDisk(s)'
  <2> SUFFICES ASSUME Unprojected(s)'
               PROVE  \/ s \in Range(file'.pending) \/ AnnouncedAfter(s, file.seq)' \/ file'.seq = 0
                      \/ file'.walk \/ Lost(s)' \/ Recorded(s, file.policy)'
    BY DEF OnDisk
  <2>1. Unprojected(s)
    BY <1>2 DEF Unprojected
  <2>2. Pursued(old, s)
    BY <1>0, <1>2, <2>1 DEF BuildOK, Selecting
  <2>3. s \in old.dropped \/ Lost(s) => Lost(s)'
    BY <1>2, SMT DEF Lost
  <2>4. Recorded(s, old.policy) => Recorded(s, file.policy)'
    BY <1>2, <1>3, SMT DEF Recorded
  <2>5. AnnouncedAfter(s, old.last) => AnnouncedAfter(s, file.seq)'
    BY <1>2, <1>3, SMT DEF AnnouncedAfter
  <2>6. s \notin Range(old.fresh)
    BY <1>0, <1>2, NothingFresh, SMT
  <2> QED
    BY <1>2, <1>3, <2>2, <2>3, <2>4, <2>5, <2>6 DEF Pursued
<1>6. \E me : Becomes(b, me) /\ BuildOK(me)'
  <2>1. old.pc # "idle" /\ file'.policy \in {file.policy, old.policy, 0}
    BY <1>2, <1>3, SMT
  <2> QED
    BY <1>1, <2>1, GoesOnOK
<1> QED
    BY <1>0, <1>1, <1>4, <1>5, <1>6, Rebuilt

\* A checkpoint that was not written, or is torn, leads to a walk.
LEMMA TornStep ==
    ASSUME OneBuilder, IInv, NEW b \in Builders, WriteFails(b) \/ Killed(b)
    PROVE  IInv'
<1>0. TypeInv /\ FeedOK /\ \A s \in Sessions : DocOK(s) /\ OnDisk(s)
    BY InvParts
<1>1. TypeInv' /\ GoesOn(b)
    BY <1>0, WriteTypes
<1>2. /\ file' = file \/ file' = NoCheckpoint
      /\ UNCHANGED <<source, feed, state, policy, gaveUp, erased>>
    BY DEF WriteFails, Killed, db, losses
<1>3. build[b].pc # "idle"
    BY SMT DEF WriteFails, Killed
<1>4. FeedOK' /\ \A s \in Sessions : DocOK(s)'
    BY <1>0, <1>2, SMT DEF FeedOK, DocOK
<1>5. \A s \in Sessions : OnDisk(s)'
  <2>1. CASE file' = file
    <3>1. UNCHANGED Data
      BY <1>2, <2>1 DEF Data
    <3> QED
      BY <1>0, <3>1, SameOnDisk
  <2>2. CASE file' = NoCheckpoint
    <3>1. file'.seq = 0
      BY <1>0, <2>2, NoCheckpointType
    <3> QED
      BY <3>1 DEF OnDisk
  <2> QED
    BY <1>2, <2>1, <2>2
<1>6. file'.policy \in {file.policy, build[b].policy, 0}
    BY <1>0, <1>2, NoCheckpointType, SMT
<1>7. \E me : Becomes(b, me) /\ BuildOK(me)'
    BY <1>1, <1>3, <1>6, GoesOnOK
<1> QED
    BY <1>0, <1>1, <1>4, <1>5, <1>7, Rebuilt

-----------------------------------------------------------------------------
(* The projection of a session.                                            *)

\* A session that raises is still in the checkpoint.
LEMMA SessionRaisesStep ==
    ASSUME OneBuilder, IInv, NEW b \in Builders, SessionRaises(b)
    PROVE  IInv'
<1>0. TypeInv /\ FeedOK /\ \A s \in Sessions : DocOK(s) /\ OnDisk(s)
    BY InvParts
<1>1. TypeInv' /\ GoesOn(b)
    BY <1>0, SessionRaisesTypes
<1>2. UNCHANGED Data /\ file' = file
    BY DEF SessionRaises, Data, db, losses
<1>3. build[b].pc # "idle" /\ file'.policy \in {file.policy, build[b].policy, 0}
    BY <1>2, SMT DEF SessionRaises
<1>4. \E me : Becomes(b, me) /\ BuildOK(me)'
    BY <1>1, <1>3, GoesOnOK
<1>5. FeedOK' /\ \A s \in Sessions : DocOK(s)' /\ OnDisk(s)'
    BY <1>0, <1>2, SameOnDisk
<1> QED
    BY <1>0, <1>1, <1>4, <1>5, Rebuilt

\* A projection is of the revision that is current when it begins.
LEMMA ProjectStep ==
    ASSUME OneBuilder, IInv, NEW b \in Builders, Project(b) \/ ProjectorFails(b)
    PROVE  IInv'
<1>0. /\ TypeInv /\ BuildOK(build[b]) /\ \A s \in Sessions : DocOK(s)
    BY InvParts
<1>1. TypeInv'
    BY <1>0, ProjectTypes
<1>2. UNCHANGED Data
    BY DEF Project, ProjectorFails, Data, db, losses
<1> DEFINE s == Current(b)
<1>f. Finds(b)
    BY <1>0, ProjectMoves, ProjectorFailsMoves
<1>3. PICK me : /\ Becomes(b, me) /\ Advances(me, build[b])
                /\ build[b].pc = "project" /\ me.pc = "check" /\ me.revision = source[s]
                /\ me.outcome = "rejected" => <<s, source[s], build[b].policy>> \in Rejected
    BY <1>f DEF Finds
<1>4. s \in Sessions /\ s = Head(me.sessions)
    BY <1>0, <1>3, CurrentIsSession DEF Projections, Advances
<1>5. ResultOK(me)
  <2>1. source[s] <= source[s] /\ state[s].attempt.revision <= source[s] /\ state[s].projected <= source[s]
    <3>1. source[s] \in Nat /\ DocOK(s)
      BY <1>0, <1>4, Numbers
    <3>2. source[s] <= source[s]
      BY <3>1, SMT
    <3> QED
      BY <3>1, <3>2 DEF DocOK
  <2> QED
    BY <1>3, <1>4, <2>1 DEF ResultOK, Advances
<1>6. BuildOK(me)
  <2>1. file.policy <= me.policy /\ RowsOK(me)
    BY <1>0, <1>3 DEF BuildOK, RowsOK, Advances
  <2>2. SnapshotOK(me) /\ me.pc \notin Selecting
    BY <1>3, SMT DEF SnapshotOK, Selecting
  <2> QED
    BY <1>5, <2>1, <2>2 DEF BuildOK
<1> QED
    BY <1>1, <1>2, <1>3, <1>6, Continued

\* A refreshed coverage manifest announces the session.
LEMMA RefreshCoverageStep ==
    ASSUME OneBuilder, IInv, NEW b \in Builders, RefreshCoverage(b)
    PROVE  IInv'
<1> DEFINE s == Current(b)
<1>0. /\ TypeInv /\ FeedOK /\ BuildOK(build[b]) /\ \A t \in Sessions : DocOK(t) /\ OnDisk(t)
    BY InvParts
<1>1. TypeInv' /\ s \in Sessions /\ Fed(s)
    BY <1>0, RefreshCoverageMoves
<1>2. PICK me : Becomes(b, me) /\ Advances(me, build[b]) /\ me.pc = "project"
    BY <1>0, RefreshCoverageMoves
<1>3. UNCHANGED <<source, state, file, policy, gaveUp, erased>> /\ build[b].pc = "cover"
    BY DEF RefreshCoverage, losses
<1>4. FeedOK'
    BY <1>0, <1>1, FedOK
<1>5. \A t \in Sessions : DocOK(t)'
    BY <1>0, <1>3, SMT DEF DocOK
<1>6. ASSUME NEW t \in Sessions
      PROVE  OnDisk(t)'
  <2>1. /\ Unprojected(t)' => Unprojected(t)
        /\ Lost(t) => Lost(t)'
        /\ Recorded(t, file.policy) => Recorded(t, file.policy)'
    BY <1>3, SMT DEF Unprojected, Lost, Recorded
  <2>2. file.seq \in 0..seq
    BY <1>0, Numbers
  <2>3. AnnouncedAfter(t, file.seq) => AnnouncedAfter(t, file.seq)'
    <3>1. ASSUME NEW n, n = file.seq, AnnouncedAfter(t, n) PROVE AnnouncedAfter(t, n)'
      BY <1>0, <1>1, <2>2, <3>1, FedAnnounced
    <3> QED
      BY <1>3, <3>1
  <2> QED
    BY <1>0, <1>3, <2>1, <2>3, OnDiskKept
<1>7. BuildOK(me)'
  <2>1. RowsOK(build[b]) /\ file.policy <= build[b].policy
    BY <1>0, <1>3, SMT DEF BuildOK
  <2>2. RowsOK(me)' /\ file'.policy <= me.policy
    BY <1>2, <1>3, <2>1, SMT DEF RowsOK, Advances
  <2>3. me.pc # "walking" /\ me.pc \notin {"check", "commit"} /\ me.pc \notin Selecting
    BY <1>2, SMT DEF Selecting
  <2> QED
    BY <2>2, <2>3 DEF BuildOK, SnapshotOK, ResultOK
<1> QED
    BY <1>0, <1>1, <1>2, <1>4, <1>5, <1>6, <1>7, Rebuilt

-----------------------------------------------------------------------------
(* The commit.                                                             *)

\* A step of CheckCurrent or CommitState that writes the document.
Commits(b, doc) ==
    /\ Writes(b, doc)
    /\ Committed(doc, state[Current(b)], build[b])
    /\ \/ doc.projected = state[Current(b)].projected /\ source[Current(b)] # build[b].revision
       \/ doc.projected = IF build[b].outcome = "projected" THEN build[b].revision
                          ELSE state[Current(b)].projected

\* What the check of the source writes: nothing, or the attempt.
LEMMA CheckCurrentCommits ==
    ASSUME TypeInv, NEW b \in Builders, CheckCurrent(b)
    PROVE  \/ Passes(b)
           \/ UNCHANGED state /\ GoesOn(b)
           \/ Commits(b, WithAttempt(state[Current(b)], b))
<1> DEFINE s == Current(b)
<1>0. state \in [Sessions -> States]
    BY TypeParts DEF DataTypes
<1>1. s \in Sessions
    BY CheckCurrentMoves
<1>2. CASE Passes(b)
    BY <1>2
<1>3. CASE Writes(b, state[s])
  <2>1. state' = [state EXCEPT ![s] = state[s]] /\ GoesOn(b)
    BY <1>3 DEF Writes
  <2>2. state' = state
    BY <1>0, <1>1, <2>1, SMT
  <2> QED
    BY <2>1, <2>2
<1>4. CASE source[s] # build[b].revision /\ Writes(b, WithAttempt(state[s], b))
  <2> DEFINE new == WithAttempt(state[s], b)
             attempt == [outcome |-> build[b].outcome, revision |-> build[b].revision,
                         policy |-> build[b].policy]
  <2>1. /\ new.projected = state[s].projected
        /\ new.attempt = attempt
        /\ build[b].outcome = "rejected" => new.terminal = build[b].policy
        /\ build[b].outcome = "projected" => new.terminal = 0
        /\ build[b].outcome \notin {"rejected", "projected"} => new.terminal = state[s].terminal
    <3>1. state[s] \in States
      BY <1>0, <1>1
    <3> HIDE DEF s
    <3> QED
      BY <3>1, AttemptDoc
  <2>2. /\ attempt.outcome = build[b].outcome /\ attempt.revision = build[b].revision
        /\ attempt.policy = build[b].policy
    OBVIOUS
  <2> HIDE DEF new, attempt
  <2>3. Committed(new, state[s], build[b])
    BY <2>1, <2>2 DEF Committed
  <2> QED
    BY <1>4, <2>1, <2>3 DEF Commits, new
<1> QED
    BY <1>2, <1>3, <1>4, CheckCurrentMoves

\* What the commit writes: the attempt, and the receipt of a success.
LEMMA CommitStateCommits ==
    ASSUME TypeInv, NEW b \in Builders, CommitState(b)
    PROVE  Commits(b, WithAttempt(Receipt(state[Current(b)], b), b))
<1> DEFINE s == Current(b)
           doc == Receipt(state[s], b)
           new == WithAttempt(doc, b)
           attempt == [outcome |-> build[b].outcome, revision |-> build[b].revision,
                       policy |-> build[b].policy]
<1>0. state[s] \in States /\ doc \in States /\ Writes(b, new)
    BY CommitStateMoves, TypeParts DEF DataTypes
<1>1. /\ doc.projected = IF build[b].outcome = "projected" THEN build[b].revision ELSE state[s].projected
      /\ doc.terminal = state[s].terminal
    BY <1>0, ReceiptDoc
<1> HIDE DEF doc
<1>2. /\ new.projected = doc.projected
      /\ new.attempt = attempt
      /\ build[b].outcome = "rejected" => new.terminal = build[b].policy
      /\ build[b].outcome = "projected" => new.terminal = 0
      /\ build[b].outcome \notin {"rejected", "projected"} => new.terminal = doc.terminal
    BY <1>0, AttemptDoc
<1>3. /\ attempt.outcome = build[b].outcome /\ attempt.revision = build[b].revision
      /\ attempt.policy = build[b].policy
    OBVIOUS
<1> HIDE DEF new, attempt
<1>4. Committed(new, state[s], build[b])
    BY <1>1, <1>2, <1>3 DEF Committed
<1> QED
    BY <1>0, <1>1, <1>2, <1>4 DEF Commits, new, doc

\* Both keep the invariant, and the receipt does not go back.
LEMMA CommitsStep ==
    ASSUME OneBuilder, IInv, TypeInv', NEW b \in Builders, build[b].pc \in {"check", "commit"},
           NEW doc, Commits(b, doc), UNCHANGED <<db, chunks, file, policy, losses, faults>>
    PROVE  IInv' /\ \A t \in Sessions : state'[t].projected >= state[t].projected
<1> DEFINE s == Current(b)
<1>0. TypeInv /\ FeedOK
    BY InvParts
<1>1. s \in Sessions /\ s = Head(build[b].sessions)
    BY <1>0, CurrentIsSession, SMT DEF Projections
<1>2. UNCHANGED <<source, feed, file, policy, gaveUp, erased>>
    BY DEF db, losses
<1>3. state' = [state EXCEPT ![s] = doc] /\ GoesOn(b)
    BY DEF Commits, Writes
<1>4. CommitOf(s, doc, build[b])
    BY <1>3 DEF Commits, CommitOf
<1> HIDE DEF s
<1>5. /\ \A t \in Sessions : DocOK(t)' /\ OnDisk(t)'
      /\ \A t \in Sessions : state'[t].projected >= state[t].projected
    BY <1>1, <1>2, <1>3, <1>4, WrittenOK
<1>6. FeedOK'
    BY <1>0, <1>2, SMT DEF FeedOK
<1>7. build[b].pc # "idle" /\ file'.policy \in {file.policy, build[b].policy, 0}
    BY <1>2, SMT
<1>8. \E me : Becomes(b, me) /\ BuildOK(me)'
    BY <1>3, <1>7, GoesOnOK
<1> QED
    BY <1>0, <1>5, <1>6, <1>8, Rebuilt

\* The check and the commit keep the invariant, and no receipt goes back.
LEMMA CommitStep ==
    ASSUME OneBuilder, IInv, NEW b \in Builders, CheckCurrent(b) \/ CommitState(b)
    PROVE  IInv' /\ \A t \in Sessions : state'[t].projected >= state[t].projected
<1>0. /\ TypeInv /\ BuildOK(build[b]) /\ FeedOK /\ \A s \in Sessions : DocOK(s) /\ OnDisk(s)
    BY InvParts
<1>1. TypeInv'
    BY <1>0, CommitTypes
<1>2. /\ UNCHANGED <<db, chunks, file, policy, losses, faults>>
      /\ build[b].pc \in {"check", "commit"}
    BY DEF CheckCurrent, CommitState
<1>3. \/ Passes(b)
      \/ UNCHANGED state /\ GoesOn(b)
      \/ \E doc : Commits(b, doc)
    BY <1>0, CheckCurrentCommits, CommitStateCommits
<1>4. ASSUME UNCHANGED state
      PROVE  UNCHANGED Data /\ \A t \in Sessions : state'[t].projected >= state[t].projected
  <2>1. UNCHANGED Data
    BY <1>2, <1>4 DEF Data, db, losses
  <2>2. \A t \in Sessions : state[t].projected \in Nat
    BY <1>0, Numbers
  <2> QED
    BY <1>4, <2>1, <2>2, SMT
<1>5. CASE Passes(b)
  <2>1. PICK me : /\ Becomes(b, me) /\ Advances(me, build[b]) /\ me.pc = "commit"
                  /\ me.revision = build[b].revision /\ me.outcome = build[b].outcome
    BY <1>5 DEF Passes
  <2>2. ResultOK(build[b]) /\ RowsOK(build[b]) /\ file.policy <= build[b].policy
    BY <1>0, <1>2, SMT DEF BuildOK
  <2>3. RowsOK(me) /\ file.policy <= me.policy
    BY <2>1, <2>2, SMT DEF RowsOK, Advances
  <2>4. ResultOK(me)
    BY <1>2, <2>1, <2>2 DEF ResultOK, Advances
  <2>5. SnapshotOK(me) /\ me.pc \notin Selecting
    BY <2>1, SMT DEF SnapshotOK, Selecting
  <2>6. BuildOK(me)
    BY <2>3, <2>4, <2>5 DEF BuildOK
  <2>7. UNCHANGED state
    BY <1>5 DEF Passes
  <2> QED
    BY <1>1, <1>4, <2>1, <2>6, <2>7, Continued
<1>6. CASE UNCHANGED state /\ GoesOn(b)
  <2>1. build[b].pc # "idle" /\ file'.policy \in {file.policy, build[b].policy, 0}
    BY <1>2, SMT
  <2>2. \E me : Becomes(b, me) /\ BuildOK(me)'
    BY <1>6, <2>1, GoesOnOK
  <2>3. FeedOK' /\ \A s \in Sessions : DocOK(s)' /\ OnDisk(s)'
    BY <1>0, <1>4, <1>6, SameOnDisk
  <2> QED
    BY <1>0, <1>1, <1>4, <1>6, <2>2, <2>3, Rebuilt
<1>7. ASSUME NEW doc, Commits(b, doc)
      PROVE  IInv' /\ \A t \in Sessions : state'[t].projected >= state[t].projected
    BY <1>1, <1>2, <1>7, CommitsStep, SMT
<1> QED
    BY <1>3, <1>5, <1>6, <1>7

-----------------------------------------------------------------------------
(* Deliveries.                                                             *)

\* A delivery is announced in the feed.
LEMMA DeliverFeeds ==
    ASSUME TypeInv, NEW s \in Sessions, Deliver(s)
    PROVE  TypeInv' /\ Fed(s)
<1>1. /\ seq' = seq + 1 /\ feed' = [feed EXCEPT ![s]["source"] = seq + 1] /\ "source" \in Kinds
    BY DEF Deliver, Kinds
<1>2. DataTypes
    BY TypeParts
<1> QED
    BY <1>1, <1>2, WriteFeeds, DeliverTypes

\* So is the coverage manifest that a pending mark writes.
LEMMA MarkPendingFeeds ==
    ASSUME TypeInv, NEW s \in Sessions, MarkPending(s)
    PROVE  TypeInv' /\ Fed(s)
<1>1. DataTypes /\ PutCoverage(s)
    BY TypeParts DEF MarkPending
<1> QED
    BY <1>1, CoverageFeeds, MarkPendingTypes

-----------------------------------------------------------------------------
(* The theorems.                                                           *)

\* The invariant holds at the beginning.
LEMMA InitInv ==
    ASSUME Init
    PROVE  IInv
<1>1. TypeInv
    BY InitTypes
<1>2. /\ \A s \in Sessions : source[s] = 0 /\ state[s] = NoState
      /\ \A s \in Sessions, k \in Kinds : feed[s][k] = 0
      /\ policy = 1 /\ \A b \in Builders : build[b] = Idle
    BY DEF Init
<1>3. FeedOK
    BY <1>2 DEF FeedOK
<1>4. ASSUME NEW s \in Sessions PROVE DocOK(s) /\ OnDisk(s)
  <2>1. DocOK(s)
    BY <1>2, SMT DEF DocOK, NoState, NoAttempt
  <2>2. OnDisk(s)
    BY <1>2 DEF OnDisk, Unprojected
  <2> QED
    BY <2>1, <2>2
<1>5. BuildOK(Idle)
  <2>1. /\ Idle.pc = "idle" /\ Idle.rows = {}
        /\ Idle.pc \notin Selecting /\ Idle.pc \notin {"check", "commit"} /\ Idle.pc # "walking"
    BY SMT DEF Idle, Selecting
  <2> QED
    BY <2>1 DEF BuildOK, RowsOK, SnapshotOK, ResultOK
<1> QED
    BY <1>1, <1>2, <1>3, <1>4, <1>5 DEF IInv

\* Every step keeps the invariant.
LEMMA NextInv ==
    ASSUME OneBuilder, IInv, [Next]_vars
    PROVE  IInv'
<1>0. TypeInv
    BY DEF IInv
<1>1. ASSUME NEW s \in Sessions, Deliver(s) \/ MarkPending(s) PROVE IInv'
    BY <1>0, <1>1, DeliverFeeds, DeliverStep, MarkPendingFeeds, MarkPendingStep
<1>2. CASE Upgrade
    BY <1>0, <1>2, UpgradeTypes, UpgradeStep
<1>3. ASSUME NEW b \in Builders, Step(b) PROVE IInv'
    BY <1>3, SelectStep, WriteCheckpointStep, RefreshCoverageStep, ProjectStep, CommitStep DEF Step
<1>4. ASSUME NEW b \in Builders, Trouble(b) PROVE IInv'
    BY <1>4, SelectStep, TornStep, ProjectStep, SessionRaisesStep DEF Trouble
<1>5. CASE UNCHANGED vars
  <2>1. UNCHANGED <<source, coverage, seq, feed, state, chunks, file, policy, build, gaveUp, erased, faults>>
    BY <1>5 DEF vars
  <2>2. TypeInv'
    BY <2>1 DEF IInv, TypeInv, TypeOK, ListsOK, Builds
  <2>3. UNCHANGED Data
    BY <2>1 DEF Data
  <2>4. FeedOK' /\ \A s \in Sessions : DocOK(s)' /\ OnDisk(s)'
    BY <2>3, SameOnDisk DEF IInv
  <2>5. \A me : BuildOK(me) => BuildOK(me)'
    BY <2>3, SameBuild
  <2> QED
    BY <2>1, <2>2, <2>4, <2>5, Environment
<1> QED
    BY <1>1, <1>2, <1>3, <1>4, <1>5 DEF Next

\* With one build at a time, and whatever is delivered, released, killed,
\* cut by a limit or torn on disk, a session whose current revision is not
\* projected is found again by the checkpoint as it is on disk, unless the
\* attempt cap or a late pending mark has lost that revision.
THEOREM NothingIsForgotten ==
    ASSUME OneBuilder
    PROVE  Spec => []NothingForgotten
<1>1. Init => IInv
    BY InitInv
<1>2. IInv /\ [Next]_vars => IInv'
    BY NextInv
<1>3. IInv => NothingForgotten
    BY InvForgetsNothing
<1> QED
    BY <1>1, <1>2, <1>3, PTL DEF Spec

\* No step takes a receipt back.
LEMMA NextAdvances ==
    ASSUME OneBuilder, IInv, [Next]_vars
    PROVE  \A t \in Sessions : state'[t].projected >= state[t].projected
<1>0. TypeInv
    BY DEF IInv
<1>1. UNCHANGED state => \A t \in Sessions : state'[t].projected >= state[t].projected
  <2>1. \A t \in Sessions : state[t].projected \in Nat
    BY <1>0, Numbers
  <2> QED
    BY <2>1, SMT
<1>2. ASSUME NEW s \in Sessions, Deliver(s)
      PROVE  UNCHANGED state
    BY <1>2 DEF Deliver
<1>3. ASSUME NEW b \in Builders, Step(b) \/ Trouble(b), ~CheckCurrent(b), ~CommitState(b)
      PROVE  UNCHANGED state
    BY <1>3 DEF Step, Trouble, Start, Begin, ReadFeed, ExamineRow, EndFeed, BeginWalk, WalkSession,
       EndWalk, WriteCheckpoint, RefreshCoverage, Project, FeedFails, WriteFails, Killed, ProjectorFails,
       SessionRaises
<1>4. Upgrade \/ UNCHANGED vars => UNCHANGED state
    BY DEF Upgrade, vars
<1>5. ASSUME NEW s \in Sessions, MarkPending(s)
      PROVE  \A t \in Sessions : state'[t].projected >= state[t].projected
    BY <1>0, <1>5, MarkPendingFeeds, MarkPendingStep
<1>6. ASSUME NEW b \in Builders, CheckCurrent(b) \/ CommitState(b)
      PROVE  \A t \in Sessions : state'[t].projected >= state[t].projected
    BY <1>6, CommitStep
<1> QED
    BY <1>1, <1>2, <1>3, <1>4, <1>5, <1>6 DEF Next

\* With one build at a time no failed refresh, stale attempt, late commit or
\* pending mark takes a published projection back.
THEOREM ReceiptsAdvance ==
    ASSUME OneBuilder
    PROVE  Spec => ReceiptsOnlyAdvance
<1>1. Init => IInv
    BY InitInv
<1>2. IInv /\ [Next]_vars => IInv'
    BY NextInv
<1>3. IInv /\ [Next]_vars => [\A s \in Sessions : state'[s].projected >= state[s].projected]_vars
    BY NextAdvances
<1> QED
    BY <1>1, <1>2, <1>3, PTL DEF Spec, ReceiptsOnlyAdvance

=============================================================================
