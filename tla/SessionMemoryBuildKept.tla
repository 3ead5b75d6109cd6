----------------------- MODULE SessionMemoryBuildKept -----------------------
(***************************************************************************)
(* What keeps the way back to a session (IInv), step by step.  The lemmas  *)
(* about a step of the build start from what SessionMemoryBuildTypes says  *)
(* of the record it leaves behind.                                         *)
(***************************************************************************)
EXTENDS SessionMemoryBuildInv, TLAPS

\* The prover of the steps that name none.
USE Zenon

-----------------------------------------------------------------------------
(* Numbers.                                                                *)

\* The types of the variables.
LEMMA TypeFacts ==
    ASSUME TypeInv
    PROVE  /\ DataTypes /\ FileTypes /\ build \in [Builders -> Builds(seq)]
           /\ Revisions \subseteq Nat
<1>1. Revisions \subseteq Nat
    BY BuildAssumption, SMT DEF Revisions
<1> QED
    BY <1>1 DEF TypeInv, TypeOK, DataTypes, FileTypes, Files

\* The numbers of a session, of the checkpoint and of the feed.
LEMMA Numbers ==
    ASSUME TypeInv, NEW s \in Sessions
    PROVE  /\ source[s] \in Nat /\ state[s].projected \in Nat /\ state[s].terminal \in Nat
           /\ state[s].attempt.revision \in Nat /\ state[s].attempt.policy \in Nat
           /\ state[s] \in States /\ policy \in Nat /\ seq \in Nat
           /\ file.policy \in Nat /\ file.policy <= policy /\ file.seq \in 0..seq
           /\ \A k \in Kinds : feed[s][k] \in 0..seq
<1>1. DataTypes /\ FileTypes
    BY TypeFacts
<1>2. /\ source[s] \in Revisions /\ state[s] \in States /\ policy \in 1..MaxPolicy /\ seq \in Nat
      /\ \A k \in Kinds : feed[s][k] \in 0..seq
    BY <1>1 DEF DataTypes
<1>3. policy \in Nat
    BY <1>2, BuildAssumption, SMT
<1>4. /\ state[s].projected \in Revisions /\ state[s].terminal \in 0..MaxPolicy
      /\ state[s].attempt \in Attempts
    BY <1>2 DEF States
<1>5. state[s].attempt.revision \in Revisions /\ state[s].attempt.policy \in 0..MaxPolicy
    BY <1>4 DEF Attempts
<1>6. file.policy \in 0..policy /\ file.seq \in 0..seq
    BY <1>1 DEF FileTypes, Files
<1>7. file.policy \in Nat /\ file.policy <= policy
    BY <1>3, <1>6, SMT
<1>8. state[s].terminal \in Nat /\ state[s].attempt.policy \in Nat
    BY <1>4, <1>5, BuildAssumption, SMT
<1> QED
    BY <1>2, <1>3, <1>4, <1>5, <1>6, <1>7, <1>8, TypeFacts

\* The numbers of a build.
LEMMA BuildNumbers ==
    ASSUME NEW n \in Nat, NEW me \in Builds(n)
    PROVE  /\ me.last \in 0..n /\ me.policy \in Nat /\ me.revision \in Nat
           /\ \A row \in me.rows : row[1] \in 0..n /\ row[2] \in Sessions /\ row = <<row[1], row[2]>>
           /\ \A s \in Sessions : /\ me.states[s] \in States /\ me.states[s].projected \in Nat
                                  /\ me.states[s].attempt.revision \in Nat
<1>0. Revisions \subseteq Nat
    BY BuildAssumption, SMT DEF Revisions
<1>1. /\ me.last \in 0..n /\ me.policy \in 0..MaxPolicy /\ me.revision \in Revisions
      /\ me.rows \in SUBSET ((0..n) \X Sessions) /\ me.states \in [Sessions -> States]
    BY DEF Builds
<1>2. \A row \in me.rows : row[1] \in 0..n /\ row[2] \in Sessions /\ row = <<row[1], row[2]>>
    BY <1>1, SMT
<1>3. \A s \in Sessions : /\ me.states[s] \in States /\ me.states[s].projected \in Nat
                          /\ me.states[s].attempt.revision \in Nat
  <2> SUFFICES ASSUME NEW s \in Sessions
               PROVE  /\ me.states[s] \in States /\ me.states[s].projected \in Nat
                      /\ me.states[s].attempt.revision \in Nat
    OBVIOUS
  <2>1. me.states[s] \in States
    BY <1>1
  <2>2. me.states[s].projected \in Revisions /\ me.states[s].attempt \in Attempts
    BY <2>1 DEF States
  <2>3. me.states[s].attempt.revision \in Revisions
    BY <2>2 DEF Attempts
  <2> QED
    BY <2>1, <2>2, <2>3, <1>0
<1>4. me.policy \in Nat
    BY <1>1, BuildAssumption, SMT
<1> QED
    BY <1>1, <1>2, <1>3, <1>4, <1>0

\* A refusal is that of a policy.
LEMMA RejectedPolicy ==
    ASSUME NEW s, NEW r, NEW v, <<s, r, v>> \in Rejected
    PROVE  v \in Nat /\ v # 0
<1>1. <<s, r, v>> \in Sessions \X Revisions \X (1..MaxPolicy)
    BY BuildAssumption
<1>2. v \in 1..MaxPolicy
    BY <1>1, SMT
<1> QED
    BY <1>2, BuildAssumption, SMT

\* What the steps below need of the order of numbers.
LEMMA Between ==
    \A i, j, k \in Nat : i <= j /\ j <= k => i <= k /\ (j # k => i # k) /\ j >= i /\ i >= i
BY SMT

\* A number up to r is not n when r is before n.
LEMMA Below ==
    ASSUME NEW r \in Nat, NEW n \in Nat, r <= n, r # n
    PROVE  \A i \in Nat : i <= r => i # n
BY SMT

\* A session that a build passes over has its refusal on record.
LEMMA PassedOver ==
    ASSUME TypeInv, NEW s \in Sessions, DocOK(s), Unprojected(s), NEW v,
           ~NeedsProjection(s, state[s], v)
    PROVE  Recorded(s, v)
<1> DEFINE doc == state[s]
<1>1. source[s] # 0 /\ doc.projected # source[s] /\ BlockedRevision(doc, v) = source[s]
    BY DEF Unprojected, NeedsProjection
<1>2. doc.attempt.outcome = "rejected" /\ doc.attempt.policy = v /\ doc.attempt.revision = source[s]
    BY <1>1 DEF BlockedRevision
<1>3. doc.terminal = v /\ <<s, source[s], v>> \in Rejected
    BY <1>2 DEF DocOK
<1>4. v \in Nat /\ v # 0
    BY <1>3, RejectedPolicy
<1> QED
    BY <1>2, <1>3, <1>4, SMT DEF Recorded

-----------------------------------------------------------------------------
(* What a step keeps.                                                      *)

\* The parts of the invariant.
LEMMA InvParts ==
    ASSUME IInv, NEW b \in Builders
    PROVE  /\ TypeInv /\ FeedOK /\ \A s \in Sessions : DocOK(s) /\ OnDisk(s)
           /\ BuildOK(build[b]) /\ build[b] \in Builds(seq) /\ ListsOK(build[b])
           /\ build[b].policy <= policy /\ seq \in Nat
<1>1. TypeInv /\ FeedOK /\ (\A s \in Sessions : DocOK(s) /\ OnDisk(s)) /\ BuildOK(build[b])
    BY DEF IInv
<1>2. build[b] \in Builds(seq) /\ seq \in Nat
    BY <1>1, TypeFacts DEF DataTypes
<1> QED
    BY <1>1, <1>2 DEF TypeInv

\* A step that leaves the checkpoint alone keeps its way to s.
LEMMA OnDiskKept ==
    ASSUME NEW s \in Sessions, OnDisk(s), file' = file,
           Unprojected(s)' => Unprojected(s),
           Lost(s) => Lost(s)',
           Recorded(s, file.policy) => Recorded(s, file.policy)' \/ Lost(s)',
           AnnouncedAfter(s, file.seq) => AnnouncedAfter(s, file.seq)'
    PROVE  OnDisk(s)'
BY DEF OnDisk

\* A step of somebody else keeps the way of a selection to s.
LEMMA PursuedKept ==
    ASSUME NEW s \in Sessions, NEW me, Pursued(me, s),
           Lost(s) => Lost(s)',
           Recorded(s, me.policy) => Recorded(s, me.policy)' \/ Lost(s)',
           AnnouncedAfter(s, me.last) => AnnouncedAfter(s, me.last)',
           RowAhead(me, s) => RowAhead(me, s)'
    PROVE  Pursued(me, s)'
BY DEF Pursued, WalkAhead

\* With one builder the invariant is about its new record.
LEMMA Rebuilt ==
    ASSUME OneBuilder, TypeInv, TypeInv', NEW b \in Builders, NEW me, Becomes(b, me),
           FeedOK', \A s \in Sessions : DocOK(s)' /\ OnDisk(s)', BuildOK(me)'
    PROVE  IInv'
<1>1. \A d \in Builders : d = b
    BY DEF OneBuilder
<1>2. build \in [Builders -> Builds(seq)]
    BY TypeFacts
<1>3. build'[b] = me
    BY <1>2 DEF Becomes
<1> QED
    BY <1>1, <1>3 DEF IInv

\* What the invariant looks at, the record of the build apart.
Data == <<source, feed, state, file, policy, gaveUp, erased>>

\* A step that changes no data keeps what is on disk.
LEMMA SameOnDisk ==
    ASSUME UNCHANGED Data, FeedOK, \A s \in Sessions : DocOK(s) /\ OnDisk(s)
    PROVE  FeedOK' /\ \A s \in Sessions : DocOK(s)' /\ OnDisk(s)'
<1>1. UNCHANGED <<source, feed, state, file, policy, gaveUp, erased>>
    BY DEF Data
<1>2. FeedOK'
    BY <1>1, SMT DEF FeedOK
<1>3. \A s \in Sessions : DocOK(s)'
    BY <1>1, SMT DEF DocOK
<1>4. \A s \in Sessions : OnDisk(s)'
  <2>1. \A s \in Sessions : /\ Unprojected(s)' <=> Unprojected(s)
                            /\ Lost(s) => Lost(s)'
                            /\ Recorded(s, file.policy) => Recorded(s, file.policy)'
                            /\ AnnouncedAfter(s, file.seq) => AnnouncedAfter(s, file.seq)'
    BY <1>1, SMT DEF Unprojected, Lost, Recorded, AnnouncedAfter
  <2> QED
    BY <1>1, <2>1, OnDiskKept
<1> QED
    BY <1>2, <1>3, <1>4

\* It keeps what is known of a record as well.
LEMMA SameBuild ==
    ASSUME UNCHANGED Data, NEW me, BuildOK(me)
    PROVE  BuildOK(me)'
<1>1. UNCHANGED <<source, feed, state, file, policy, gaveUp, erased>>
    BY DEF Data
<1>2. (me.pc # "idle" => file.policy <= me.policy)' /\ RowsOK(me)'
    BY <1>1 DEF BuildOK, RowsOK
<1>3. SnapshotOK(me)'
    BY <1>1, SMT DEF BuildOK, SnapshotOK, Lost
<1>4. ResultOK(me)'
    BY <1>1, SMT DEF BuildOK, ResultOK
<1>5. ASSUME NEW s \in Sessions, me.pc \in Selecting, Unprojected(s)'
      PROVE  Pursued(me, s)'
  <2>1. /\ Unprojected(s) /\ (Lost(s) => Lost(s)')
        /\ Recorded(s, me.policy) => Recorded(s, me.policy)'
        /\ AnnouncedAfter(s, me.last) => AnnouncedAfter(s, me.last)'
        /\ RowAhead(me, s) => RowAhead(me, s)'
    BY <1>1, <1>5, SMT DEF Unprojected, Lost, Recorded, AnnouncedAfter, RowAhead
  <2>2. Pursued(me, s)
    BY <1>5, <2>1 DEF BuildOK
  <2> QED
    BY <2>1, <2>2, PursuedKept
<1> QED
    BY <1>2, <1>3, <1>4, <1>5 DEF BuildOK

\* A step of the build that changes no data.
LEMMA Continued ==
    ASSUME OneBuilder, IInv, TypeInv', NEW b \in Builders, NEW me, Becomes(b, me),
           UNCHANGED Data, BuildOK(me)
    PROVE  IInv'
<1>1. TypeInv /\ FeedOK /\ \A s \in Sessions : DocOK(s) /\ OnDisk(s)
    BY DEF IInv
<1>2. FeedOK' /\ \A s \in Sessions : DocOK(s)' /\ OnDisk(s)'
    BY <1>1, SameOnDisk
<1>3. BuildOK(me)'
    BY SameBuild
<1> QED
    BY <1>1, <1>2, <1>3, Rebuilt

-----------------------------------------------------------------------------
(* The steps of a selection.                                               *)

\* What is known of a selection, the walk apart.
LEMMA SelectionOK ==
    ASSUME NEW me, me.pc \in Selecting, me.pc # "walking", file.policy <= me.policy, RowsOK(me),
           \A s \in Sessions : Unprojected(s) => Pursued(me, s)
    PROVE  BuildOK(me)
<1>1. me.pc \notin {"check", "commit"} /\ me.pc # "idle"
    BY SMT DEF Selecting
<1> QED
    BY <1>1 DEF BuildOK, SnapshotOK, ResultOK

\* At the start the checkpoint becomes the selection: what led to a session
\* on disk leads to it now.
LEMMA StartOK ==
    ASSUME IInv, NEW b \in Builders, NEW me, NEW odd, Begun(me, odd),
           Range(file.pending) \subseteq Range(PendingIds),
           file.policy # policy => Recoverable(policy) \subseteq Range(PendingIds)
    PROVE  BuildOK(me)
<1>0. TypeInv /\ \A s \in Sessions : DocOK(s) /\ OnDisk(s)
    BY InvParts
<1>1. /\ me.policy = policy /\ me.last = file.seq /\ me.walking = file.walk /\ me.rows = {}
      /\ me.pc \in {"feed", "walk", "write"} /\ (me.pc = "feed" => file.seq # 0 /\ ~file.walk)
    BY DEF Begun
<1>2. file.policy <= policy /\ policy \in Nat /\ file.policy \in Nat
    BY <1>0, TypeFacts, BuildAssumption, SMT DEF DataTypes, FileTypes, Files
<1>3. ASSUME NEW s \in Sessions, Unprojected(s)
      PROVE  Pursued(me, s)
  <2>0. DocOK(s) /\ OnDisk(s) /\ state[s].terminal \in Nat
    BY <1>0, Numbers
  <2>1. s \in Range(PendingIds) => Pursued(me, s)
    <3>1. CASE NeedsProjection(s, state[s], policy)
      BY <3>1 DEF Begun, Pursued
    <3>2. CASE ~NeedsProjection(s, state[s], policy)
      <4>1. Recorded(s, policy)
        BY <1>0, <1>3, <2>0, <3>2, PassedOver
      <4> QED
        BY <1>1, <4>1 DEF Pursued
    <3> QED
      BY <3>1, <3>2
  <2>3. CASE s \in Range(file.pending)
    BY <2>1, <2>3
  <2>4. CASE AnnouncedAfter(s, file.seq) \/ Lost(s)
    BY <1>1, <2>4 DEF Pursued
  <2>5. CASE file.seq = 0 \/ file.walk
    BY <1>1, <2>5 DEF Pursued
  <2>6. CASE Recorded(s, file.policy)
    <3>1. CASE policy <= state[s].terminal
      <4>1. Recorded(s, me.policy)
        BY <1>1, <2>6, <3>1 DEF Recorded
      <4> QED
        BY <4>1 DEF Pursued
    <3>2. CASE ~(policy <= state[s].terminal)
      <4>1. state[s].terminal # 0 /\ file.policy <= state[s].terminal
        BY <2>6 DEF Recorded
      <4>2. file.policy # policy /\ state[s].terminal \in 1..(policy - 1)
        BY <1>2, <2>0, <3>2, <4>1, SMT
      <4>3. s \in Recoverable(policy)
        BY <4>2 DEF Recoverable
      <4> QED
        BY <2>1, <4>2, <4>3
    <3> QED
      BY <3>1, <3>2
  <2> QED
    BY <1>3, <2>0, <2>3, <2>4, <2>5, <2>6 DEF OnDisk
<1>4. me.pc \in Selecting /\ me.pc # "walking" /\ RowsOK(me)
    BY <1>1, SMT DEF RowsOK, Selecting
<1> QED
    BY <1>1, <1>2, <1>3, <1>4, SelectionOK

\* A list that a label does not use is empty.
LEMMA NothingFresh ==
    ASSUME NEW me, ListsOK(me), me.pc \notin {"rows", "walking"}
    PROVE  Range(me.fresh) = {}
BY SMT DEF ListsOK, Range

\* A session announced after the checkpoint is in the window, or after it.
LEMMA ReadFeedOK ==
    ASSUME IInv, NEW b \in Builders, NEW me, Keeps(me, build[b]), build[b].pc = "feed", me.pc = "rows",
           me.rows = RowsAfter(build[b].last), me.last = build[b].last, me.examined = {}
    PROVE  BuildOK(me)
<1> DEFINE old == build[b]
<1>0. TypeInv /\ FeedOK /\ BuildOK(old) /\ old \in Builds(seq) /\ ListsOK(old) /\ seq \in Nat
    BY InvParts
<1>1. Range(old.fresh) = {}
    BY <1>0, NothingFresh, SMT
<1>2. old.last \in 0..seq /\ \A s \in Sessions, k \in Kinds : feed[s][k] \in 0..seq
    BY <1>0, Numbers, BuildNumbers
<1>3. RowsOK(me)
  <2> SUFFICES ASSUME NEW row \in me.rows, NEW other \in me.rows, row[1] = other[1]
               PROVE  row[2] = other[2]
    BY DEF RowsOK
  <2>1. PICK s \in Sessions, k \in Kinds : row = <<feed[s][k], s>> /\ row[1] > old.last
    BY SMT DEF RowsAfter
  <2>2. PICK t \in Sessions, j \in Kinds : other = <<feed[t][j], t>>
    BY SMT DEF RowsAfter
  <2>3. feed[s][k] = feed[t][j] /\ feed[s][k] # 0
    BY <1>0, <1>2, <2>1, <2>2, SMT
  <2>4. s = t
    BY <1>0, <2>3 DEF FeedOK
  <2> QED
    BY <2>1, <2>2, <2>4, SMT
<1>4. ASSUME NEW s \in Sessions, Unprojected(s)
      PROVE  Pursued(me, s)
  <2>1. Pursued(old, s)
    BY <1>0, <1>4 DEF BuildOK, Selecting
  <2>2. AnnouncedAfter(s, old.last) => RowAhead(me, s)
    <3> SUFFICES ASSUME NEW k \in Kinds, feed[s][k] > old.last
                 PROVE  RowAhead(me, s)
      BY DEF AnnouncedAfter
    <3>1. <<feed[s][k], s>> \in RowsAfter(old.last)
      BY SMT DEF RowsAfter
    <3> QED
      BY <3>1 DEF RowAhead
  <2> QED
    BY <1>1, <2>1, <2>2 DEF Pursued, Keeps
<1>5. me.policy = old.policy /\ file.policy <= old.policy /\ me.pc \in Selecting
    BY <1>0 DEF Keeps, BuildOK, Selecting
<1> QED
    BY <1>3, <1>4, <1>5, SelectionOK

\* A row that is passed over is of a session that needs no projection.
LEMMA ExamineRowOK ==
    ASSUME IInv, NEW b \in Builders, NEW me, NEW row, Keeps(me, build[b]),
           build[b].pc = "rows", me.pc = "rows",
           row \in NextRow(build[b].rows),
           me.rows = build[b].rows \ {row}, me.last = row[1],
           me.examined = build[b].examined \cup {row[2]},
           Range(build[b].fresh) \subseteq Range(me.fresh),
           row[2] \notin build[b].examined /\ NeedsProjection(row[2], state[row[2]], build[b].policy) =>
               row[2] \in Range(me.fresh)
    PROVE  BuildOK(me)
<1> DEFINE old == build[b]
<1>0. /\ TypeInv /\ BuildOK(old) /\ old \in Builds(seq) /\ seq \in Nat
      /\ \A s \in Sessions : DocOK(s)
    BY InvParts
<1>1. /\ row \in old.rows /\ \A other \in old.rows : row[1] <= other[1]
    BY DEF NextRow
<1>2. /\ \A r \in old.rows : row[1] \in 0..seq /\ r[1] \in 0..seq /\ r = <<r[1], r[2]>>
      /\ \A s \in Sessions, k \in Kinds : feed[s][k] \in 0..seq
    BY <1>0, <1>1, Numbers, BuildNumbers
<1>3. RowsOK(old) /\ RowsOK(me)
    BY <1>0 DEF BuildOK, RowsOK
<1>4. ASSUME NEW s \in Sessions, Unprojected(s)
      PROVE  Pursued(me, s)
  <2>1. Pursued(old, s)
    BY <1>0, <1>4 DEF BuildOK, Selecting
  <2>2. row[2] = s /\ s \notin old.examined => Pursued(me, s)
    <3> SUFFICES ASSUME row[2] = s, s \notin old.examined
                 PROVE  Pursued(me, s)
      OBVIOUS
    <3>1. CASE NeedsProjection(s, state[s], old.policy)
      BY <3>1 DEF Pursued
    <3>2. CASE ~NeedsProjection(s, state[s], old.policy)
      <4>1. Recorded(s, old.policy)
        BY <1>0, <1>4, <3>2, PassedOver
      <4> QED
        BY <4>1 DEF Pursued, Keeps
    <3> QED
      BY <3>1, <3>2
  <2>3. ASSUME RowAhead(old, s)
        PROVE  Pursued(me, s)
    <3>1. PICK k \in Kinds :
              /\ feed[s][k] > old.last
              /\ \/ \A r \in old.rows : feed[s][k] > r[1]
                 \/ s \notin old.examined /\ <<feed[s][k], s>> \in old.rows
      BY <2>3 DEF RowAhead
    <3>2. CASE \A r \in old.rows : feed[s][k] > r[1]
      <4>1. feed[s][k] > me.last /\ \A r \in me.rows : feed[s][k] > r[1]
        BY <1>1, <3>2
      <4> QED
        BY <4>1 DEF RowAhead, Pursued
    <3>3. CASE s \notin old.examined /\ <<feed[s][k], s>> \in old.rows
      <4> DEFINE mine == <<feed[s][k], s>>
      <4>1. mine[1] = feed[s][k] /\ mine[2] = s
        OBVIOUS
      <4>2. CASE row[2] = s
        BY <2>2, <3>3, <4>2
      <4>3. CASE row[2] # s
        <5>1. row[1] # feed[s][k]
          BY <1>1, <1>3, <3>3, <4>1, <4>3 DEF RowsOK
        <5>2. row[1] <= feed[s][k]
          BY <1>1, <3>3, <4>1
        <5>3. feed[s][k] > me.last
          BY <1>1, <1>2, <5>1, <5>2, SMT
        <5>4. mine \in me.rows /\ s \notin me.examined
          BY <3>3, <4>1, <4>3
        <5> QED
          BY <5>3, <5>4 DEF RowAhead, Pursued
      <4> QED
        BY <4>2, <4>3
    <3> QED
      BY <3>1, <3>2, <3>3
  <2> QED
    BY <2>1, <2>3 DEF Pursued, Keeps
<1>5. me.policy = old.policy /\ file.policy <= old.policy /\ me.pc \in Selecting
    BY <1>0 DEF Keeps, BuildOK, Selecting
<1> QED
    BY <1>3, <1>4, <1>5, SelectionOK

\* At the end of the window what was found joins the selection, and the rest
\* of the feed is after the new checkpoint.
LEMMA EndFeedOK ==
    ASSUME IInv, NEW b \in Builders, NEW me, build[b].pc = "rows", me.pc = "write",
           Range(me.sessions) = Range(build[b].sessions) \cup Range(build[b].fresh),
           me.policy = build[b].policy, me.rest = build[b].rest, me.dropped = build[b].dropped,
           me.last = build[b].last, me.rows = {}
    PROVE  BuildOK(me)
<1> DEFINE old == build[b]
<1>0. BuildOK(old)
    BY InvParts
<1>1. RowsOK(me)
    BY DEF RowsOK
<1>2. ASSUME NEW s \in Sessions, Unprojected(s)
      PROVE  Pursued(me, s)
  <2>1. Pursued(old, s)
    BY <1>0, <1>2 DEF BuildOK, Selecting
  <2>2. RowAhead(old, s) => AnnouncedAfter(s, me.last)
    BY DEF RowAhead, AnnouncedAfter
  <2> QED
    BY <2>1, <2>2 DEF Pursued
<1>3. me.policy = old.policy /\ file.policy <= old.policy /\ me.pc \in Selecting
    BY <1>0 DEF BuildOK, Selecting
<1> QED
    BY <1>1, <1>2, <1>3, SelectionOK

\* A walk reaches every session.
LEMMA FeedFailsOK ==
    ASSUME IInv, NEW b \in Builders, NEW me, build[b].pc \in {"feed", "rows"}, me.pc = "walk",
           me.policy = build[b].policy, me.rows = {}
    PROVE  BuildOK(me)
<1>1. BuildOK(build[b]) /\ build[b].pc # "idle"
    BY InvParts, SMT
<1>2. RowsOK(me) /\ \A s \in Sessions : Pursued(me, s)
    BY DEF RowsOK, Pursued
<1>3. file.policy <= me.policy /\ me.pc \in Selecting
    BY <1>1 DEF BuildOK, Selecting
<1> QED
    BY <1>2, <1>3, SelectionOK

\* A walk begins with the documents as they are.
LEMMA BeginWalkOK ==
    ASSUME IInv, NEW b \in Builders, NEW me, Keeps(me, build[b]), build[b].pc = "walk", me.pc = "walking",
           me.cursor = 1, me.states = state, me.rows = build[b].rows
    PROVE  BuildOK(me)
<1>0. BuildOK(build[b]) /\ \A s \in Sessions : DocOK(s)
    BY InvParts
<1>1. RowsOK(me) /\ file.policy <= me.policy /\ ResultOK(me)
  <2>1. RowsOK(build[b]) /\ file.policy <= build[b].policy
    BY <1>0 DEF BuildOK
  <2>2. RowsOK(me)
    BY <2>1 DEF RowsOK
  <2> QED
    BY <2>1, <2>2 DEF Keeps, ResultOK
<1>2. SnapshotOK(me)
    BY <1>0 DEF SnapshotOK, DocOK
<1>3. \A s \in Sessions : Pursued(me, s)
  <2> SUFFICES ASSUME NEW s \in Sessions PROVE WalkAhead(me, s)
    BY DEF Pursued
  <2>1. s \in Range(WalkOrder)
    BY BuildAssumption
  <2>w. DOMAIN WalkOrder = 1..Len(WalkOrder)
    BY BuildAssumption, SMT
  <2>2. \E i \in 1..Len(WalkOrder) : WalkOrder[i] = s
    BY <2>1, <2>w DEF Range
  <2> QED
    BY <2>2 DEF WalkAhead
<1> QED
    BY <1>1, <1>2, <1>3 DEF BuildOK

\* A session that a walk passes over needs no projection: by the documents
\* it read, and no commit came in between.
LEMMA WalkSessionOK ==
    ASSUME IInv, NEW b \in Builders, NEW me, NEW t, Keeps(me, build[b]),
           build[b].pc = "walking", me.pc = "walking",
           build[b].cursor \in 1..Len(WalkOrder), t = WalkOrder[build[b].cursor], t \in Sessions,
           me.cursor = build[b].cursor + 1, me.states = build[b].states,
           me.last = build[b].last, me.rows = build[b].rows,
           Range(build[b].fresh) \subseteq Range(me.fresh),
           NeedsProjection(t, build[b].states[t], build[b].policy) => t \in Range(me.fresh)
    PROVE  BuildOK(me)
<1> DEFINE old == build[b]
<1>0. TypeInv /\ BuildOK(old) /\ \A s \in Sessions : DocOK(s)
    BY InvParts
<1>1. /\ RowsOK(me) /\ file.policy <= me.policy /\ ResultOK(me) /\ SnapshotOK(old) /\ SnapshotOK(me)
  <2>0. RowsOK(old) /\ file.policy <= old.policy /\ SnapshotOK(old)
    BY <1>0, SMT DEF BuildOK
  <2>1. RowsOK(me) /\ file.policy <= me.policy /\ SnapshotOK(old)
    BY <2>0, SMT DEF RowsOK, Keeps
  <2>2. ResultOK(me)
    BY DEF ResultOK
  <2>3. SnapshotOK(me)
    BY <2>1 DEF SnapshotOK
  <2> QED
    BY <2>1, <2>2, <2>3
<1>2. ASSUME NEW s \in Sessions, Unprojected(s)
      PROVE  Pursued(me, s)
  <2>1. Pursued(old, s)
    BY <1>0, <1>2 DEF BuildOK, Selecting
  <2>2. s = t => Pursued(me, s)
    <3> SUFFICES ASSUME s = t PROVE Pursued(me, s)
      OBVIOUS
    <3> DEFINE doc == old.states[s]
    <3>1. CASE NeedsProjection(s, doc, old.policy)
      BY <3>1 DEF Pursued
    <3>2. CASE ~NeedsProjection(s, doc, old.policy)
      <4>1. /\ doc.projected = state[s].projected
            /\ \/ doc.attempt = state[s].attempt
               \/ doc.attempt.outcome = "rejected" /\ doc.attempt.revision = source[s] => Lost(s)
        BY <1>1 DEF SnapshotOK
      <4>2. BlockedRevision(doc, old.policy) = source[s] /\ source[s] # 0
        BY <1>2, <3>2, <4>1 DEF NeedsProjection, Unprojected
      <4>3. doc.attempt.outcome = "rejected" /\ doc.attempt.revision = source[s]
        BY <4>2 DEF BlockedRevision
      <4>4. CASE doc.attempt = state[s].attempt
        <5>1. BlockedRevision(state[s], old.policy) = source[s]
          BY <4>2, <4>4 DEF BlockedRevision
        <5>2. Recorded(s, old.policy)
          BY <1>0, <1>2, <5>1, PassedOver DEF NeedsProjection
        <5> QED
          BY <5>2 DEF Pursued, Keeps
      <4>5. CASE Lost(s)
        BY <4>5 DEF Pursued
      <4> QED
        BY <4>1, <4>3, <4>4, <4>5
    <3> QED
      BY <3>1, <3>2
  <2>3. WalkAhead(old, s) => s = t \/ WalkAhead(me, s)
    <3> SUFFICES ASSUME NEW i \in old.cursor..Len(WalkOrder), WalkOrder[i] = s, s # t
                 PROVE  WalkAhead(me, s)
      BY DEF WalkAhead
    <3>1. i # old.cursor
      OBVIOUS
    <3>2. i \in (old.cursor + 1)..Len(WalkOrder)
      BY <3>1, SMT
    <3> QED
      BY <3>2 DEF WalkAhead
  <2> QED
    BY <2>1, <2>2, <2>3 DEF Pursued, Keeps
<1> QED
    BY <1>1, <1>2 DEF BuildOK

\* A walk that was cut asks for another; one that was not has seen them all.
LEMMA EndWalkOK ==
    ASSUME IInv, NEW b \in Builders, NEW me, build[b].pc = "walking", me.pc = "write",
           Range(me.sessions) = Range(build[b].sessions) \cup Range(build[b].fresh),
           me.policy = build[b].policy, me.rest = build[b].rest,
           me.dropped = build[b].dropped, me.rows = build[b].rows,
           me.walking \/ (me.last = build[b].last /\ build[b].cursor > Len(WalkOrder))
    PROVE  BuildOK(me)
<1> DEFINE old == build[b]
<1>0. BuildOK(old) /\ ListsOK(old)
    BY InvParts
<1>1. RowsOK(me)
    BY <1>0 DEF BuildOK, RowsOK
<1>2. ASSUME NEW s \in Sessions, Unprojected(s)
      PROVE  Pursued(me, s)
  <2>1. Pursued(old, s)
    BY <1>0, <1>2 DEF BuildOK, Selecting
  <2>2. CASE me.walking
    BY <2>2 DEF Pursued
  <2>3. CASE me.last = old.last /\ old.cursor > Len(WalkOrder)
    <3>1. old.cursor \in 1..(Len(WalkOrder) + 1) /\ Len(WalkOrder) \in Nat
      BY <1>0, BuildAssumption, SMT DEF ListsOK
    <3>2. ~WalkAhead(old, s)
      BY <2>3, <3>1, SMT DEF WalkAhead
    <3> QED
      BY <2>1, <2>3, <3>2 DEF Pursued
  <2> QED
    BY <2>2, <2>3
<1>3. file.policy <= me.policy /\ me.pc \in Selecting
    BY <1>0 DEF BuildOK, Selecting
<1> QED
    BY <1>1, <1>2, <1>3, SelectionOK

-----------------------------------------------------------------------------
(* A build that goes on, or ends, whatever it has written.                 *)

\* What is known of a selection is no longer needed once it is written.
LEMMA GoesOnOK ==
    ASSUME IInv, NEW b \in Builders, GoesOn(b), build[b].pc # "idle",
           file'.policy \in {file.policy, build[b].policy, 0}
    PROVE  \E me : Becomes(b, me) /\ BuildOK(me)'
<1>0. BuildOK(build[b]) /\ build[b].policy \in Nat
    BY InvParts, BuildNumbers
<1>1. PICK me : /\ Becomes(b, me) /\ me.pc \in {"idle", "cover"} /\ me.rows = {}
                /\ me.pc = "cover" => me.policy = build[b].policy
    BY DEF GoesOn
<1>2. file.policy <= build[b].policy
    BY <1>0 DEF BuildOK
<1>3. file'.policy <= build[b].policy
    BY <1>0, <1>2, SMT
<1>4. /\ me.pc # "walking" /\ me.pc \notin {"check", "commit"} /\ me.pc \notin Selecting
      /\ me.pc # "idle" => file'.policy <= me.policy
    BY <1>1, <1>3, SMT DEF Selecting
<1>5. BuildOK(me)'
    BY <1>1, <1>4 DEF BuildOK, RowsOK, SnapshotOK, ResultOK
<1> QED
    BY <1>1, <1>5

-----------------------------------------------------------------------------
(* The feed grows.                                                         *)

\* An announcement is never taken back: it moves to a later number.
LEMMA FedAnnounced ==
    ASSUME TypeInv, NEW s \in Sessions, Fed(s), NEW t \in Sessions, NEW n \in 0..seq,
           AnnouncedAfter(t, n)
    PROVE  AnnouncedAfter(t, n)'
<1>0. seq \in Nat /\ \A k \in Kinds : feed[t][k] \in 0..seq
    BY Numbers
<1>1. PICK k \in Kinds : feed[t][k] > n
    BY DEF AnnouncedAfter
<1>2. feed'[t][k] = feed[t][k] \/ feed'[t][k] = seq + 1
    BY DEF Fed
<1>3. feed'[t][k] > n
    BY <1>0, <1>1, <1>2, SMT
<1> QED
    BY <1>3 DEF AnnouncedAfter

\* A row that moves out of the window moves behind it.
LEMMA FedRow ==
    ASSUME TypeInv, NEW s \in Sessions, Fed(s), NEW t \in Sessions, NEW me \in Builds(seq),
           RowAhead(me, t)
    PROVE  RowAhead(me, t)'
<1>0. /\ seq \in Nat /\ me.last \in 0..seq /\ \A row \in me.rows : row[1] \in 0..seq
    BY Numbers, BuildNumbers
<1>1. PICK k \in Kinds :
          /\ feed[t][k] > me.last
          /\ \/ \A row \in me.rows : feed[t][k] > row[1]
             \/ t \notin me.examined /\ <<feed[t][k], t>> \in me.rows
    BY DEF RowAhead
<1>2. CASE feed'[t][k] = feed[t][k]
    BY <1>1, <1>2 DEF RowAhead
<1>3. CASE feed'[t][k] = seq + 1
  <2>1. feed'[t][k] > me.last /\ \A row \in me.rows : feed'[t][k] > row[1]
    BY <1>0, <1>3, SMT
  <2> QED
    BY <2>1 DEF RowAhead
<1> QED
    BY <1>2, <1>3 DEF Fed

\* A number of the feed still names one session.
LEMMA FedOK ==
    ASSUME TypeInv, FeedOK, NEW s \in Sessions, Fed(s)
    PROVE  FeedOK'
<1>0. seq \in Nat /\ \A t \in Sessions, k \in Kinds : feed[t][k] \in 0..seq
    BY Numbers
<1> SUFFICES ASSUME NEW t \in Sessions, NEW u \in Sessions, NEW j \in Kinds, NEW k \in Kinds,
                    feed'[t][j] = feed'[u][k], feed'[t][j] # 0
             PROVE  t = u
    BY SMT DEF FeedOK
<1>1. /\ feed'[t][j] = feed[t][j] \/ (t = s /\ feed'[t][j] = seq + 1)
      /\ feed'[u][k] = feed[u][k] \/ (u = s /\ feed'[u][k] = seq + 1)
    BY DEF Fed
<1>2. CASE feed'[t][j] = feed[t][j] /\ feed'[u][k] = feed[u][k]
  <2>1. feed[t][j] = feed[u][k] /\ feed[t][j] # 0
    BY <1>2
  <2> HIDE DEF Fed
  <2> QED
    BY <2>1, SMT DEF FeedOK
<1>3. CASE (t = s /\ feed'[t][j] = seq + 1) \/ (u = s /\ feed'[u][k] = seq + 1)
    BY <1>0, <1>1, <1>3, SMT
<1> QED
    BY <1>1, <1>2, <1>3

-----------------------------------------------------------------------------
(* The document of a session.                                              *)

\* What a commit leaves in the document: the attempt, and the receipt of a
\* success.
Committed(new, old, me) ==
    /\ new.attempt.outcome = me.outcome /\ new.attempt.revision = me.revision
    /\ new.attempt.policy = me.policy
    /\ me.outcome = "rejected" => new.terminal = me.policy
    /\ me.outcome = "projected" => new.terminal = 0
    /\ me.outcome \notin {"rejected", "projected"} => new.terminal = old.terminal

\* The write of that document: the receipt is the revision that a success has
\* projected, unless the source has moved on.
CommitOf(s, new, me) ==
    /\ state' = [state EXCEPT ![s] = new]
    /\ Committed(new, state[s], me)
    /\ \/ new.projected = state[s].projected /\ source[s] # me.revision
       \/ new.projected = IF me.outcome = "projected" THEN me.revision ELSE state[s].projected

\* The commit of an attempt, with or without the receipt, leaves the way back
\* to the session unless its current revision is projected.
LEMMA WrittenOK ==
    ASSUME IInv, NEW b \in Builders, build[b].pc \in {"check", "commit"},
           NEW s \in Sessions, s = Head(build[b].sessions), NEW new,
           CommitOf(s, new, build[b]), UNCHANGED <<source, feed, file, policy, gaveUp, erased>>
    PROVE  /\ \A t \in Sessions : DocOK(t)' /\ OnDisk(t)'
           /\ \A t \in Sessions : state'[t].projected >= state[t].projected
<1> DEFINE me == build[b]
<1>0. /\ TypeInv /\ BuildOK(me) /\ me \in Builds(seq) /\ me.policy <= policy /\ seq \in Nat
      /\ \A t \in Sessions : DocOK(t) /\ OnDisk(t)
    BY InvParts
<1>1. /\ source[s] \in Nat /\ state[s].projected \in Nat /\ state[s].terminal \in Nat
      /\ state[s].attempt.revision \in Nat /\ policy \in Nat
      /\ me.revision \in Nat /\ me.policy \in Nat
    BY <1>0, Numbers, BuildNumbers
<1>2. /\ me.revision <= source[s] /\ state[s].attempt.revision <= me.revision
      /\ state[s].projected <= me.revision
      /\ me.outcome = "rejected" => <<s, me.revision, me.policy>> \in Rejected
    BY <1>0 DEF BuildOK, ResultOK
<1>3. file.policy <= me.policy
    BY <1>0, SMT DEF BuildOK
<1>4. state \in [Sessions -> States]
    BY <1>0, TypeFacts DEF DataTypes
<1>5. state'[s] = new /\ \A t \in Sessions : t # s => state'[t] = state[t]
    BY <1>4 DEF CommitOf
<1>6. new.projected = state[s].projected \/ new.projected = me.revision
    BY DEF CommitOf
<1>7. DocOK(s)'
  <2>1. new.attempt.revision <= source[s] /\ new.projected <= source[s]
    <3>1. DocOK(s)
      BY <1>0
    <3>2. state[s].projected <= source[s]
      BY <3>1, SMT DEF DocOK
    <3> QED
      BY <1>2, <1>6, <3>2 DEF CommitOf, Committed
  <2>2. new.terminal <= policy
    <3>1. state[s].terminal <= policy
      BY <1>0 DEF DocOK
    <3>2. new.terminal = me.policy \/ new.terminal = 0 \/ new.terminal = state[s].terminal
      BY DEF CommitOf, Committed
    <3> QED
      BY <1>0, <1>1, <3>1, <3>2, SMT
  <2>3. new.attempt.outcome = "rejected" =>
            /\ new.terminal = new.attempt.policy
            /\ <<s, new.attempt.revision, new.attempt.policy>> \in Rejected
    BY <1>2 DEF CommitOf, Committed
  <2> QED
    BY <1>5, <2>1, <2>2, <2>3 DEF DocOK
<1>8. OnDisk(s)'
  <2>1. CASE me.revision # source[s]
    <3>1. /\ state[s].projected # source[s] /\ state[s].attempt.revision # source[s]
      <4>1. \A i \in Nat : i <= me.revision => i # source[s]
        BY <1>1, <1>2, <2>1, Below
      <4> QED
        BY <1>1, <1>2, <4>1
    <3>2. Unprojected(s)' => Unprojected(s)
      BY <3>1 DEF Unprojected
    <3>3. ~Recorded(s, file.policy)
      BY <3>1 DEF Recorded
    <3>4. Lost(s) => Lost(s)'
      BY SMT DEF Lost
    <3>5. AnnouncedAfter(s, file.seq) => AnnouncedAfter(s, file.seq)'
      BY SMT DEF AnnouncedAfter
    <3> QED
      BY <1>0, <3>2, <3>3, <3>4, <3>5, OnDiskKept
  <2>2. CASE me.revision = source[s]
    <3>1. new.projected = IF me.outcome = "projected" THEN source[s] ELSE state[s].projected
      BY <2>2 DEF CommitOf
    <3>2. CASE me.outcome = "projected"
      BY <1>5, <3>1, <3>2, SMT DEF OnDisk, Unprojected
    <3>3. CASE me.outcome # "projected"
      <4>1. Unprojected(s)' => Unprojected(s)
        BY <1>5, <3>1, <3>3, SMT DEF Unprojected
      <4>2. Recorded(s, file.policy) => Recorded(s, file.policy)'
        <5> SUFFICES ASSUME Recorded(s, file.policy) PROVE Recorded(s, file.policy)'
          OBVIOUS
        <5>1. new.attempt.revision = source[s]
          BY <2>2 DEF CommitOf, Committed
        <5>2. CASE me.outcome = "rejected"
          <6>1. new.terminal = me.policy /\ <<s, source[s], me.policy>> \in Rejected
            BY <1>2, <2>2, <5>2 DEF CommitOf, Committed
          <6>2. me.policy # 0
            BY <6>1, RejectedPolicy
          <6> QED
            BY <1>3, <1>5, <5>1, <6>1, <6>2 DEF Recorded
        <5>3. CASE me.outcome # "rejected"
          <6>1. new.terminal = state[s].terminal
            BY <3>3, <5>3, SMT DEF CommitOf, Committed
          <6> QED
            BY <1>5, <5>1, <6>1 DEF Recorded
        <5> QED
          BY <5>2, <5>3
      <4>3. Lost(s) => Lost(s)'
        BY SMT DEF Lost
      <4>4. AnnouncedAfter(s, file.seq) => AnnouncedAfter(s, file.seq)'
        BY SMT DEF AnnouncedAfter
      <4> QED
        BY <1>0, <4>1, <4>2, <4>3, <4>4, OnDiskKept
    <3> QED
      BY <3>2, <3>3
  <2> QED
    BY <2>1, <2>2
<1>9. ASSUME NEW t \in Sessions, t # s
      PROVE  DocOK(t)' /\ OnDisk(t)'
  <2>1. state'[t] = state[t]
    BY <1>5, <1>9, SMT
  <2>2. DocOK(t)'
    BY <1>0, <2>1, SMT DEF DocOK
  <2>3. /\ Unprojected(t)' => Unprojected(t)
        /\ Lost(t) => Lost(t)'
        /\ Recorded(t, file.policy) => Recorded(t, file.policy)'
        /\ AnnouncedAfter(t, file.seq) => AnnouncedAfter(t, file.seq)'
    BY <2>1, SMT DEF Unprojected, Lost, Recorded, AnnouncedAfter
  <2> QED
    BY <1>0, <2>2, <2>3, OnDiskKept
<1>10. ASSUME NEW t \in Sessions
       PROVE  state'[t].projected >= state[t].projected
  <2>1. state[t].projected \in Nat
    BY <1>0, Numbers
  <2>2. CASE t = s
    <3>1. me.revision >= state[s].projected /\ state[s].projected >= state[s].projected
      BY <1>1, <1>2, SMT
    <3>2. new.projected >= state[s].projected
      BY <1>6, <3>1
    <3>3. state'[s].projected >= state[s].projected
      BY <1>5, <3>2
    <3> QED
      BY <2>2, <3>3, SMT
  <2>3. CASE t # s
    BY <1>5, <2>1, <2>3, SMT
  <2> QED
    BY <2>2, <2>3
<1> QED
    BY <1>7, <1>8, <1>9, <1>10

-----------------------------------------------------------------------------
(* Deliveries and releases.                                                *)

\* What a delivery, a mark or a release must keep.
LEMMA Environment ==
    ASSUME IInv, TypeInv', build' = build, FeedOK', \A s \in Sessions : DocOK(s)' /\ OnDisk(s)',
           \A me : me \in Builds(seq) /\ ListsOK(me) /\ BuildOK(me) => BuildOK(me)'
    PROVE  IInv'
<1>1. \A b \in Builders : BuildOK(build[b]) /\ build[b] \in Builds(seq) /\ ListsOK(build[b])
    BY InvParts
<1>2. \A b \in Builders : BuildOK(build[b])'
    BY <1>1
<1> QED
    BY <1>2 DEF IInv

\* What a step of the environment does to s must not lead away from it.
LEMMA BuildKept ==
    ASSUME NEW me \in Builds(seq), BuildOK(me), file' = file,
           SnapshotOK(me)', ResultOK(me)',
           \A s \in Sessions : Unprojected(s)' /\ me.pc \in Selecting => Pursued(me, s)'
    PROVE  BuildOK(me)'
<1>1. (me.pc # "idle" => file'.policy <= me.policy) /\ RowsOK(me)'
    BY DEF BuildOK, RowsOK
<1> QED
    BY <1>1 DEF BuildOK

\* A build that commits has a session.
LEMMA HeadIsSession ==
    ASSUME NEW n, NEW me \in Builds(n), ListsOK(me), me.pc \in {"check", "commit"}
    PROVE  Head(me.sessions) \in Sessions
<1>1. me.sessions \in Seq(Sessions) /\ me.sessions # <<>>
    BY SMT DEF Builds, ListsOK, Projections
<1> QED
    BY <1>1, SMT

\* A delivery announces the session.
LEMMA DeliverStep ==
    ASSUME IInv, TypeInv', NEW s \in Sessions, Deliver(s), Fed(s)
    PROVE  IInv'
<1>0. TypeInv /\ FeedOK /\ \A t \in Sessions : DocOK(t) /\ OnDisk(t)
    BY DEF IInv
<1>2. /\ source' = [source EXCEPT ![s] = source[s] + 1] /\ seq' = seq + 1
      /\ feed' = [feed EXCEPT ![s]["source"] = seq + 1] /\ "source" \in Kinds
      /\ UNCHANGED <<state, file, policy, build, gaveUp, erased>>
    BY DEF Deliver, losses, Kinds
<1>3. DataTypes
    BY <1>0, TypeFacts
<1>5. /\ source'[s] = source[s] + 1 /\ feed'[s]["source"] = seq + 1
      /\ \A t \in Sessions : t # s => source'[t] = source[t] /\ feed'[t] = feed[t]
    BY <1>2, <1>3 DEF DataTypes
<1>6. FeedOK'
    BY <1>0, FedOK
<1>7. \A t \in Sessions : source[t] \in Nat /\ source'[t] \in Nat /\ source[t] <= source'[t]
  <2> SUFFICES ASSUME NEW t \in Sessions PROVE source[t] \in Nat /\ source'[t] \in Nat /\ source[t] <= source'[t]
    OBVIOUS
  <2>1. source[t] \in Nat
    BY <1>0, Numbers
  <2>2. source'[t] = source[t] \/ source'[t] = source[t] + 1
    BY <1>5
  <2> QED
    BY <2>1, <2>2, SMT
<1>8. ASSUME NEW t \in Sessions
      PROVE  DocOK(t)'
  <2>1. /\ state[t].attempt.revision \in Nat /\ state[t].projected \in Nat /\ source'[t] \in Nat
        /\ source[t] \in Nat /\ source[t] <= source'[t]
    BY <1>0, <1>7, Numbers
  <2>2. state[t].attempt.revision <= source[t] /\ state[t].projected <= source[t]
    BY <1>0 DEF DocOK
  <2>3. state[t].attempt.revision <= source'[t] /\ state[t].projected <= source'[t]
    BY <2>1, <2>2, Between
  <2> QED
    BY <1>0, <1>2, <2>3 DEF DocOK
<1>9. ASSUME NEW n \in 0..seq
      PROVE  AnnouncedAfter(s, n)'
  <2>1. seq + 1 > n
    BY <1>3, SMT DEF DataTypes
  <2> QED
    BY <1>2, <1>5, <2>1 DEF AnnouncedAfter
<1>10. ASSUME NEW t \in Sessions, t # s
       PROVE  /\ Unprojected(t)' => Unprojected(t)
              /\ Lost(t) => Lost(t)'
              /\ \A v : Recorded(t, v) => Recorded(t, v)'
              /\ \A n : AnnouncedAfter(t, n) => AnnouncedAfter(t, n)'
              /\ \A me : RowAhead(me, t) => RowAhead(me, t)'
  <2>1. source'[t] = source[t] /\ feed'[t] = feed[t]
    BY <1>5, <1>10
  <2>2. /\ Unprojected(t)' => Unprojected(t)
        /\ Lost(t) => Lost(t)'
    BY <1>2, <2>1, SMT DEF Unprojected, Lost
  <2>3. \A v : Recorded(t, v) => Recorded(t, v)'
    BY <1>2, <2>1, SMT DEF Recorded
  <2>4. /\ \A n : AnnouncedAfter(t, n) => AnnouncedAfter(t, n)'
        /\ \A me : RowAhead(me, t) => RowAhead(me, t)'
    BY <2>1, SMT DEF AnnouncedAfter, RowAhead
  <2> QED
    BY <2>2, <2>3, <2>4
<1>11. ASSUME NEW t \in Sessions
       PROVE  OnDisk(t)'
  <2>1. CASE t = s
    <3>1. file.seq \in 0..seq
      BY <1>0, Numbers
    <3>2. AnnouncedAfter(s, file.seq)'
      <4>1. ASSUME NEW n, n = file.seq PROVE AnnouncedAfter(s, n)'
        BY <1>9, <3>1, <4>1
      <4> QED
        BY <1>2, <4>1
    <3> QED
      BY <2>1, <3>2 DEF OnDisk
  <2>2. CASE t # s
    <3>1. /\ Recorded(t, file.policy) => Recorded(t, file.policy)'
          /\ AnnouncedAfter(t, file.seq) => AnnouncedAfter(t, file.seq)'
      BY <1>2, <1>10, <2>2
    <3> QED
      BY <1>0, <1>2, <1>10, <2>2, <3>1, OnDiskKept
  <2> QED
    BY <2>1, <2>2
<1>12. ASSUME NEW me, me \in Builds(seq), ListsOK(me), BuildOK(me)
       PROVE  BuildOK(me)'
  <2>0. /\ me.last \in 0..seq /\ me.revision \in Nat /\ seq \in Nat
        /\ \A row \in me.rows : row[1] \in 0..seq
        /\ \A t \in Sessions : me.states[t].attempt.revision \in Nat
    BY <1>3, <1>12, BuildNumbers DEF DataTypes
  <2>1. SnapshotOK(me)'
    <3> SUFFICES ASSUME me.pc = "walking", NEW t \in Sessions
                 PROVE  /\ me.states[t].projected = state'[t].projected
                        /\ me.states[t].attempt.revision <= source'[t]
                        /\ \/ me.states[t].attempt = state'[t].attempt
                           \/ me.states[t].attempt.outcome = "rejected"
                                /\ me.states[t].attempt.revision = source'[t] => Lost(t)'
      BY DEF SnapshotOK
    <3>1. /\ me.states[t].projected = state[t].projected
          /\ me.states[t].attempt.revision <= source[t]
          /\ \/ me.states[t].attempt = state[t].attempt
             \/ me.states[t].attempt.outcome = "rejected"
                  /\ me.states[t].attempt.revision = source[t] => Lost(t)
      BY <1>12 DEF BuildOK, SnapshotOK
    <3>2. CASE t = s
      <4>1. source'[t] = source[t] + 1 /\ source[t] \in Nat /\ me.states[t].attempt.revision \in Nat
        BY <1>5, <1>7, <2>0, <3>2
      <4>2. me.states[t].attempt.revision <= source'[t] /\ me.states[t].attempt.revision # source'[t]
        BY <3>1, <4>1, SMT
      <4> QED
        BY <1>2, <3>1, <4>2
    <3>3. CASE t # s
      BY <1>2, <1>5, <1>10, <3>1, <3>3
    <3> QED
      BY <3>2, <3>3
  <2>2. ResultOK(me)'
    <3> DEFINE h == Head(me.sessions)
    <3> SUFFICES ASSUME me.pc \in {"check", "commit"}
                 PROVE  /\ me.revision <= source'[h] /\ state'[h].attempt.revision <= me.revision
                        /\ state'[h].projected <= me.revision
                        /\ me.outcome = "rejected" => <<h, me.revision, me.policy>> \in Rejected
      BY DEF ResultOK
    <3>1. h \in Sessions
      BY <1>12, HeadIsSession, SMT
    <3>2. /\ me.revision <= source[h] /\ state[h].attempt.revision <= me.revision
          /\ state[h].projected <= me.revision
          /\ me.outcome = "rejected" => <<h, me.revision, me.policy>> \in Rejected
      BY <1>12 DEF BuildOK, ResultOK
    <3>3. source[h] \in Nat /\ source'[h] \in Nat /\ source[h] <= source'[h]
      BY <1>7, <3>1
    <3> HIDE DEF h
    <3>4. me.revision <= source'[h]
      BY <2>0, <3>2, <3>3, SMT
    <3> QED
      BY <1>2, <3>2, <3>4
  <2>3. ASSUME NEW t \in Sessions, Unprojected(t)', me.pc \in Selecting
        PROVE  Pursued(me, t)'
    <3>1. CASE t = s
      <4>1. AnnouncedAfter(s, me.last)'
        BY <1>9, <2>0
      <4>2. RowAhead(me, s)'
        <5>1. seq + 1 > me.last /\ \A row \in me.rows : seq + 1 > row[1]
          BY <2>0, SMT
        <5> QED
          BY <1>2, <1>5, <5>1 DEF RowAhead
      <4> QED
        BY <2>3, <3>1, <4>1, <4>2, SMT DEF Pursued, Selecting
    <3>2. CASE t # s
      <4>1. Pursued(me, t)
        BY <1>10, <1>12, <2>3, <3>2 DEF BuildOK
      <4> QED
        BY <1>10, <3>2, <4>1, PursuedKept
    <3> QED
      BY <3>1, <3>2
  <2> QED
    BY <1>2, <1>12, <2>1, <2>2, <2>3, BuildKept
<1> QED
    BY <1>2, <1>6, <1>8, <1>11, <1>12, Environment

\* A pending mark may erase a refusal: the session is then lost, or it is
\* announced by the coverage manifest as before.
LEMMA MarkPendingStep ==
    ASSUME IInv, TypeInv', NEW s \in Sessions, MarkPending(s), Fed(s)
    PROVE  IInv' /\ \A t \in Sessions : state'[t].projected >= state[t].projected
<1>0. TypeInv /\ FeedOK /\ \A t \in Sessions : DocOK(t) /\ OnDisk(t)
    BY DEF IInv
<1> DEFINE new == [state[s] EXCEPT !.marked = source[s], !.attempt = NoAttempt, !.terminal = 0]
           cond == state[s].terminal # 0 /\ state[s].attempt.revision = source[s]
<1>2. /\ PutCoverage(s) /\ UNCHANGED <<source, file, policy, build, gaveUp>>
      /\ state' = [state EXCEPT ![s] = new]
      /\ erased' = [erased EXCEPT ![s] = IF cond THEN source[s] ELSE erased[s]]
    BY DEF MarkPending
<1>3. DataTypes /\ state[s] \in States /\ source[s] \in Revisions
    BY <1>0, TypeFacts DEF DataTypes
<1>4. new.projected = state[s].projected /\ new.attempt = NoAttempt /\ new.terminal = 0
    BY <1>3 DEF States
<1> HIDE DEF new
<1>5. /\ state'[s] = new /\ erased'[s] = IF cond THEN source[s] ELSE erased[s]
      /\ \A t \in Sessions : t # s => state'[t] = state[t] /\ erased'[t] = erased[t]
    BY <1>2, <1>3 DEF DataTypes
<1>7. FeedOK'
    BY <1>0, FedOK
<1>8. NoAttempt.revision = 0 /\ NoAttempt.outcome = "none"
    BY SMT DEF NoAttempt
<1>9. ASSUME NEW t \in Sessions
      PROVE  DocOK(t)'
  <2>1. CASE t = s
    <3>1. 0 <= source[s] /\ 0 <= policy
      BY <1>0, Numbers, SMT
    <3>2. state[s].projected <= source[s]
      BY <1>0 DEF DocOK
    <3> QED
      BY <1>2, <1>4, <1>5, <1>8, <2>1, <3>1, <3>2, SMT DEF DocOK
  <2>2. CASE t # s
    BY <1>0, <1>2, <1>5, <2>2 DEF DocOK
  <2> QED
    BY <2>1, <2>2
<1>10. ASSUME NEW t \in Sessions
       PROVE  /\ Unprojected(t)' => Unprojected(t)
              /\ Lost(t) => Lost(t)'
              /\ \A v : Recorded(t, v) => Recorded(t, v)' \/ Lost(t)'
              /\ \A n \in 0..seq : AnnouncedAfter(t, n) => AnnouncedAfter(t, n)'
              /\ \A me \in Builds(seq) : RowAhead(me, t) => RowAhead(me, t)'
  <2>1. Unprojected(t)' => Unprojected(t)
    BY <1>2, <1>4, <1>5 DEF Unprojected
  <2>2. Lost(t) => Lost(t)'
    BY <1>2, <1>5, SMT DEF Lost
  <2>3. ASSUME NEW v, Recorded(t, v) PROVE Recorded(t, v)' \/ Lost(t)'
    <3>1. CASE t = s
      <4>1. cond
        BY <2>3, <3>1 DEF Recorded
      <4>2. erased'[s] = source'[s]
        BY <1>2, <1>5, <4>1
      <4> QED
        BY <3>1, <4>2, SMT DEF Lost
    <3>2. CASE t # s
      BY <1>2, <1>5, <2>3, <3>2 DEF Recorded
    <3> QED
      BY <3>1, <3>2
  <2>4. /\ \A n \in 0..seq : AnnouncedAfter(t, n) => AnnouncedAfter(t, n)'
        /\ \A me \in Builds(seq) : RowAhead(me, t) => RowAhead(me, t)'
    BY <1>0, FedAnnounced, FedRow
  <2> QED
    BY <2>1, <2>2, <2>3, <2>4
<1>11. ASSUME NEW t \in Sessions
       PROVE  OnDisk(t)'
  <2>1. file.seq \in 0..seq
    BY <1>0, Numbers
  <2>2. /\ Recorded(t, file.policy) => Recorded(t, file.policy)' \/ Lost(t)'
        /\ AnnouncedAfter(t, file.seq) => AnnouncedAfter(t, file.seq)'
    BY <1>2, <1>10, <2>1
  <2> QED
    BY <1>0, <1>2, <1>10, <2>2, OnDiskKept
<1>12. ASSUME NEW me, me \in Builds(seq), ListsOK(me), BuildOK(me)
       PROVE  BuildOK(me)'
  <2>0. me.last \in 0..seq /\ me.revision \in Nat
    BY <1>3, <1>12, BuildNumbers DEF DataTypes
  <2>1. SnapshotOK(me)'
    <3> SUFFICES ASSUME me.pc = "walking", NEW t \in Sessions
                 PROVE  /\ me.states[t].projected = state'[t].projected
                        /\ me.states[t].attempt.revision <= source'[t]
                        /\ \/ me.states[t].attempt = state'[t].attempt
                           \/ me.states[t].attempt.outcome = "rejected"
                                /\ me.states[t].attempt.revision = source'[t] => Lost(t)'
      BY DEF SnapshotOK
    <3>1. /\ me.states[t].projected = state[t].projected
          /\ me.states[t].attempt.revision <= source[t]
          /\ \/ me.states[t].attempt = state[t].attempt
             \/ me.states[t].attempt.outcome = "rejected"
                  /\ me.states[t].attempt.revision = source[t] => Lost(t)
      BY <1>12 DEF BuildOK, SnapshotOK
    <3>2. CASE t = s
      <4>1. ASSUME me.states[t].attempt = state[t].attempt,
                   me.states[t].attempt.outcome = "rejected",
                   me.states[t].attempt.revision = source'[t]
            PROVE  Lost(t)'
        <5>1. /\ state[s].attempt.outcome = "rejected" /\ state[s].attempt.revision = source[s]
          BY <1>2, <3>2, <4>1
        <5>2. /\ state[s].terminal = state[s].attempt.policy
              /\ <<s, state[s].attempt.revision, state[s].attempt.policy>> \in Rejected
          BY <1>0, <5>1 DEF DocOK
        <5>3. cond
          BY <5>1, <5>2, RejectedPolicy
        <5>4. erased'[s] = source'[s]
          BY <1>2, <1>5, <5>3
        <5> QED
          BY <3>2, <5>4, SMT DEF Lost
      <4>2. me.states[t].projected = state'[t].projected
        BY <1>4, <1>5, <3>1, <3>2
      <4> QED
        BY <1>2, <1>10, <3>1, <4>1, <4>2
    <3>3. CASE t # s
      BY <1>2, <1>5, <1>10, <3>1, <3>3
    <3> QED
      BY <3>2, <3>3
  <2>2. ResultOK(me)'
    <3> DEFINE h == Head(me.sessions)
    <3> SUFFICES ASSUME me.pc \in {"check", "commit"}
                 PROVE  /\ me.revision <= source'[h] /\ state'[h].attempt.revision <= me.revision
                        /\ state'[h].projected <= me.revision
                        /\ me.outcome = "rejected" => <<h, me.revision, me.policy>> \in Rejected
      BY DEF ResultOK
    <3>1. h \in Sessions
      BY <1>12, HeadIsSession, SMT
    <3>2. /\ me.revision <= source[h] /\ state[h].attempt.revision <= me.revision
          /\ state[h].projected <= me.revision
          /\ me.outcome = "rejected" => <<h, me.revision, me.policy>> \in Rejected
      BY <1>12 DEF BuildOK, ResultOK
    <3>3. 0 <= me.revision
      BY <2>0, SMT
    <3> HIDE DEF h
    <3>4. CASE h = s
      <4>1. me.revision <= source'[h]
        BY <1>2, <3>2, <3>4
      <4>2. state'[h].projected <= me.revision
        BY <1>4, <1>5, <3>2, <3>4
      <4>3. state'[h].attempt.revision <= me.revision
        BY <1>4, <1>5, <1>8, <3>3, <3>4
      <4> QED
        BY <3>2, <4>1, <4>2, <4>3
    <3>5. CASE h # s
      BY <1>2, <1>5, <3>1, <3>2, <3>5
    <3> QED
      BY <3>4, <3>5
  <2>3. ASSUME NEW t \in Sessions, Unprojected(t)', me.pc \in Selecting
        PROVE  Pursued(me, t)'
    <3>1. Pursued(me, t)
      BY <1>10, <1>12, <2>3 DEF BuildOK
    <3>2. /\ Lost(t) => Lost(t)'
          /\ Recorded(t, me.policy) => Recorded(t, me.policy)' \/ Lost(t)'
          /\ AnnouncedAfter(t, me.last) => AnnouncedAfter(t, me.last)'
          /\ RowAhead(me, t) => RowAhead(me, t)'
      BY <1>10, <1>12, <2>0
    <3> QED
      BY <3>1, <3>2, PursuedKept
  <2> QED
    BY <1>2, <1>12, <2>1, <2>2, <2>3, BuildKept
<1>13. \A t \in Sessions : state'[t].projected >= state[t].projected
  <2>1. \A t \in Sessions : state'[t].projected = state[t].projected
    BY <1>4, <1>5
  <2>2. \A t \in Sessions : state[t].projected \in Nat
    BY <1>0, Numbers
  <2> QED
    BY <2>1, <2>2, SMT
<1> QED
    BY <1>2, <1>7, <1>9, <1>11, <1>12, <1>13, Environment

\* A release leaves the refusals on record, under an earlier policy.
LEMMA UpgradeStep ==
    ASSUME IInv, TypeInv', Upgrade
    PROVE  IInv'
<1>0. TypeInv /\ FeedOK /\ \A t \in Sessions : DocOK(t) /\ OnDisk(t)
    BY DEF IInv
<1>2. /\ UNCHANGED <<source, seq, feed, state, file, build, gaveUp, erased>> /\ policy' = policy + 1
    BY DEF Upgrade, db, losses
<1>3. FeedOK'
    BY <1>0, <1>2, SMT DEF FeedOK
<1>4. ASSUME NEW t \in Sessions
      PROVE  /\ DocOK(t)'
             /\ Unprojected(t)' => Unprojected(t)
             /\ Lost(t) => Lost(t)'
             /\ \A v : Recorded(t, v) => Recorded(t, v)'
             /\ \A n : AnnouncedAfter(t, n) => AnnouncedAfter(t, n)'
             /\ \A me : RowAhead(me, t) => RowAhead(me, t)'
  <2>1. state[t].terminal \in Nat /\ policy \in Nat /\ state[t].terminal <= policy
    BY <1>0, Numbers DEF DocOK
  <2>2. /\ state[t].terminal <= policy'
        /\ state[t].terminal < policy => state[t].terminal < policy'
    BY <1>2, <2>1, SMT
  <2>3. DocOK(t)'
    BY <1>0, <1>2, <2>2 DEF DocOK
  <2>4. \A v : Recorded(t, v) => Recorded(t, v)'
    BY <1>2, <2>2 DEF Recorded
  <2>5. /\ Unprojected(t)' => Unprojected(t)
        /\ Lost(t) => Lost(t)'
        /\ \A n : AnnouncedAfter(t, n) => AnnouncedAfter(t, n)'
        /\ \A me : RowAhead(me, t) => RowAhead(me, t)'
    BY <1>2, SMT DEF Unprojected, Lost, AnnouncedAfter, RowAhead
  <2> QED
    BY <2>3, <2>4, <2>5
<1>5. ASSUME NEW t \in Sessions
      PROVE  OnDisk(t)'
  <2>1. /\ Recorded(t, file.policy) => Recorded(t, file.policy)'
        /\ AnnouncedAfter(t, file.seq) => AnnouncedAfter(t, file.seq)'
    BY <1>2, <1>4
  <2> QED
    BY <1>0, <1>2, <1>4, <2>1, OnDiskKept
<1>6. ASSUME NEW me, me \in Builds(seq), ListsOK(me), BuildOK(me)
      PROVE  BuildOK(me)'
  <2>1. SnapshotOK(me)'
    BY <1>2, <1>6, SMT DEF BuildOK, SnapshotOK, Lost
  <2>2. ResultOK(me)'
    BY <1>2, <1>6, SMT DEF BuildOK, ResultOK
  <2>3. ASSUME NEW t \in Sessions, Unprojected(t)', me.pc \in Selecting
        PROVE  Pursued(me, t)'
    <3>1. Pursued(me, t)
      BY <1>4, <1>6, <2>3 DEF BuildOK
    <3> QED
      BY <1>4, <3>1, PursuedKept
  <2> QED
    BY <1>2, <1>6, <2>1, <2>2, <2>3, BuildKept
<1> QED
    BY <1>2, <1>3, <1>4, <1>5, <1>6, Environment

-----------------------------------------------------------------------------
(* What the invariant is for.                                              *)

\* What is on disk is what NothingForgotten asks for: a refusal under an
\* earlier policy is recovered.
LEMMA InvForgetsNothing ==
    ASSUME IInv
    PROVE  NothingForgotten
<1>0. TypeInv
    BY DEF IInv
<1> SUFFICES ASSUME NEW s \in Sessions, Outstanding(s)
             PROVE  \/ s \in Range(file.pending)
                    \/ Announced(s)
                    \/ file.seq = 0 \/ file.walk
                    \/ file.policy # policy /\ s \in Recoverable(policy)
                    \/ source[s] \in {gaveUp[s], erased[s]}
    BY DEF NothingForgotten
<1>1. DocOK(s) /\ OnDisk(s)
    BY DEF IInv
<1>2. Unprojected(s) /\ <<s, source[s], policy>> \notin Rejected
    BY DEF Unprojected, Outstanding
<1>3. CASE Recorded(s, file.policy)
  <2>1. /\ state[s].terminal # 0 /\ file.policy <= state[s].terminal
        /\ state[s].terminal < policy \/ <<s, source[s], state[s].terminal>> \in Rejected
    BY <1>3 DEF Recorded
  <2>2. /\ state[s].terminal \in Nat /\ policy \in Nat /\ file.policy \in Nat
        /\ state[s].terminal <= policy
    BY <1>0, <1>1, Numbers DEF DocOK
  <2>3. state[s].terminal # policy
    BY <1>2, <2>1, <2>2, SMT
  <2>4. file.policy # policy /\ state[s].terminal \in 1..(policy - 1)
    BY <2>1, <2>2, <2>3, SMT
  <2> QED
    BY <2>4 DEF Recoverable
<1>4. CASE AnnouncedAfter(s, file.seq)
    BY <1>4 DEF AnnouncedAfter, Announced
<1> QED
    BY <1>1, <1>2, <1>3, <1>4 DEF OnDisk, Lost

=============================================================================
