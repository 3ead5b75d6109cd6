---------------------- MODULE SessionMemoryBuildTypes -----------------------
(***************************************************************************)
(* The types of SessionMemoryBuild, for any number of builders, and the    *)
(* record that each step of a build leaves behind.                         *)
(***************************************************************************)
EXTENDS SessionMemoryBuildInv, ListProofs, TLAPS

\* The prover of the steps that name none.
USE Zenon

-----------------------------------------------------------------------------
(* Records of a build.                                                     *)

\* A record that is well-formed stays so as the feed grows.
LEMMA Later ==
    ASSUME NEW n \in Nat, NEW m \in Nat, n <= m
    PROVE  Builds(n) \subseteq Builds(m)
BY SMT DEF Builds, Labels

\* The attempt of a document that is new.
LEMMA NoAttemptType == NoAttempt \in Attempts
<1>1. 0 \in Revisions /\ 0 \in 0..MaxPolicy
    BY BuildAssumption, SMT DEF Revisions
<1> QED
    BY <1>1, SMT DEF NoAttempt, Attempts, Outcomes

\* The record of a builder that does nothing (main() before it is called).
LEMMA IdleIsBuild ==
    ASSUME NEW n \in Nat
    PROVE  Idle \in Builds(n) /\ ListsOK(Idle) /\ NoState \in States
<1>1. 0 \in Revisions
    BY DEF Revisions
<1>2. NoState \in States
    BY <1>1, NoAttemptType, BuildAssumption, SMT DEF NoState, States
<1>3. <<>> \in Seq(Sessions) /\ Distinct(<<>>)
    BY SMT DEF Distinct
<1>4. Idle \in Builds(n)
    BY <1>1, <1>2, <1>3, BuildAssumption, SMT DEF Idle, Builds, Labels, Outcomes
<1>5. ListsOK(Idle)
    BY <1>3, SMT DEF Idle, ListsOK, Projections
<1> QED
    BY <1>2, <1>4, <1>5

\* list(dict.fromkeys(first + second)): every session of both, once.
LEMMA JoinedLists ==
    ASSUME NEW first \in Seq(Sessions), NEW second \in Seq(Sessions),
           Distinct(first), Distinct(second)
    PROVE  /\ Joined(first, second) \in Seq(Sessions)
           /\ Distinct(Joined(first, second))
           /\ Range(Joined(first, second)) = Range(first) \cup Range(second)
<1> DEFINE others == Sessions \ Range(first)
           rest == Within(second, others)
<1>1. rest \in Seq(Sessions) /\ Distinct(rest) /\ Range(rest) = Range(second) \cap others
    BY WithinKeeps
<1>2. Range(second) \subseteq Sessions
    BY Elements
<1>3. Range(first) \cap Range(rest) = {} /\ Range(first) \cup Range(rest) = Range(first) \cup Range(second)
    BY <1>1, <1>2
<1>4. Joined(first, second) = first \o rest
    BY DEF Joined
<1> HIDE DEF rest
<1>5. /\ first \o rest \in Seq(Sessions) /\ Distinct(first \o rest)
      /\ Range(first \o rest) = Range(first) \cup Range(second)
    BY <1>1, <1>3, Concatenated, SMT
<1> QED
    BY <1>4, <1>5

\* The split of the pending sessions at the limit loses none of them.
LEMMA SplitLists ==
    ASSUME NEW kept \in Seq(Sessions), Distinct(kept), NEW limit \in Nat
    PROVE  LET split == SplitPending(kept, limit)
           IN  /\ split.now \in Seq(Sessions) /\ Distinct(split.now)
               /\ split.later \in Seq(Sessions) /\ Distinct(split.later)
               /\ Range(split.now) \cup Range(split.later) = Range(kept)
<1> DEFINE split == SplitPending(kept, limit)
           n == IF limit = 0 \/ Len(kept) <= limit THEN Len(kept) ELSE limit
           now == SubSeq(kept, 1, n)
           later == SubSeq(kept, n + 1, Len(kept))
<1>1. Len(kept) \in Nat
    BY SMT
<1>2. n \in 0..Len(kept) /\ n \in Nat
    BY <1>1, SMT
<1>3. split.now = now /\ Len(now) = n
  <2>1. SubSeq(kept, 1, Len(kept)) = kept
    BY SMT
  <2>2. Len(now) = n
    BY <1>1, <1>2, SMT
  <2>3. CASE limit = 0
    BY <2>1, <2>2, <2>3, SMT DEF SplitPending
  <2>4. CASE limit # 0 /\ Len(kept) <= limit
    <3>1. (IF limit < Len(kept) THEN limit ELSE Len(kept)) = n
      BY <1>1, <2>4, SMT
    <3> HIDE DEF n
    <3> QED
      BY <2>2, <2>4, <3>1 DEF SplitPending, Take
  <2>5. CASE limit # 0 /\ ~(Len(kept) <= limit)
    BY <1>1, <2>1, <2>2, <2>5, SMT DEF SplitPending, Take
  <2> QED
    BY <2>3, <2>4, <2>5
<1>4. split.later = later
  <2>1. split.later = SubSeq(kept, Len(split.now) + 1, Len(kept))
    BY SMT DEF SplitPending
  <2> QED
    BY <1>3, <2>1
<1> HIDE DEF n, split
<1>5. /\ now \in Seq(Sessions) /\ later \in Seq(Sessions) /\ kept = now \o later
    BY <1>2, SplitAt
<1>6. 1 \in 1..(Len(kept) + 1) /\ n + 1 \in 1..(Len(kept) + 1) /\ Len(kept) \in 0..Len(kept)
    BY <1>1, <1>2, SMT
<1>7. Distinct(now) /\ Distinct(later)
    BY <1>2, <1>6, Sliced
<1> HIDE DEF now, later
<1>8. Range(now \o later) = Range(now) \cup Range(later)
    BY <1>5, Concatenated, SMT
<1> QED
    BY <1>3, <1>4, <1>5, <1>7, <1>8 DEF split

-----------------------------------------------------------------------------
(* Types.                                                                  *)

\* The parts of the type invariant.
LEMMA TypeParts ==
    TypeInv <=> /\ DataTypes /\ FileTypes
                /\ build \in [Builders -> Builds(seq)]
                /\ \A b \in Builders : Fits(build[b], seq, policy)
<1>1. TypeOK <=> DataTypes /\ FileTypes /\ build \in [Builders -> Builds(seq)]
    BY DEF TypeOK, DataTypes, FileTypes, Files
<1>2. build \in [Builders -> Builds(seq)] => \A b \in Builders : build[b] \in Builds(seq)
    OBVIOUS
<1> QED
    BY <1>1, <1>2 DEF TypeInv, Fits

\* Revisions are numbers, up to the last one of a session.
LEMMA RevisionsAreNumbers ==
    /\ Revisions \subseteq Nat
    /\ 0 \in Revisions
    /\ \A s \in Sessions : \A r \in 0..LastRevision[s] : r \in Revisions
BY BuildAssumption, SMT DEF Revisions

\* A checkpoint stays well-formed as the feed and the policy grow.
LEMMA FilesLater ==
    ASSUME NEW n \in Nat, NEW m \in Nat, n <= m, NEW p \in Nat, NEW q \in Nat, p <= q
    PROVE  Files(n, p) \subseteq Files(m, q)
BY SMT DEF Files

\* The type invariant from its parts: at most one builder moves.
LEMMA Composed ==
    ASSUME TypeInv, DataTypes', FileTypes', seq <= seq', policy <= policy',
           build' = build \/ \E b \in Builders : Moves(b)
    PROVE  TypeInv'
<1>1. /\ DataTypes /\ build \in [Builders -> Builds(seq)]
      /\ \A b \in Builders : Fits(build[b], seq, policy)
    BY TypeParts
<1>2. seq \in Nat /\ seq' \in Nat /\ policy \in Nat /\ policy' \in Nat
    BY <1>1, BuildAssumption, SMT DEF DataTypes
<1>3. \A me : Fits(me, seq, policy) => Fits(me, seq', policy')
  <2> SUFFICES ASSUME NEW me, Fits(me, seq, policy)
               PROVE  Fits(me, seq', policy')
    OBVIOUS
  <2>1. me \in Builds(seq')
    BY <1>2, Later DEF Fits
  <2>2. me.policy \in Nat
    BY SMT DEF Fits, Builds
  <2>3. me.policy <= policy'
    BY <1>2, <2>2, SMT DEF Fits
  <2> QED
    BY <2>1, <2>3 DEF Fits
<1>4. build' \in [Builders -> Builds(seq')] /\ \A b \in Builders : Fits(build'[b], seq', policy')
  <2>1. CASE build' = build
    BY <1>1, <1>3, <2>1 DEF Fits
  <2>2. ASSUME NEW b \in Builders, Moves(b)
        PROVE  build' \in [Builders -> Builds(seq')] /\ \A d \in Builders : Fits(build'[d], seq', policy')
    <3>1. PICK me : Fits(me, seq, policy) /\ build' = [build EXCEPT ![b] = me]
      BY <2>2 DEF Moves, Becomes
    <3>2. \A d \in Builders : Fits(build'[d], seq, policy)
      BY <1>1, <3>1
    <3>3. \A d \in Builders : Fits(build'[d], seq', policy')
      BY <1>3, <3>2
    <3>4. build' = [d \in Builders |-> build'[d]]
      BY <1>1, <3>1
    <3> QED
      BY <3>3, <3>4 DEF Fits
  <2> QED
    BY <2>1, <2>2
<1>5. TypeOK'
    BY <1>4 DEF TypeOK, DataTypes, FileTypes, Files
<1> QED
    BY <1>4, <1>5 DEF TypeInv, Fits

\* The write of a document gives it the next number of the feed.
LEMMA WriteFeeds ==
    ASSUME DataTypes, NEW s \in Sessions, NEW kind \in Kinds, seq' = seq + 1,
           feed' = [feed EXCEPT ![s][kind] = seq + 1]
    PROVE  /\ seq' \in Nat /\ seq <= seq'
           /\ feed' \in [Sessions -> [Kinds -> 0..seq']]
           /\ Fed(s)
<1>1. seq \in Nat /\ seq' \in Nat /\ seq <= seq' /\ seq + 1 \in 0..seq' /\ 0..seq \subseteq 0..seq'
    BY SMT DEF DataTypes
<1>2. feed \in [Sessions -> [Kinds -> 0..seq]]
    BY DEF DataTypes
<1>3. \A t \in Sessions, k \in Kinds :
          feed'[t][k] = IF t = s /\ k = kind THEN seq + 1 ELSE feed[t][k]
    BY <1>2
<1>4. feed' \in [Sessions -> [Kinds -> 0..seq']]
  <2>1. [feed[s] EXCEPT ![kind] = seq + 1] \in [Kinds -> 0..seq']
    BY <1>1, <1>2, SMT
  <2>2. feed \in [Sessions -> [Kinds -> 0..seq']]
    BY <1>1, <1>2, SMT
  <2>3. feed' = [feed EXCEPT ![s] = [feed[s] EXCEPT ![kind] = seq + 1]]
    BY <1>2
  <2> QED
    BY <2>1, <2>2, <2>3
<1> QED
    BY <1>1, <1>3, <1>4, SMT DEF Fed

\* So does the write of a coverage manifest, when it writes at all.
LEMMA CoverageFeeds ==
    ASSUME DataTypes, NEW s \in Sessions, PutCoverage(s)
    PROVE  /\ coverage' \in [Sessions -> Revisions]
           /\ seq' \in Nat /\ seq <= seq'
           /\ feed' \in [Sessions -> [Kinds -> 0..seq']]
           /\ Fed(s)
<1>1. coverage' \in [Sessions -> Revisions]
    BY DEF DataTypes, PutCoverage
<1>2. CASE coverage[s] = source[s]
  <2>1. seq' = seq /\ feed' = feed
    BY <1>2 DEF PutCoverage
  <2> QED
    BY <1>1, <2>1, SMT DEF DataTypes, Fed
<1>3. CASE coverage[s] # source[s]
  <2>1. seq' = seq + 1 /\ feed' = [feed EXCEPT ![s]["coverage"] = seq + 1] /\ "coverage" \in Kinds
    BY <1>3 DEF PutCoverage, Kinds
  <2> QED
    BY <1>1, <2>1, WriteFeeds
<1> QED
    BY <1>2, <1>3

\* A checkpoint that is not written stays well-formed.
LEMMA SameFile ==
    ASSUME TypeInv, DataTypes', file' = file, seq <= seq', policy <= policy'
    PROVE  FileTypes'
<1>1. DataTypes /\ FileTypes
    BY TypeParts
<1>2. seq \in Nat /\ seq' \in Nat /\ policy \in Nat /\ policy' \in Nat
    BY <1>1, BuildAssumption, SMT DEF DataTypes
<1> QED
    BY <1>1, <1>2, FilesLater DEF FileTypes

\* A delivery keeps the types.
LEMMA DeliverTypes ==
    ASSUME TypeInv, NEW s \in Sessions, Deliver(s)
    PROVE  TypeInv'
<1>1. DataTypes
    BY TypeParts
<1>2. /\ source[s] < LastRevision[s] /\ source' = [source EXCEPT ![s] = source[s] + 1]
      /\ seq' = seq + 1 /\ feed' = [feed EXCEPT ![s]["source"] = seq + 1] /\ "source" \in Kinds
      /\ UNCHANGED <<coverage, state, chunks, file, policy, build, gaveUp, erased, faults>>
    BY DEF Deliver, losses, Kinds
<1>3. source[s] + 1 \in Revisions
  <2>1. source[s] \in Nat /\ LastRevision[s] \in Nat
    BY <1>1, RevisionsAreNumbers, BuildAssumption DEF DataTypes
  <2>2. source[s] + 1 \in 0..LastRevision[s]
    BY <1>2, <2>1, SMT
  <2> QED
    BY <2>2, RevisionsAreNumbers
<1>4. /\ seq' \in Nat /\ seq <= seq' /\ feed' \in [Sessions -> [Kinds -> 0..seq']]
    BY <1>1, <1>2, WriteFeeds
<1>5. DataTypes'
  <2>1. source' \in [Sessions -> Revisions]
    BY <1>1, <1>2, <1>3 DEF DataTypes
  <2> QED
    BY <1>1, <1>2, <1>4, <2>1 DEF DataTypes
<1>6. policy <= policy'
    BY <1>1, <1>2, SMT DEF DataTypes
<1>7. FileTypes'
    BY <1>2, <1>4, <1>5, <1>6, SameFile
<1> QED
    BY <1>2, <1>4, <1>5, <1>6, <1>7, Composed

\* The document that a pending mark leaves behind.
LEMMA MarkedDoc ==
    ASSUME NEW doc \in States, NEW r \in Revisions, NEW a \in Attempts
    PROVE  LET new == [doc EXCEPT !.marked = r, !.attempt = a, !.terminal = 0]
           IN  /\ new \in States
               /\ new.projected = doc.projected /\ new.attempt = a /\ new.terminal = 0
<1>1. 0 \in 0..MaxPolicy
    BY BuildAssumption, SMT
<1> QED
    BY <1>1 DEF States

\* A pending mark keeps the types.
LEMMA MarkPendingTypes ==
    ASSUME TypeInv, NEW s \in Sessions, MarkPending(s)
    PROVE  TypeInv'
<1>1. DataTypes
    BY TypeParts
<1>2. /\ PutCoverage(s) /\ UNCHANGED <<source, chunks, file, policy, build, gaveUp, faults>>
      /\ state' = [state EXCEPT ![s] =
                      [state[s] EXCEPT !.marked = source[s], !.attempt = NoAttempt, !.terminal = 0]]
      /\ erased' = [erased EXCEPT ![s] =
                        IF state[s].terminal # 0 /\ state[s].attempt.revision = source[s]
                        THEN source[s] ELSE erased[s]]
    BY DEF MarkPending
<1>3. /\ coverage' \in [Sessions -> Revisions] /\ seq' \in Nat /\ seq <= seq'
      /\ feed' \in [Sessions -> [Kinds -> 0..seq']]
    BY <1>1, <1>2, CoverageFeeds
<1>4. erased' \in [Sessions -> Revisions]
    BY <1>1, <1>2, SMT DEF DataTypes
<1>5. state' \in [Sessions -> States]
  <2>1. state[s] \in States /\ source[s] \in Revisions
    BY <1>1 DEF DataTypes
  <2>2. [state[s] EXCEPT !.marked = source[s], !.attempt = NoAttempt, !.terminal = 0] \in States
    BY <2>1, NoAttemptType, MarkedDoc
  <2> QED
    BY <1>1, <1>2, <2>2 DEF DataTypes
<1>6. DataTypes'
    BY <1>1, <1>2, <1>3, <1>4, <1>5 DEF DataTypes
<1>7. policy <= policy'
    BY <1>1, <1>2, SMT DEF DataTypes
<1>8. FileTypes'
    BY <1>2, <1>3, <1>6, <1>7, SameFile
<1> QED
    BY <1>2, <1>3, <1>6, <1>7, <1>8, Composed

\* A release keeps the types.
LEMMA UpgradeTypes ==
    ASSUME TypeInv, Upgrade
    PROVE  TypeInv'
<1>1. DataTypes
    BY TypeParts
<1>2. /\ UNCHANGED <<source, coverage, seq, feed, state, chunks, file, build, gaveUp, erased, faults>>
      /\ policy < MaxPolicy /\ policy' = policy + 1
    BY DEF Upgrade, db, losses
<1>3. policy' \in 1..MaxPolicy /\ policy <= policy' /\ seq <= seq'
    BY <1>1, <1>2, BuildAssumption, SMT DEF DataTypes
<1>4. DataTypes'
    BY <1>1, <1>2, <1>3 DEF DataTypes
<1>5. FileTypes'
    BY <1>2, <1>3, <1>4, SameFile
<1> QED
    BY <1>2, <1>3, <1>4, <1>5, Composed

-----------------------------------------------------------------------------
(* The steps of a build, each with the record it leaves behind.             *)

\* What the type invariant says of one builder.
LEMMA BuildType ==
    ASSUME TypeInv, NEW b \in Builders
    PROVE  /\ build[b] \in Builds(seq) /\ ListsOK(build[b]) /\ build[b].policy <= policy
           /\ DataTypes /\ FileTypes /\ seq \in Nat /\ policy \in Nat
<1>1. DataTypes /\ FileTypes /\ Fits(build[b], seq, policy)
    BY TypeParts
<1>2. seq \in Nat /\ policy \in Nat
    BY <1>1, BuildAssumption, SMT DEF DataTypes
<1> QED
    BY <1>1, <1>2 DEF Fits

\* The pending sessions of a build: those of the checkpoint, and after a
\* release those that an earlier policy refused.
LEMMA PendingLists ==
    ASSUME DataTypes, FileTypes
    PROVE  /\ PendingIds \in Seq(Sessions) /\ Distinct(PendingIds)
           /\ Range(PendingIds) \subseteq Sessions
           /\ Range(file.pending) \subseteq Range(PendingIds)
           /\ file.policy # policy => Recoverable(policy) \subseteq Range(PendingIds)
<1>1. file.pending \in Seq(Sessions) /\ Distinct(file.pending)
    BY DEF FileTypes, Files
<1> DEFINE more == Within(WalkOrder, Recoverable(policy))
<1>2. /\ more \in Seq(Sessions) /\ Distinct(more)
      /\ Range(more) = Sessions \cap Recoverable(policy)
    BY BuildAssumption, WithinKeeps
<1>3. Recoverable(policy) \subseteq Sessions
    BY DEF Recoverable
<1>4. CASE file.policy = policy
  <2>1. PendingIds = file.pending
    BY <1>4 DEF PendingIds
  <2> QED
    BY <1>1, <1>4, <2>1, Elements
<1>5. CASE file.policy # policy
  <2>1. PendingIds = Joined(file.pending, more)
    BY <1>5 DEF PendingIds
  <2> HIDE DEF more
  <2>2. /\ PendingIds \in Seq(Sessions) /\ Distinct(PendingIds)
        /\ Range(PendingIds) = Range(file.pending) \cup Range(more)
    BY <1>1, <1>2, <2>1, JoinedLists
  <2> QED
    BY <1>2, <1>3, <2>2, Elements
<1> QED
    BY <1>4, <1>5

\* The beginning of a build: the pending sessions, filtered, capped and split.
LEMMA BeginMoves ==
    ASSUME TypeInv, NEW b \in Builders, NEW limit \in Nat, NEW mode, NEW odd,
           Begin(b, limit, mode, odd)
    PROVE  \E me : Fits(me, seq, policy) /\ Becomes(b, me) /\ Begun(me, odd)
<1> DEFINE wanted == {s \in Sessions : s \in odd \/ NeedsProjection(s, state[s], policy)}
           still == Within(PendingIds, wanted)
           few == {s \in Sessions : file.attempts[s] < MaxPendingAttempts}
           kept == Within(still, few)
           split == SplitPending(kept, limit)
           room == IF limit = 0 THEN -1 ELSE limit - Len(split.now)
           pc == IF room = 0 THEN "write"
                 ELSE IF mode # "full" /\ file.seq # 0 /\ ~file.walk THEN "feed" ELSE "walk"
           attempts == [s \in Sessions |-> IF s \in Range(kept) THEN file.attempts[s] + 1 ELSE 0]
           dropped == Range(still) \ Range(kept)
           me == [Idle EXCEPT !.pc = pc, !.policy = policy, !.last = file.seq, !.walking = file.walk,
                     !.sessions = split.now, !.rest = split.later, !.room = room,
                     !.attempts = attempts, !.dropped = dropped]
<1>0. DataTypes /\ FileTypes /\ seq \in Nat /\ policy \in Nat
    BY BuildType
<1>1. Becomes(b, me)
    BY DEF Begin
<1>2. /\ still \in Seq(Sessions) /\ Distinct(still) /\ Range(still) = Range(PendingIds) \cap wanted
    BY <1>0, PendingLists, WithinKeeps
<1>3. Range(still) \subseteq Sessions
    BY <1>2, Elements
<1>4. kept \in Seq(Sessions) /\ Distinct(kept) /\ Range(kept) = Range(still) \cap few
  <2> HIDE DEF still
  <2> QED
    BY <1>2, WithinKeeps
<1>5. /\ split.now \in Seq(Sessions) /\ Distinct(split.now)
      /\ split.later \in Seq(Sessions) /\ Distinct(split.later)
      /\ Range(split.now) \cup Range(split.later) = Range(kept)
  <2> HIDE DEF kept
  <2> QED
    BY <1>4, SplitLists
<1>6. /\ file.seq \in 0..seq /\ file.walk \in BOOLEAN /\ policy \in 0..MaxPolicy
      /\ file.attempts \in [Sessions -> 0..MaxPendingAttempts]
  <2>1. policy \in 0..MaxPolicy
    BY <1>0, SMT DEF DataTypes
  <2> QED
    BY <1>0, <2>1 DEF FileTypes, Files
<1>7. attempts \in [Sessions -> 0..MaxPendingAttempts]
  <2>1. \A s \in Sessions : s \in Range(kept) => file.attempts[s] < MaxPendingAttempts
    BY <1>4
  <2> HIDE DEF kept
  <2> QED
    BY <1>6, <2>1, BuildAssumption, SMT
<1>8. dropped \in SUBSET Sessions
    BY <1>3
<1>9. room \in Int /\ pc \in Labels /\ pc \in {"feed", "walk", "write"}
      /\ (pc = "feed" => file.seq # 0 /\ ~file.walk)
  <2>1. Len(split.now) \in Nat
    <3> HIDE DEF split
    <3> QED
      BY <1>5, SMT
  <2>2. room \in Int
    <3> HIDE DEF split
    <3> QED
      BY <2>1, SMT
  <2> HIDE DEF room
  <2> QED
    BY <2>2, SMT DEF Labels
<1> HIDE DEF split, kept, still, room, pc, attempts, dropped
<1>10. /\ me \in Builds(seq)
       /\ me.pc = pc /\ me.policy = policy /\ me.last = file.seq /\ me.walking = file.walk
       /\ me.sessions = split.now /\ me.rest = split.later /\ me.dropped = dropped
       /\ me.fresh = <<>> /\ me.rows = {} /\ me.examined = {}
  <2>1. Idle \in Builds(seq) /\ Idle.fresh = <<>> /\ Idle.rows = {} /\ Idle.examined = {}
    <3>1. Idle.fresh = <<>> /\ Idle.rows = {} /\ Idle.examined = {}
      BY SMT DEF Idle
    <3> QED
      BY <1>0, <3>1, IdleIsBuild
  <2>2. /\ pc \in Labels /\ policy \in 0..MaxPolicy /\ file.seq \in 0..seq
        /\ file.walk \in BOOLEAN /\ split.now \in Seq(Sessions) /\ split.later \in Seq(Sessions)
        /\ room \in Int /\ attempts \in [Sessions -> 0..MaxPendingAttempts]
        /\ dropped \in SUBSET Sessions
    BY <1>5, <1>6, <1>7, <1>8, <1>9
  <2> QED
    BY <2>1, <2>2 DEF Builds
<1> HIDE DEF me
<1>11. ListsOK(me)
  <2>1. Distinct(<<>>)
    BY SMT DEF Distinct
  <2>2. pc # "rows" /\ pc # "walking" /\ pc \notin Projections
    BY <1>9, SMT DEF Projections
  <2> QED
    BY <1>5, <1>10, <2>1, <2>2 DEF ListsOK
<1>12. me.policy <= policy
    BY <1>0, <1>10, SMT
<1>13. \A s \in Range(PendingIds) : s \in odd \/ NeedsProjection(s, state[s], policy) =>
          s \in Range(me.sessions) \/ s \in Range(me.rest) \/ s \in me.dropped
  <2> SUFFICES ASSUME NEW s \in Range(PendingIds), s \in odd \/ NeedsProjection(s, state[s], policy)
               PROVE  s \in Range(split.now) \/ s \in Range(split.later) \/ s \in Range(still) \ Range(kept)
    BY <1>10 DEF dropped
  <2>1. s \in Range(still)
    BY <1>0, <1>2, PendingLists
  <2> QED
    BY <1>5, <2>1
<1>14. Begun(me, odd)
    BY <1>9, <1>10, <1>13 DEF Begun
<1> QED
    BY <1>1, <1>10, <1>11, <1>12, <1>14 DEF Fits

\* The read of a feed window.
LEMMA ReadFeedMoves ==
    ASSUME TypeInv, NEW b \in Builders, ReadFeed(b)
    PROVE  \E me : /\ Fits(me, seq, policy) /\ Becomes(b, me) /\ Keeps(me, build[b])
                   /\ build[b].pc = "feed" /\ me.pc = "rows"
                   /\ me.rows = RowsAfter(build[b].last) /\ me.last = build[b].last
                   /\ me.fresh = <<>> /\ me.examined = {}
<1> DEFINE old == build[b]
           rows == RowsAfter(old.last)
           me == [old EXCEPT !.pc = "rows", !.rows = rows]
<1>0. old \in Builds(seq) /\ ListsOK(old) /\ old.policy <= policy /\ DataTypes
    BY BuildType
<1>1. Becomes(b, me) /\ old.pc = "feed"
    BY DEF ReadFeed
<1>2. rows \in SUBSET ((0..seq) \X Sessions)
  <2>1. \A s \in Sessions, k \in Kinds : feed[s][k] \in 0..seq
    BY <1>0 DEF DataTypes
  <2>2. \A s \in Sessions, k \in Kinds : <<feed[s][k], s>> \in (0..seq) \X Sessions
    BY <2>1, SMT
  <2> QED
    BY <2>2, SMT DEF RowsAfter
<1> HIDE DEF old, rows
<1>3. /\ me \in Builds(seq) /\ Keeps(me, old) /\ me.pc = "rows" /\ me.rows = rows
      /\ me.last = old.last /\ me.fresh = old.fresh /\ me.examined = old.examined
  <2>1. "rows" \in Labels
    BY SMT DEF Labels
  <2> QED
    BY <1>0, <1>2, <2>1 DEF Builds, Keeps
<1>4. old.fresh = <<>> /\ old.examined = {}
    BY <1>0, <1>1, SMT DEF ListsOK
<1> HIDE DEF me
<1>5. ListsOK(me)
  <2>1. Range(<<>>) = {}
    BY SMT DEF Range
  <2> QED
    BY <1>0, <1>3, <1>4, <2>1, SMT DEF ListsOK, Keeps, Projections
<1>6. Fits(me, seq, policy)
    BY <1>0, <1>3, <1>5 DEF Fits, Keeps
<1> QED
    BY <1>1, <1>3, <1>4, <1>6 DEF old, rows

\* Two lists without a session in common.
LEMMA TwoLists ==
    ASSUME NEW list \in Seq(Sessions), NEW more \in Seq(Sessions), Distinct(list), Distinct(more),
           Range(list) \cap Range(more) = {}
    PROVE  /\ list \o more \in Seq(Sessions) /\ Distinct(list \o more)
           /\ Range(list \o more) = Range(list) \cup Range(more)
BY Concatenated, SMT

\* A list and one more session, or none.
LEMMA Extended ==
    ASSUME NEW list \in Seq(Sessions), Distinct(list), NEW s \in Sessions, NEW cond \in BOOLEAN,
           cond => s \notin Range(list), NEW new, new = IF cond THEN <<s>> ELSE <<>>
    PROVE  /\ list \o new \in Seq(Sessions) /\ Distinct(list \o new)
           /\ Range(list) \subseteq Range(list \o new)
           /\ Range(list \o new) \subseteq Range(list) \cup {s}
           /\ cond => s \in Range(list \o new)
<1>1. new \in Seq(Sessions) /\ Distinct(new) /\ Range(new) = IF cond THEN {s} ELSE {}
    BY SMT DEF Distinct, Range
<1>2. Range(list) \cap Range(new) = {}
    BY <1>1
<1>3. /\ list \o new \in Seq(Sessions) /\ Distinct(list \o new)
      /\ Range(list \o new) = Range(list) \cup Range(new)
    BY <1>1, <1>2, TwoLists
<1> QED
    BY <1>1, <1>3

\* One row of the feed window.
LEMMA ExamineRowMoves ==
    ASSUME TypeInv, NEW b \in Builders, ExamineRow(b)
    PROVE  \E me, row :
               /\ Fits(me, seq, policy) /\ Becomes(b, me) /\ Keeps(me, build[b])
               /\ build[b].pc = "rows" /\ me.pc = "rows"
               /\ row \in NextRow(build[b].rows) /\ row[1] \in Nat /\ row[2] \in Sessions
               /\ me.rows = build[b].rows \ {row} /\ me.last = row[1]
               /\ me.examined = build[b].examined \cup {row[2]}
               /\ Range(build[b].fresh) \subseteq Range(me.fresh)
               /\ row[2] \notin build[b].examined
                    /\ NeedsProjection(row[2], state[row[2]], build[b].policy) =>
                        row[2] \in Range(me.fresh)
<1> DEFINE old == build[b]
           cond(s) == s \notin old.examined /\ NeedsProjection(s, state[s], old.policy)
           new(s) == IF cond(s) THEN <<s>> ELSE <<>>
<1>0. old \in Builds(seq) /\ ListsOK(old) /\ old.policy <= policy /\ seq \in Nat
    BY BuildType
<1>1. PICK row \in NextRow(old.rows) :
          Becomes(b, [old EXCEPT !.rows = old.rows \ {row}, !.examined = old.examined \cup {row[2]},
                                 !.fresh = old.fresh \o new(row[2]), !.last = row[1]])
    BY DEF ExamineRow
<1>2. old.pc = "rows"
    BY DEF ExamineRow
<1>3. row[1] \in 0..seq /\ row[1] \in Nat /\ row[2] \in Sessions
  <2>1. row \in old.rows /\ old.rows \in SUBSET ((0..seq) \X Sessions)
    BY <1>0, <1>1 DEF NextRow, Builds
  <2> QED
    BY <1>0, <2>1, SMT
<1> DEFINE s == row[2]
           fresh == old.fresh \o new(s)
           me == [old EXCEPT !.rows = old.rows \ {row}, !.examined = old.examined \cup {s},
                             !.fresh = fresh, !.last = row[1]]
<1>4. /\ old.fresh \in Seq(Sessions) /\ Distinct(old.fresh) /\ Range(old.fresh) \subseteq old.examined
      /\ old.rows \in SUBSET ((0..seq) \X Sessions) /\ old.examined \in SUBSET Sessions
    BY <1>0, <1>2 DEF Builds, ListsOK
<1>5. /\ fresh \in Seq(Sessions) /\ Distinct(fresh) /\ Range(old.fresh) \subseteq Range(fresh)
      /\ Range(fresh) \subseteq Range(old.fresh) \cup {s}
      /\ cond(s) => s \in Range(fresh)
  <2>1. cond(s) \in BOOLEAN /\ (cond(s) => s \notin Range(old.fresh)) /\ s \in Sessions
    BY <1>3, <1>4 DEF NeedsProjection
  <2> HIDE DEF cond, s, old
  <2> QED
    BY <1>4, <2>1, Extended
<1> HIDE DEF fresh, old
<1>6. /\ me \in Builds(seq) /\ Keeps(me, old) /\ me.pc = old.pc /\ me.rows = old.rows \ {row}
      /\ me.last = row[1] /\ me.examined = old.examined \cup {s} /\ me.fresh = fresh
  <2>1. old.rows \ {row} \in SUBSET ((0..seq) \X Sessions) /\ old.examined \cup {s} \in SUBSET Sessions
    BY <1>3, <1>4
  <2> QED
    BY <1>0, <1>3, <1>5, <2>1 DEF Builds, Keeps
<1> HIDE DEF me
<1>7. ListsOK(me)
  <2>1. Range(fresh) \subseteq old.examined \cup {s}
    BY <1>4, <1>5
  <2> QED
    BY <1>0, <1>2, <1>5, <1>6, <2>1, SMT DEF ListsOK, Keeps, Projections
<1>8. Becomes(b, me)
    BY <1>1 DEF me, fresh, s
<1> QED
    BY <1>0, <1>1, <1>2, <1>3, <1>5, <1>6, <1>7, <1>8 DEF Fits, Keeps, old

\* The end of the feed window.
LEMMA EndFeedMoves ==
    ASSUME TypeInv, NEW b \in Builders, EndFeed(b)
    PROVE  \E me : /\ Fits(me, seq, policy) /\ Becomes(b, me)
                   /\ build[b].pc = "rows" /\ me.pc = "write"
                   /\ Range(me.sessions) = Range(build[b].sessions) \cup Range(build[b].fresh)
                   /\ me.policy = build[b].policy /\ me.rest = build[b].rest
                   /\ me.dropped = build[b].dropped /\ me.last = build[b].last /\ me.rows = {}
<1> DEFINE old == build[b]
           sessions == Joined(old.sessions, old.fresh)
           me == [old EXCEPT !.pc = "write", !.sessions = sessions, !.rows = {}, !.examined = {},
                             !.fresh = <<>>]
<1>0. old \in Builds(seq) /\ ListsOK(old) /\ old.policy <= policy
    BY BuildType
<1>1. Becomes(b, me) /\ old.pc = "rows"
    BY DEF EndFeed
<1>2. /\ sessions \in Seq(Sessions) /\ Distinct(sessions)
      /\ Range(sessions) = Range(old.sessions) \cup Range(old.fresh)
  <2>1. /\ old.sessions \in Seq(Sessions) /\ old.fresh \in Seq(Sessions)
        /\ Distinct(old.sessions) /\ Distinct(old.fresh)
    BY <1>0 DEF Builds, ListsOK
  <2> QED
    BY <2>1, JoinedLists
<1>3. "write" \in Labels /\ <<>> \in Seq(Sessions) /\ Distinct(<<>>)
    BY SMT DEF Labels, Distinct
<1> HIDE DEF old, sessions
<1>4. /\ me \in Builds(seq) /\ me.pc = "write" /\ me.sessions = sessions /\ me.rows = {}
      /\ me.policy = old.policy /\ me.rest = old.rest /\ me.dropped = old.dropped
      /\ me.last = old.last /\ me.fresh = <<>> /\ me.examined = {}
    BY <1>0, <1>2, <1>3 DEF Builds
<1> HIDE DEF me
<1>5. ListsOK(me)
    BY <1>0, <1>2, <1>3, <1>4, SMT DEF ListsOK, Projections
<1>6. Fits(me, seq, policy)
    BY <1>0, <1>4, <1>5 DEF Fits
<1> QED
    BY <1>1, <1>2, <1>4, <1>6 DEF old

\* A feed that cannot be read: the build walks instead.
LEMMA FeedFailsMoves ==
    ASSUME TypeInv, NEW b \in Builders, FeedFails(b)
    PROVE  \E me : /\ Fits(me, seq, policy) /\ Becomes(b, me)
                   /\ build[b].pc \in {"feed", "rows"} /\ me.pc = "walk"
                   /\ me.policy = build[b].policy /\ me.rows = {}
<1> DEFINE old == build[b]
           me == [old EXCEPT !.pc = "walk", !.rows = {}, !.examined = {}, !.fresh = <<>>]
<1>0. old \in Builds(seq) /\ ListsOK(old) /\ old.policy <= policy
    BY BuildType
<1>1. Becomes(b, me) /\ old.pc \in {"feed", "rows"}
    BY DEF FeedFails
<1>2. "walk" \in Labels /\ <<>> \in Seq(Sessions) /\ Distinct(<<>>)
    BY SMT DEF Labels, Distinct
<1> HIDE DEF old
<1>3. /\ me \in Builds(seq) /\ me.pc = "walk" /\ me.rows = {} /\ me.policy = old.policy
      /\ me.sessions = old.sessions /\ me.rest = old.rest /\ me.fresh = <<>> /\ me.examined = {}
    BY <1>0, <1>2 DEF Builds
<1> HIDE DEF me
<1>4. ListsOK(me)
    BY <1>0, <1>2, <1>3, SMT DEF ListsOK, Projections
<1>5. Fits(me, seq, policy)
    BY <1>0, <1>3, <1>4 DEF Fits
<1> QED
    BY <1>1, <1>3, <1>5 DEF old

\* The beginning of a walk over every session.
LEMMA BeginWalkMoves ==
    ASSUME TypeInv, NEW b \in Builders, BeginWalk(b)
    PROVE  \E me : /\ Fits(me, seq, policy) /\ Becomes(b, me) /\ Keeps(me, build[b])
                   /\ build[b].pc = "walk" /\ me.pc = "walking"
                   /\ me.cursor = 1 /\ me.states = state /\ me.rows = build[b].rows
<1> DEFINE old == build[b]
<1>0. old \in Builds(seq) /\ ListsOK(old) /\ old.policy <= policy /\ DataTypes /\ seq \in Nat
    BY BuildType
<1>1. PICK known \in BOOLEAN :
          Becomes(b, [old EXCEPT !.pc = "walking", !.cursor = 1, !.states = state,
                                 !.last = IF known THEN seq ELSE 0])
    BY DEF BeginWalk
<1>2. old.pc = "walk"
    BY DEF BeginWalk
<1> DEFINE last == IF known THEN seq ELSE 0
           me == [old EXCEPT !.pc = "walking", !.cursor = 1, !.states = state, !.last = last]
<1>3. Becomes(b, me)
    BY <1>1
<1>4. "walking" \in Labels /\ 1 \in Nat /\ last \in 0..seq /\ state \in [Sessions -> States]
    BY <1>0, SMT DEF Labels, DataTypes
<1> HIDE DEF old, last
<1>5. /\ me \in Builds(seq) /\ Keeps(me, old) /\ me.pc = "walking" /\ me.cursor = 1
      /\ me.states = state /\ me.rows = old.rows /\ me.fresh = old.fresh /\ me.examined = old.examined
    BY <1>0, <1>4 DEF Builds, Keeps
<1> HIDE DEF me
<1>6. ListsOK(me)
  <2>1. old.fresh = <<>> /\ old.examined = {} /\ Range(<<>>) = {}
    BY <1>0, <1>2, SMT DEF ListsOK, Range
  <2>2. 1 \in 1..(Len(WalkOrder) + 1)
    BY BuildAssumption, SMT
  <2> QED
    BY <1>0, <1>5, <2>1, <2>2, SMT DEF ListsOK, Keeps, Projections
<1>7. Fits(me, seq, policy)
    BY <1>0, <1>5, <1>6 DEF Fits, Keeps
<1> QED
    BY <1>2, <1>3, <1>5, <1>7 DEF old

\* One session of the walk.
LEMMA WalkSessionMoves ==
    ASSUME TypeInv, NEW b \in Builders, WalkSession(b)
    PROVE  \E me, s :
               /\ Fits(me, seq, policy) /\ Becomes(b, me) /\ Keeps(me, build[b])
               /\ build[b].pc = "walking" /\ me.pc = "walking"
               /\ build[b].cursor \in 1..Len(WalkOrder) /\ s = WalkOrder[build[b].cursor]
               /\ s \in Sessions
               /\ me.cursor = build[b].cursor + 1 /\ me.states = build[b].states
               /\ me.last = build[b].last /\ me.rows = build[b].rows
               /\ Range(build[b].fresh) \subseteq Range(me.fresh)
               /\ NeedsProjection(s, build[b].states[s], build[b].policy) => s \in Range(me.fresh)
<1> DEFINE old == build[b]
           s == WalkOrder[old.cursor]
           cond == NeedsProjection(s, old.states[s], old.policy)
           fresh == old.fresh \o (IF cond THEN <<s>> ELSE <<>>)
           me == [old EXCEPT !.cursor = old.cursor + 1, !.fresh = fresh]
<1>0. old \in Builds(seq) /\ ListsOK(old) /\ old.policy <= policy
    BY BuildType
<1>1. Becomes(b, me) /\ old.pc = "walking" /\ old.cursor <= Len(WalkOrder)
    BY DEF WalkSession
<1>2. /\ old.cursor \in 1..(Len(WalkOrder) + 1) /\ old.fresh \in Seq(Sessions) /\ Distinct(old.fresh)
      /\ Range(old.fresh) \subseteq {WalkOrder[i] : i \in 1..(old.cursor - 1)}
    BY <1>0, <1>1 DEF ListsOK, Builds
<1>w. /\ Len(WalkOrder) \in Nat /\ DOMAIN WalkOrder = 1..Len(WalkOrder)
      /\ \A i \in 1..Len(WalkOrder) : WalkOrder[i] \in Sessions
    BY BuildAssumption, SMT
<1>3. old.cursor \in 1..Len(WalkOrder) /\ old.cursor \in Nat /\ s \in Sessions
    BY <1>1, <1>2, <1>w, SMT
<1>4. s \notin Range(old.fresh)
  <2> SUFFICES ASSUME s \in Range(old.fresh) PROVE FALSE
    OBVIOUS
  <2>1. PICK i \in 1..(old.cursor - 1) : WalkOrder[i] = s
    BY <1>2
  <2>2. i \in 1..Len(WalkOrder) /\ i # old.cursor
    BY <1>3, <1>w, SMT
  <2> QED
    BY <1>3, <1>w, <2>1, <2>2, BuildAssumption DEF Distinct
<1>5. /\ fresh \in Seq(Sessions) /\ Distinct(fresh) /\ Range(old.fresh) \subseteq Range(fresh)
      /\ Range(fresh) \subseteq Range(old.fresh) \cup {s} /\ (cond => s \in Range(fresh))
  <2>1. cond \in BOOLEAN
    BY SMT DEF NeedsProjection
  <2> HIDE DEF cond, s, old
  <2> QED
    BY <1>2, <1>3, <1>4, <2>1, Extended
<1> HIDE DEF fresh, old
<1>6. /\ me \in Builds(seq) /\ Keeps(me, old) /\ me.pc = old.pc /\ me.cursor = old.cursor + 1
      /\ me.fresh = fresh /\ me.states = old.states /\ me.last = old.last /\ me.rows = old.rows
      /\ me.examined = old.examined
  <2>1. old.cursor + 1 \in Nat
    BY <1>3, SMT
  <2> QED
    BY <1>0, <1>5, <2>1 DEF Builds, Keeps
<1> HIDE DEF me
<1>7. ListsOK(me)
  <2>1. me.cursor \in 1..(Len(WalkOrder) + 1) /\ me.cursor - 1 = old.cursor
        /\ old.cursor \in 1..old.cursor /\ 1..(old.cursor - 1) \subseteq 1..old.cursor
    BY <1>3, <1>6, <1>w, SMT
  <2>2. Range(fresh) \subseteq {WalkOrder[i] : i \in 1..(me.cursor - 1)}
    BY <1>2, <1>5, <2>1
  <2> QED
    BY <1>0, <1>1, <1>5, <1>6, <2>1, <2>2, SMT DEF ListsOK, Keeps, Projections
<1>8. Fits(me, seq, policy)
    BY <1>0, <1>6, <1>7 DEF Fits, Keeps
<1>9. me.pc = "walking"
    BY <1>1, <1>6
<1> QED
    BY <1>1, <1>3, <1>5, <1>6, <1>8, <1>9 DEF old

\* The end of the walk, or its cut at the limit.
LEMMA EndWalkMoves ==
    ASSUME TypeInv, NEW b \in Builders, EndWalk(b)
    PROVE  \E me : /\ Fits(me, seq, policy) /\ Becomes(b, me)
                   /\ build[b].pc = "walking" /\ me.pc = "write"
                   /\ Range(me.sessions) = Range(build[b].sessions) \cup Range(build[b].fresh)
                   /\ me.policy = build[b].policy /\ me.rest = build[b].rest
                   /\ me.dropped = build[b].dropped /\ me.rows = build[b].rows
                   /\ me.walking \/ (me.last = build[b].last /\ build[b].cursor > Len(WalkOrder))
<1> DEFINE old == build[b]
           capped == ~Room(b, old.fresh)
           sessions == Joined(old.sessions, old.fresh)
           last == IF capped THEN 0 ELSE EndWalkSequence(b)
           states == [s \in Sessions |-> NoState]
           me == [old EXCEPT !.pc = "write", !.sessions = sessions, !.last = last,
                             !.walking = capped, !.cursor = 0, !.fresh = <<>>, !.states = states]
<1>0. old \in Builds(seq) /\ ListsOK(old) /\ old.policy <= policy /\ seq \in Nat
    BY BuildType
<1>1. Becomes(b, me) /\ old.pc = "walking" /\ (old.cursor > Len(WalkOrder) \/ capped)
    BY DEF EndWalk
<1>2. /\ sessions \in Seq(Sessions) /\ Distinct(sessions)
      /\ Range(sessions) = Range(old.sessions) \cup Range(old.fresh)
  <2>1. /\ old.sessions \in Seq(Sessions) /\ old.fresh \in Seq(Sessions)
        /\ Distinct(old.sessions) /\ Distinct(old.fresh)
    BY <1>0 DEF Builds, ListsOK
  <2> QED
    BY <2>1, JoinedLists
<1>3. "write" \in Labels /\ <<>> \in Seq(Sessions) /\ Distinct(<<>>) /\ 0 \in Nat /\ 0 \in 0..seq
    BY <1>0, SMT DEF Labels, Distinct
<1>4. states \in [Sessions -> States]
    BY <1>0, IdleIsBuild
<1>5. last \in 0..seq /\ capped \in BOOLEAN /\ (~capped => last = old.last)
    BY <1>0, <1>3 DEF EndWalkSequence, Builds, Room
<1> HIDE DEF old, sessions, last, capped, states
<1>6. /\ me \in Builds(seq) /\ me.pc = "write" /\ me.sessions = sessions /\ me.rows = old.rows
      /\ me.policy = old.policy /\ me.rest = old.rest /\ me.dropped = old.dropped
      /\ me.last = last /\ me.walking = capped /\ me.fresh = <<>> /\ me.examined = old.examined
    BY <1>0, <1>2, <1>3, <1>4, <1>5 DEF Builds
<1> HIDE DEF me
<1>7. ListsOK(me)
    BY <1>0, <1>1, <1>2, <1>3, <1>6, SMT DEF ListsOK, Projections
<1>8. Fits(me, seq, policy)
    BY <1>0, <1>6, <1>7 DEF Fits
<1> QED
    BY <1>1, <1>2, <1>5, <1>6, <1>8 DEF old

\* The records of a build that projects its list, or has ended.
Projector(pc, v, list) == [Idle EXCEPT !.pc = pc, !.policy = v, !.sessions = list]

\* The record of a build that projects, or has ended, is well-formed.
LEMMA FreshRecord ==
    ASSUME TypeInv, NEW list \in Seq(Sessions), Distinct(list), NEW v \in 0..MaxPolicy, v <= policy,
           NEW pc \in {"idle", "cover"}, pc = "cover" => list # <<>>
    PROVE  LET me == Projector(pc, v, list)
           IN  Fits(me, seq, policy) /\ me.pc = pc /\ me.policy = v /\ me.rows = {}
<1> DEFINE me == Projector(pc, v, list)
<1>1. seq \in Nat
    BY TypeParts DEF DataTypes
<1>2. Idle \in Builds(seq) /\ ListsOK(Idle)
    BY <1>1, IdleIsBuild
<1>3. /\ pc \in Labels /\ Idle.rows = {} /\ Idle.rest = <<>> /\ Idle.fresh = <<>>
      /\ Idle.examined = {} /\ pc \notin {"rows", "walking"}
    BY SMT DEF Labels, Idle
<1>4. /\ me \in Builds(seq) /\ me.pc = pc /\ me.policy = v /\ me.rows = {} /\ me.sessions = list
      /\ me.rest = <<>> /\ me.fresh = <<>> /\ me.examined = {}
    BY <1>2, <1>3 DEF Builds, Projector
<1>5. Distinct(<<>>)
    BY SMT DEF Distinct
<1> HIDE DEF me
<1>6. ListsOK(me)
    BY <1>3, <1>4, <1>5, SMT DEF ListsOK, Projections
<1>7. Fits(me, seq, policy)
    BY <1>4, <1>6 DEF Fits
<1> QED
    BY <1>4, <1>7 DEF me

\* From the checkpoint to the first projection, or to the end.
LEMMA ProjectingMoves ==
    ASSUME TypeInv, NEW b \in Builders, Projecting(b)
    PROVE  GoesOn(b)
<1> DEFINE old == build[b]
           pc == IF old.sessions = <<>> THEN "idle" ELSE "cover"
           me == Projector(pc, old.policy, old.sessions)
<1>1. /\ old.sessions \in Seq(Sessions) /\ Distinct(old.sessions)
      /\ old.policy \in 0..MaxPolicy /\ old.policy <= policy
    BY BuildType DEF Builds, ListsOK
<1>2. pc \in {"idle", "cover"} /\ (pc = "cover" => old.sessions # <<>>)
    BY SMT
<1>3. Becomes(b, me)
    BY DEF Projecting, Projector
<1> HIDE DEF old, pc
<1>4. Fits(me, seq, policy) /\ me.pc = pc /\ me.policy = old.policy /\ me.rows = {}
    BY <1>1, <1>2, FreshRecord, SMT
<1> HIDE DEF me
<1> QED
    BY <1>2, <1>3, <1>4 DEF GoesOn, old

\* A build that ends.
LEMMA Ends ==
    ASSUME TypeInv, NEW b \in Builders, Becomes(b, Idle)
    PROVE  GoesOn(b)
<1>1. DataTypes
    BY TypeParts
<1>2. seq \in Nat /\ policy \in Nat
    BY <1>1, BuildAssumption, SMT DEF DataTypes
<1>3. Idle.pc = "idle" /\ Idle.rows = {} /\ Idle.policy <= policy
    BY <1>2, SMT DEF Idle
<1> QED
    BY <1>2, <1>3, IdleIsBuild, SMT DEF GoesOn, Fits

\* From one session to the next, or to the end.
LEMMA NextSessionMoves ==
    ASSUME TypeInv, NEW b \in Builders, NextSession(b), build[b].pc \in Projections
    PROVE  GoesOn(b)
<1> DEFINE old == build[b]
           left == Tail(old.sessions)
           me == Projector("cover", old.policy, left)
<1>1. /\ old.sessions \in Seq(Sessions) /\ Distinct(old.sessions) /\ old.sessions # <<>>
      /\ old.policy \in 0..MaxPolicy /\ old.policy <= policy
    BY BuildType DEF Builds, ListsOK
<1>2. left \in Seq(Sessions) /\ Distinct(left)
  <2> HIDE DEF old
  <2> QED
    BY <1>1, SMTT(20) DEF Distinct
<1>3. CASE left = <<>>
  <2>1. Becomes(b, Idle)
    BY <1>3 DEF NextSession
  <2> QED
    BY <2>1, Ends
<1>4. CASE left # <<>>
  <2>1. Becomes(b, me) /\ "cover" \in {"idle", "cover"}
    BY <1>4 DEF NextSession, Projector
  <2> HIDE DEF left, old
  <2>2. Fits(me, seq, policy) /\ me.pc = "cover" /\ me.policy = old.policy /\ me.rows = {}
    BY <1>1, <1>2, <1>4, <2>1, FreshRecord
  <2> HIDE DEF me
  <2> QED
    BY <2>1, <2>2 DEF GoesOn, old
<1> QED
    BY <1>3, <1>4

\* A projection of the same session, with what is known of it.
Advances(me, old) ==
    /\ me.sessions = old.sessions /\ me.policy = old.policy /\ me.rows = old.rows

\* The next step of the projection of a session.
LEMMA NextLabel ==
    ASSUME TypeInv, NEW b \in Builders, build[b].pc \in Projections, NEW pc \in Projections
    PROVE  LET me == [build[b] EXCEPT !.pc = pc]
           IN  /\ Fits(me, seq, policy) /\ Advances(me, build[b]) /\ me.pc = pc
               /\ me.revision = build[b].revision /\ me.outcome = build[b].outcome
<1> DEFINE old == build[b]
           me == [old EXCEPT !.pc = pc]
<1>0. old \in Builds(seq) /\ ListsOK(old) /\ old.policy <= policy
    BY BuildType
<1>1. pc \in Labels /\ pc \notin {"rows", "walking"} /\ old.pc \notin {"rows", "walking"}
    BY SMT DEF Labels, Projections
<1> HIDE DEF old
<1>2. /\ me \in Builds(seq) /\ Advances(me, old) /\ me.pc = pc /\ me.revision = old.revision
      /\ me.outcome = old.outcome /\ me.rest = old.rest /\ me.fresh = old.fresh
      /\ me.examined = old.examined
    BY <1>0, <1>1 DEF Builds, Advances
<1> HIDE DEF me
<1>3. old.pc \in Projections
    BY DEF old
<1>4. ListsOK(me)
    BY <1>0, <1>1, <1>2, <1>3, SMT DEF ListsOK, Advances
<1>5. Fits(me, seq, policy)
    BY <1>0, <1>2, <1>4 DEF Fits, Advances
<1> QED
    BY <1>2, <1>5 DEF me, old

Found(old, r, result) == [old EXCEPT !.pc = "check", !.revision = r, !.outcome = result]

\* The record with the result of a projection.
LEMMA ResultRecord ==
    ASSUME TypeInv, NEW b \in Builders, build[b].pc \in Projections,
           NEW r \in Revisions, NEW result \in Outcomes
    PROVE  LET me == Found(build[b], r, result)
           IN  /\ Fits(me, seq, policy) /\ Advances(me, build[b]) /\ me.pc = "check"
               /\ me.revision = r /\ me.outcome = result
<1> DEFINE old == build[b]
           me == Found(old, r, result)
<1>0. old \in Builds(seq) /\ ListsOK(old) /\ old.policy <= policy
    BY BuildType
<1>1. "check" \in Labels /\ "check" \in Projections /\ old.pc \notin {"rows", "walking"}
    BY SMT DEF Labels, Projections
<1> HIDE DEF old
<1>2. /\ me \in Builds(seq) /\ Advances(me, old) /\ me.pc = "check" /\ me.revision = r
      /\ me.outcome = result /\ me.rest = old.rest /\ me.fresh = old.fresh
      /\ me.examined = old.examined
    BY <1>0, <1>1 DEF Builds, Advances, Found
<1> HIDE DEF me
<1>3. old.pc \in Projections
    BY DEF old
<1>4. ListsOK(me)
    BY <1>0, <1>1, <1>2, <1>3, SMT DEF ListsOK, Advances
<1>5. Fits(me, seq, policy)
    BY <1>0, <1>2, <1>4 DEF Fits, Advances
<1> QED
    BY <1>2, <1>5 DEF me, old

\* A build that projects has a session to project.
LEMMA CurrentIsSession ==
    ASSUME TypeInv, NEW b \in Builders, build[b].pc \in Projections
    PROVE  Current(b) \in Sessions /\ Current(b) = Head(build[b].sessions)
<1>1. build[b].sessions \in Seq(Sessions) /\ build[b].sessions # <<>>
    BY BuildType DEF Builds, ListsOK
<1> QED
    BY <1>1, SMT DEF Current

\* What a projection writes into the document.
LEMMA AttemptDoc ==
    ASSUME TypeInv, NEW b \in Builders, NEW doc \in States
    PROVE  LET new == WithAttempt(doc, b)
               me == build[b]
           IN  /\ new \in States
               /\ new.projected = doc.projected
               /\ new.attempt = [outcome |-> me.outcome, revision |-> me.revision, policy |-> me.policy]
               /\ me.outcome = "rejected" => new.terminal = me.policy
               /\ me.outcome = "projected" => new.terminal = 0
               /\ me.outcome \notin {"rejected", "projected"} => new.terminal = doc.terminal
<1> DEFINE me == build[b]
           attempt == [outcome |-> me.outcome, revision |-> me.revision, policy |-> me.policy]
           terminal == CASE me.outcome = "rejected" -> me.policy
                         [] me.outcome = "projected" -> 0
                         [] OTHER -> doc.terminal
           new == [doc EXCEPT !.attempt = attempt, !.terminal = terminal]
<1>1. me.outcome \in Outcomes /\ me.revision \in Revisions /\ me.policy \in 0..MaxPolicy
    BY BuildType DEF Builds
<1>2. attempt \in Attempts
    BY <1>1 DEF Attempts
<1>3. /\ terminal \in 0..MaxPolicy
      /\ me.outcome = "rejected" => terminal = me.policy
      /\ me.outcome = "projected" => terminal = 0
      /\ me.outcome \notin {"rejected", "projected"} => terminal = doc.terminal
  <2>1. doc.terminal \in 0..MaxPolicy /\ 0 \in 0..MaxPolicy
    BY BuildAssumption, SMT DEF States
  <2> HIDE DEF me
  <2> QED
    BY <1>1, <2>1, SMT
<1>4. WithAttempt(doc, b) = new
    BY DEF WithAttempt
<1> HIDE DEF attempt, terminal, me
<1>5. new \in States /\ new.projected = doc.projected /\ new.attempt = attempt /\ new.terminal = terminal
    BY <1>2, <1>3 DEF States
<1> QED
    BY <1>3, <1>4, <1>5 DEF attempt, me

\* A document with the receipt of a projection.
LEMMA ReceiptDoc ==
    ASSUME TypeInv, NEW b \in Builders, NEW doc \in States
    PROVE  LET new == Receipt(doc, b)
               me == build[b]
           IN  /\ new \in States
               /\ new.projected = IF me.outcome = "projected" THEN me.revision ELSE doc.projected
               /\ new.attempt = doc.attempt /\ new.terminal = doc.terminal
<1> DEFINE me == build[b]
           projected == IF me.outcome = "projected" THEN me.revision ELSE 0
           new == [doc EXCEPT !.projected = projected, !.dataError = me.outcome = "data_error"]
<1>1. me.revision \in Revisions /\ 0 \in Revisions
    BY BuildType, RevisionsAreNumbers DEF Builds
<1>2. projected \in Revisions /\ (me.outcome = "data_error") \in BOOLEAN
    BY <1>1
<1>3. CASE me.outcome # "projected" /\ doc.projected # 0
    BY <1>3 DEF Receipt
<1>4. CASE ~(me.outcome # "projected" /\ doc.projected # 0)
  <2>1. Receipt(doc, b) = new
    BY <1>4 DEF Receipt
  <2>2. projected = IF me.outcome = "projected" THEN me.revision ELSE doc.projected
    BY <1>4
  <2> HIDE DEF projected
  <2>3. /\ new \in States /\ new.projected = projected /\ new.attempt = doc.attempt
        /\ new.terminal = doc.terminal
    BY <1>2 DEF States
  <2> QED
    BY <2>1, <2>2, <2>3
<1> QED
    BY <1>3, <1>4

\* A projection of the current revision: what both outcomes of the projector have in common.
Finds(b) ==
    \E me : /\ Fits(me, seq, policy) /\ Becomes(b, me) /\ Advances(me, build[b])
            /\ build[b].pc = "project" /\ me.pc = "check" /\ me.revision = source[Current(b)]
            /\ me.outcome = "rejected" =>
                  <<Current(b), source[Current(b)], build[b].policy>> \in Rejected

\* A projection ends in a result for the current revision.
LEMMA ProjectMoves ==
    ASSUME TypeInv, NEW b \in Builders, Project(b)
    PROVE  Finds(b) /\ chunks' \in [Sessions -> [Revisions -> Nat]]
<1> DEFINE s == Current(b)
           r == source[s]
           done == chunks[s][r] + 1
           result == IF ~(coverage[s] = r) THEN "failed"
                     ELSE IF <<s, r, build[b].policy>> \in Rejected THEN "rejected"
                     ELSE IF done < ChunkCount[s] THEN "pending" ELSE "projected"
           me == Found(build[b], r, result)
<1>1. /\ build[b].pc = "project" /\ Becomes(b, me)
      /\ chunks' = IF result = "pending" THEN [chunks EXCEPT ![s][r] = done] ELSE chunks
    BY DEF Project, Found
<1>2. build[b].pc \in Projections
    BY <1>1 DEF Projections
<1>3. s \in Sessions /\ r \in Revisions /\ chunks \in [Sessions -> [Revisions -> Nat]]
    BY <1>2, CurrentIsSession, TypeParts DEF DataTypes
<1>4. result \in Outcomes /\ (result = "rejected" => <<s, r, build[b].policy>> \in Rejected)
    BY SMT DEF Outcomes
<1> HIDE DEF result, s, r
<1>5. /\ Fits(me, seq, policy) /\ Advances(me, build[b]) /\ me.pc = "check"
      /\ me.revision = r /\ me.outcome = result
    BY <1>2, <1>3, <1>4, ResultRecord, SMT
<1>6. chunks' \in [Sessions -> [Revisions -> Nat]]
    BY <1>1, <1>3, SMT
<1> HIDE DEF me
<1> QED
    BY <1>1, <1>4, <1>5, <1>6 DEF Finds, s, r

\* So does one whose projector fails.
LEMMA ProjectorFailsMoves ==
    ASSUME TypeInv, NEW b \in Builders, ProjectorFails(b)
    PROVE  Finds(b)
<1> DEFINE r == source[Current(b)]
           new(result) == Found(build[b], r, result)
<1>1. PICK result \in {"failed", "data_error"} : Becomes(b, new(result))
    BY DEF ProjectorFails, Found
<1>2. build[b].pc = "project" /\ build[b].pc \in Projections
    BY DEF ProjectorFails, Projections
<1>3. r \in Revisions
    BY <1>2, CurrentIsSession, TypeParts DEF DataTypes
<1>4. result \in Outcomes /\ result # "rejected"
    BY <1>1, SMT DEF Outcomes
<1> HIDE DEF r
<1>5. /\ Fits(new(result), seq, policy) /\ Advances(new(result), build[b])
      /\ new(result).pc = "check" /\ new(result).revision = r /\ new(result).outcome = result
    BY <1>2, <1>3, <1>4, ResultRecord, SMT
<1> HIDE DEF new
<1> QED
    BY <1>1, <1>2, <1>4, <1>5 DEF Finds, r

\* The checkpoint that a build writes.
LEMMA CheckpointTypes ==
    ASSUME TypeInv, NEW b \in Builders
    PROVE  LET new == NewCheckpoint(b)
               me == build[b]
           IN  /\ new \in Files(seq, policy) /\ Distinct(new.pending)
               /\ Range(new.pending) = Range(me.rest) \cup Range(me.sessions)
               /\ new.seq = me.last /\ new.walk = me.walking /\ new.policy = me.policy
<1> DEFINE me == build[b]
           pending == Joined(me.rest, me.sessions)
           attempts == [s \in Sessions |-> IF s \in Range(pending) THEN me.attempts[s] ELSE 0]
           new == [seq |-> me.last, pending |-> pending, walk |-> me.walking, policy |-> me.policy,
                   attempts |-> attempts]
<1>1. /\ me.rest \in Seq(Sessions) /\ Distinct(me.rest) /\ me.sessions \in Seq(Sessions)
      /\ Distinct(me.sessions) /\ me.last \in 0..seq /\ me.walking \in BOOLEAN
      /\ me.policy \in 0..MaxPolicy /\ me.policy <= policy /\ policy \in Nat
      /\ me.attempts \in [Sessions -> 0..MaxPendingAttempts]
    BY BuildType DEF Builds, ListsOK
<1>2. NewCheckpoint(b) = new
    BY DEF NewCheckpoint
<1> HIDE DEF me
<1>3. /\ pending \in Seq(Sessions) /\ Distinct(pending)
      /\ Range(pending) = Range(me.rest) \cup Range(me.sessions)
    BY <1>1, JoinedLists
<1>4. me.policy \in 0..policy
    BY <1>1, BuildAssumption, SMT
<1>5. attempts \in [Sessions -> 0..MaxPendingAttempts]
  <2> HIDE DEF pending
  <2> QED
    BY <1>1, BuildAssumption, SMT
<1> HIDE DEF pending, attempts
<1>6. /\ new \in Files(seq, policy) /\ new.pending = pending /\ new.seq = me.last
      /\ new.walk = me.walking /\ new.policy = me.policy
    BY <1>1, <1>3, <1>4, <1>5, SMT DEF Files
<1> HIDE DEF new
<1> QED
    BY <1>2, <1>3, <1>6 DEF me

\* The checkpoint that is read from a file that is torn or gone.
LEMMA NoCheckpointType ==
    ASSUME TypeInv
    PROVE  /\ NoCheckpoint \in Files(seq, policy) /\ Distinct(NoCheckpoint.pending)
           /\ NoCheckpoint.seq = 0 /\ NoCheckpoint.policy = 0
<1>1. seq \in Nat /\ policy \in Nat
    BY TypeParts, BuildAssumption, SMT DEF DataTypes
<1> QED
    BY <1>1, BuildAssumption, SMT DEF NoCheckpoint, Files, Distinct

\* Faults are counted.
LEMMA FaultTypes ==
    ASSUME DataTypes, NEW kind, Fault(kind)
    PROVE  faults' \in 0..MaxFaults
BY BuildAssumption, SMT DEF DataTypes, Fault

\* A step of a build that writes neither source, receipts nor checkpoint.
LEMMA SelectionTypes ==
    ASSUME TypeInv, NEW b \in Builders, Moves(b), UNCHANGED <<db, state, chunks, file, policy, losses>>,
           faults' \in 0..MaxFaults
    PROVE  TypeInv'
<1>1. DataTypes
    BY TypeParts
<1>2. UNCHANGED <<source, coverage, seq, feed, state, chunks, file, policy, gaveUp, erased>>
    BY DEF db, losses
<1>3. DataTypes' /\ seq <= seq' /\ policy <= policy'
  <2>1. DataTypes'
    BY <1>1, <1>2 DEF DataTypes
  <2> QED
    BY <1>1, <1>2, <2>1, SMT DEF DataTypes
<1>4. FileTypes'
    BY <1>2, <1>3, SameFile
<1> QED
    BY <1>3, <1>4, Composed

\* A step that writes a document of the projection state.
LEMMA StateTypes ==
    ASSUME TypeInv, NEW b \in Builders, Moves(b), UNCHANGED <<db, chunks, file, policy, losses, faults>>,
           state' \in [Sessions -> States]
    PROVE  TypeInv'
<1>1. DataTypes
    BY TypeParts
<1>2. UNCHANGED <<source, coverage, seq, feed, chunks, file, policy, gaveUp, erased, faults>>
    BY DEF db, losses
<1>3. DataTypes' /\ seq <= seq' /\ policy <= policy'
  <2>1. DataTypes'
    BY <1>1, <1>2 DEF DataTypes
  <2> QED
    BY <1>1, <1>2, <2>1, SMT DEF DataTypes
<1>4. FileTypes'
    BY <1>2, <1>3, SameFile
<1> QED
    BY <1>3, <1>4, Composed

\* A step that rewrites the checkpoint.
LEMMA CheckpointStepTypes ==
    ASSUME TypeInv, NEW b \in Builders, Moves(b), UNCHANGED <<db, state, chunks, policy, erased>>,
           faults' \in 0..MaxFaults, gaveUp' \in [Sessions -> Revisions],
           file' \in Files(seq, policy), Distinct(file'.pending)
    PROVE  TypeInv'
<1>1. DataTypes
    BY TypeParts
<1>2. UNCHANGED <<source, coverage, seq, feed, state, chunks, policy, erased>>
    BY DEF db
<1>3. DataTypes' /\ seq <= seq' /\ policy <= policy'
  <2>1. DataTypes'
    BY <1>1, <1>2 DEF DataTypes
  <2> QED
    BY <1>1, <1>2, <2>1, SMT DEF DataTypes
<1>4. FileTypes'
    BY <1>2 DEF FileTypes
<1> QED
    BY <1>3, <1>4, Composed

\* A build that goes on has a well-formed record.
LEMMA GoesOnMoves ==
    ASSUME NEW b \in Builders, GoesOn(b)
    PROVE  Moves(b)
BY DEF GoesOn, Moves

\* The start of a build keeps the types.
LEMMA StartTypes ==
    ASSUME TypeInv, NEW b \in Builders, Start(b)
    PROVE  TypeInv'
<1>1. DataTypes
    BY TypeParts
<1>2. PICK limit \in Limits, mode \in Modes :
          \/ Begin(b, limit, mode, {}) /\ UNCHANGED faults
          \/ \E s \in Range(PendingIds) : Fault("read") /\ Begin(b, limit, mode, {s})
    BY DEF Start
<1>3. PICK odd : Begin(b, limit, mode, odd)
    BY <1>2
<1>4. limit \in Nat
    BY BuildAssumption
<1>5. Moves(b)
    BY <1>3, <1>4, BeginMoves DEF Moves
<1>6. UNCHANGED <<db, state, chunks, file, policy, losses>>
    BY <1>3 DEF Begin
<1>7. faults' \in 0..MaxFaults
    BY <1>1, <1>2, FaultTypes DEF DataTypes
<1> QED
    BY <1>5, <1>6, <1>7, SelectionTypes

\* So does the rest of the selection.
LEMMA SelectTypes ==
    ASSUME TypeInv, NEW b \in Builders,
           \/ ReadFeed(b) \/ ExamineRow(b) \/ EndFeed(b) \/ FeedFails(b)
           \/ BeginWalk(b) \/ WalkSession(b) \/ EndWalk(b)
    PROVE  TypeInv'
<1>0. DataTypes
    BY TypeParts
<1>1. Moves(b)
  <2>1. CASE ReadFeed(b)
    BY <2>1, ReadFeedMoves DEF Moves
  <2>2. CASE ExamineRow(b)
    BY <2>2, ExamineRowMoves DEF Moves
  <2>3. CASE EndFeed(b)
    BY <2>3, EndFeedMoves DEF Moves
  <2>4. CASE FeedFails(b)
    BY <2>4, FeedFailsMoves DEF Moves
  <2>5. CASE BeginWalk(b)
    BY <2>5, BeginWalkMoves DEF Moves
  <2>6. CASE WalkSession(b)
    BY <2>6, WalkSessionMoves DEF Moves
  <2>7. CASE EndWalk(b)
    BY <2>7, EndWalkMoves DEF Moves
  <2> QED
    BY <2>1, <2>2, <2>3, <2>4, <2>5, <2>6, <2>7
<1>2. UNCHANGED <<db, state, chunks, file, policy, losses>>
    BY DEF ReadFeed, ExamineRow, EndFeed, FeedFails, BeginWalk, WalkSession, EndWalk
<1>3. faults' \in 0..MaxFaults
  <2>1. faults' = faults \/ \E kind : Fault(kind)
    BY DEF ReadFeed, ExamineRow, EndFeed, FeedFails, BeginWalk, WalkSession, EndWalk
  <2> QED
    BY <1>0, <2>1, FaultTypes DEF DataTypes
<1> QED
    BY <1>1, <1>2, <1>3, SelectionTypes

\* So does the checkpoint, written, failed or torn.
LEMMA WriteTypes ==
    ASSUME TypeInv, NEW b \in Builders, WriteCheckpoint(b) \/ WriteFails(b) \/ Killed(b)
    PROVE  TypeInv' /\ GoesOn(b)
<1>0. DataTypes /\ file \in Files(seq, policy) /\ Distinct(file.pending)
    BY TypeParts DEF FileTypes
<1>1. GoesOn(b)
    BY ProjectingMoves, Ends DEF WriteCheckpoint, WriteFails, Killed
<1>2. Moves(b)
    BY <1>1, GoesOnMoves
<1>3. UNCHANGED <<db, state, chunks, policy, erased>>
    BY DEF WriteCheckpoint, WriteFails, Killed, losses
<1>4. faults' \in 0..MaxFaults
    BY <1>0, FaultTypes DEF DataTypes, WriteCheckpoint, WriteFails, Killed
<1>5. file' \in Files(seq, policy) /\ Distinct(file'.pending)
  <2>1. file' = NewCheckpoint(b) \/ file' = file \/ file' = NoCheckpoint
    BY DEF WriteCheckpoint, WriteFails, Killed
  <2> QED
    BY <1>0, <2>1, CheckpointTypes, NoCheckpointType
<1>6. gaveUp' \in [Sessions -> Revisions]
  <2>1. CASE WriteCheckpoint(b)
    <3>1. gaveUp' = [s \in Sessions |-> IF s \in build[b].dropped THEN source[s] ELSE gaveUp[s]]
      BY <2>1 DEF WriteCheckpoint
    <3> QED
      BY <1>0, <3>1, SMT DEF DataTypes
  <2>2. CASE WriteFails(b) \/ Killed(b)
    BY <1>0, <2>2 DEF DataTypes, WriteFails, Killed, losses
  <2> QED
    BY <2>1, <2>2
<1>7. TypeInv'
    BY <1>2, <1>3, <1>4, <1>5, <1>6, CheckpointStepTypes
<1> QED
    BY <1>1, <1>7

\* The coverage of the current session.
LEMMA RefreshCoverageMoves ==
    ASSUME TypeInv, NEW b \in Builders, RefreshCoverage(b)
    PROVE  /\ TypeInv' /\ Current(b) \in Sessions /\ Fed(Current(b))
           /\ \E me : Fits(me, seq, policy) /\ Becomes(b, me) /\ Advances(me, build[b]) /\ me.pc = "project"
<1> DEFINE me == [build[b] EXCEPT !.pc = "project"]
           s == Current(b)
<1>0. DataTypes
    BY TypeParts
<1>1. /\ PutCoverage(s) /\ Becomes(b, me)
      /\ UNCHANGED <<source, state, chunks, file, policy, gaveUp, erased, faults>>
    BY DEF RefreshCoverage, losses
<1>2. build[b].pc \in Projections /\ "project" \in Projections
    BY DEF RefreshCoverage, Projections
<1>3. s \in Sessions
    BY <1>2, CurrentIsSession
<1>4. Fits(me, seq, policy) /\ Advances(me, build[b]) /\ me.pc = "project"
    BY <1>2, NextLabel, SMT
<1> HIDE DEF me, s
<1>5. /\ coverage' \in [Sessions -> Revisions] /\ seq' \in Nat /\ seq <= seq'
      /\ feed' \in [Sessions -> [Kinds -> 0..seq']] /\ Fed(s)
    BY <1>0, <1>1, <1>3, CoverageFeeds
<1>6. DataTypes'
    BY <1>0, <1>1, <1>5 DEF DataTypes
<1>7. policy <= policy'
    BY <1>0, <1>1, SMT DEF DataTypes
<1>8. FileTypes'
    BY <1>1, <1>5, <1>6, <1>7, SameFile
<1>9. TypeInv'
  <2>1. Moves(b)
    BY <1>1, <1>4 DEF Moves
  <2> QED
    BY <1>5, <1>6, <1>7, <1>8, <2>1, Composed
<1> QED
    BY <1>1, <1>3, <1>4, <1>5, <1>9 DEF s

\* A projection keeps the types.
LEMMA ProjectTypes ==
    ASSUME TypeInv, NEW b \in Builders, Project(b) \/ ProjectorFails(b)
    PROVE  TypeInv'
<1>0. DataTypes
    BY TypeParts
<1>1. Moves(b)
    BY ProjectMoves, ProjectorFailsMoves DEF Finds, Moves
<1>2. UNCHANGED <<source, coverage, seq, feed, state, file, policy, gaveUp, erased>>
    BY DEF Project, ProjectorFails, db, losses
<1>3. chunks' \in [Sessions -> [Revisions -> Nat]] /\ faults' \in 0..MaxFaults
    BY <1>0, ProjectMoves, FaultTypes DEF Project, ProjectorFails, DataTypes
<1>4. DataTypes' /\ seq <= seq' /\ policy <= policy'
  <2>1. DataTypes'
    BY <1>0, <1>2, <1>3 DEF DataTypes
  <2> QED
    BY <1>0, <1>2, <2>1, SMT DEF DataTypes
<1>5. FileTypes'
    BY <1>2, <1>4, SameFile
<1> QED
    BY <1>1, <1>4, <1>5, Composed

\* So does a session that raises.
LEMMA SessionRaisesTypes ==
    ASSUME TypeInv, NEW b \in Builders, SessionRaises(b)
    PROVE  TypeInv' /\ GoesOn(b)
<1>0. DataTypes
    BY TypeParts
<1>1. GoesOn(b)
    BY NextSessionMoves DEF SessionRaises, Projections
<1>2. Moves(b)
    BY <1>1, GoesOnMoves
<1>3. UNCHANGED <<db, state, chunks, file, policy, losses>> /\ faults' \in 0..MaxFaults
    BY <1>0, FaultTypes DEF SessionRaises
<1> QED
    BY <1>1, <1>2, <1>3, SelectionTypes

\* The test of currentness: it passes, or only the attempt is recorded.
Passes(b) ==
    /\ source[Current(b)] = build[b].revision
    /\ UNCHANGED state
    /\ \E me : /\ Fits(me, seq, policy) /\ Becomes(b, me) /\ Advances(me, build[b]) /\ me.pc = "commit"
               /\ me.revision = build[b].revision /\ me.outcome = build[b].outcome

\* A document of the current session is written, and the build goes on.
Writes(b, doc) ==
    /\ doc \in States
    /\ state' = [state EXCEPT ![Current(b)] = doc]
    /\ GoesOn(b)

\* The check of the source after the projection, and what it writes.
LEMMA CheckCurrentMoves ==
    ASSUME TypeInv, NEW b \in Builders, CheckCurrent(b)
    PROVE  /\ Current(b) \in Sessions
           /\ \/ Passes(b)
              \/ /\ source[Current(b)] # build[b].revision
                 /\ \/ Writes(b, state[Current(b)])
                    \/ Writes(b, WithAttempt(state[Current(b)], b))
<1> DEFINE s == Current(b)
           me == [build[b] EXCEPT !.pc = "commit"]
<1>0. DataTypes
    BY TypeParts
<1>1. build[b].pc \in Projections /\ "commit" \in Projections
    BY DEF CheckCurrent, Projections
<1>2. s \in Sessions /\ state[s] \in States
    BY <1>0, <1>1, CurrentIsSession DEF DataTypes
<1>3. CASE source[s] = build[b].revision
  <2>1. Becomes(b, me) /\ UNCHANGED state
    BY <1>3 DEF CheckCurrent
  <2>2. /\ Fits(me, seq, policy) /\ Advances(me, build[b]) /\ me.pc = "commit"
        /\ me.revision = build[b].revision /\ me.outcome = build[b].outcome
    BY <1>1, NextLabel, SMT
  <2> HIDE DEF me
  <2> QED
    BY <1>2, <1>3, <2>1, <2>2 DEF Passes
<1>4. CASE source[s] # build[b].revision
  <2>1. /\ NextSession(b)
        /\ state' = [state EXCEPT ![s] = IF state[s] = NoState THEN state[s] ELSE WithAttempt(state[s], b)]
    BY <1>4 DEF CheckCurrent
  <2>2. GoesOn(b)
    BY <1>1, <2>1, NextSessionMoves
  <2>3. WithAttempt(state[s], b) \in States
    BY <1>2, AttemptDoc
  <2> QED
    BY <1>2, <1>4, <2>1, <2>2, <2>3 DEF Writes
<1> QED
    BY <1>3, <1>4

\* The commit of a projection, and what it writes.
LEMMA CommitStateMoves ==
    ASSUME TypeInv, NEW b \in Builders, CommitState(b)
    PROVE  /\ Current(b) \in Sessions /\ Receipt(state[Current(b)], b) \in States
           /\ Writes(b, WithAttempt(Receipt(state[Current(b)], b), b))
<1> DEFINE s == Current(b)
<1>0. DataTypes
    BY TypeParts
<1>1. build[b].pc \in Projections
    BY DEF CommitState, Projections
<1>2. s \in Sessions /\ state[s] \in States
    BY <1>0, <1>1, CurrentIsSession DEF DataTypes
<1>3. state' = [state EXCEPT ![s] = WithAttempt(Receipt(state[s], b), b)] /\ NextSession(b)
    BY DEF CommitState
<1>4. GoesOn(b)
    BY <1>1, <1>3, NextSessionMoves
<1>5. Receipt(state[s], b) \in States
    BY <1>2, ReceiptDoc
<1>6. WithAttempt(Receipt(state[s], b), b) \in States
    BY <1>5, AttemptDoc
<1> QED
    BY <1>2, <1>3, <1>4, <1>5, <1>6 DEF Writes

\* Both keep the types.
LEMMA CommitTypes ==
    ASSUME TypeInv, NEW b \in Builders, CheckCurrent(b) \/ CommitState(b)
    PROVE  TypeInv'
<1>1. state \in [Sessions -> States]
    BY TypeParts DEF DataTypes
<1>2. Passes(b) \/ \E doc : Writes(b, doc)
    BY CheckCurrentMoves, CommitStateMoves
<1>3. Moves(b)
    BY <1>2, GoesOnMoves DEF Passes, Writes, Moves
<1>4. state' \in [Sessions -> States]
    BY <1>1, <1>2 DEF Passes, Writes
<1>5. UNCHANGED <<db, chunks, file, policy, losses, faults>>
    BY DEF CheckCurrent, CommitState
<1> QED
    BY <1>3, <1>4, <1>5, StateTypes

\* The types hold at the beginning.
LEMMA InitTypes ==
    ASSUME Init
    PROVE  TypeInv
<1>1. /\ NoState \in States /\ 0 \in Revisions /\ 1 \in Nat
      /\ Idle \in Builds(1) /\ ListsOK(Idle)
    BY IdleIsBuild, RevisionsAreNumbers, SMT
<1>2. seq = 1 /\ policy = 1 /\ build = [b \in Builders |-> Idle] /\ file = NoCheckpoint
    BY DEF Init
<1>3. DataTypes
  <2>1. /\ source \in [Sessions -> Revisions] /\ coverage \in [Sessions -> Revisions]
        /\ gaveUp \in [Sessions -> Revisions] /\ erased \in [Sessions -> Revisions]
        /\ state \in [Sessions -> States]
    BY <1>1 DEF Init
  <2>2. feed \in [Sessions -> [Kinds -> 0..seq]] /\ chunks \in [Sessions -> [Revisions -> Nat]]
    BY <1>2, SMT DEF Init
  <2>3. seq \in Nat /\ policy \in 1..MaxPolicy /\ faults \in 0..MaxFaults
    BY <1>2, BuildAssumption, SMT DEF Init
  <2> QED
    BY <2>1, <2>2, <2>3 DEF DataTypes
<1>4. FileTypes
    BY <1>2, BuildAssumption, SMT DEF FileTypes, Files, NoCheckpoint, Distinct
<1>5. Idle.policy <= policy
    BY <1>2, SMT DEF Idle
<1> QED
    BY <1>1, <1>2, <1>3, <1>4, <1>5, TypeParts DEF Fits

\* Every variable keeps its type, no session is pending twice or over the
\* attempt cap, however many builds share the checkpoint and whatever fails.
THEOREM BuildTypes == Spec => []TypeOK
<1>1. Init => TypeInv
    BY InitTypes
<1>2. TypeInv /\ [Next]_vars => TypeInv'
  <2> SUFFICES ASSUME TypeInv, [Next]_vars PROVE TypeInv'
    OBVIOUS
  <2>1. ASSUME NEW s \in Sessions, Deliver(s) \/ MarkPending(s) PROVE TypeInv'
    BY <2>1, DeliverTypes, MarkPendingTypes
  <2>2. CASE Upgrade
    BY <2>2, UpgradeTypes
  <2>3. ASSUME NEW b \in Builders, Step(b) PROVE TypeInv'
    BY <2>3, StartTypes, SelectTypes, WriteTypes, RefreshCoverageMoves, ProjectTypes, CommitTypes DEF Step
  <2>4. ASSUME NEW b \in Builders, Trouble(b) PROVE TypeInv'
    BY <2>4, SelectTypes, WriteTypes, ProjectTypes, SessionRaisesTypes DEF Trouble
  <2>5. CASE UNCHANGED vars
    <3>1. UNCHANGED <<source, coverage, seq, feed, state, chunks, file, policy, build, gaveUp, erased, faults>>
      BY <2>5 DEF vars
    <3> QED
      BY <3>1 DEF TypeInv, TypeOK, ListsOK, Builds
  <2> QED
    BY <2>1, <2>2, <2>3, <2>4, <2>5 DEF Next
<1>3. TypeInv => TypeOK
    BY DEF TypeInv
<1> QED
    BY <1>1, <1>2, <1>3, PTL DEF Spec

=============================================================================
