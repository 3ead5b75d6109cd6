----------------------- MODULE SessionMemoryBuildInv ------------------------
(***************************************************************************)
(* The invariants of SessionMemoryBuild.  TypeInv holds for any number of  *)
(* builders.  IInv, which says what leads back to a session that is not    *)
(* projected, needs one build at a time, which is what entrypoint.sh does. *)
(***************************************************************************)
EXTENDS SessionMemoryBuild

\* entrypoint.sh runs one build after another.
OneBuilder == \A a, b \in Builders : a = b

-----------------------------------------------------------------------------
(* Types, and the lists of a build, for any number of builders.            *)

Projections == {"cover", "project", "check", "commit"}

\* Lists without repetitions: a feed window or a walk adds a session once.
ListsOK(me) ==
    /\ Distinct(me.sessions) /\ Distinct(me.rest) /\ Distinct(me.fresh)
    /\ me.pc \notin {"rows", "walking"} => me.fresh = <<>>
    /\ me.pc # "rows" => me.examined = {}
    /\ me.pc = "rows" => Range(me.fresh) \subseteq me.examined
    /\ me.pc = "walking" => /\ me.cursor \in 1..(Len(WalkOrder) + 1)
                            /\ Range(me.fresh) \subseteq {WalkOrder[i] : i \in 1..(me.cursor - 1)}
    /\ me.pc \in Projections => me.sessions # <<>>

TypeInv ==
    /\ TypeOK
    /\ \A b \in Builders : ListsOK(build[b]) /\ build[b].policy <= policy

DataTypes ==
    /\ source \in [Sessions -> Revisions]
    /\ coverage \in [Sessions -> Revisions]
    /\ seq \in Nat
    /\ feed \in [Sessions -> [Kinds -> 0..seq]]
    /\ state \in [Sessions -> States]
    /\ chunks \in [Sessions -> [Revisions -> Nat]]
    /\ policy \in 1..MaxPolicy
    /\ gaveUp \in [Sessions -> Revisions]
    /\ erased \in [Sessions -> Revisions]
    /\ faults \in 0..MaxFaults

Files(n, p) ==
    [seq : 0..n, pending : Seq(Sessions), walk : BOOLEAN, policy : 0..p,
     attempts : [Sessions -> 0..MaxPendingAttempts]]

FileTypes == file \in Files(seq, policy) /\ Distinct(file.pending)

-----------------------------------------------------------------------------
(* What leads back to a session, for one builder.                          *)

Unprojected(s) == source[s] # 0 /\ state[s].projected # source[s]

Lost(s) == source[s] \in {gaveUp[s], erased[s]}

\* The refusal of the current revision is on record, under policy v or a
\* later one: a build with a later policy looks at the session again.
Recorded(s, v) ==
    /\ state[s].terminal # 0 /\ v <= state[s].terminal
    /\ state[s].attempt.revision = source[s]
    /\ state[s].terminal < policy \/ <<s, source[s], state[s].terminal>> \in Rejected

AnnouncedAfter(s, n) == \E k \in Kinds : feed[s][k] > n

\* What the checkpoint leads to.  The input policy does not matter here:
\* a session that is refused today must be found after a release.
OnDisk(s) ==
    Unprojected(s) =>
        \/ s \in Range(file.pending)
        \/ AnnouncedAfter(s, file.seq)
        \/ file.seq = 0
        \/ file.walk
        \/ Lost(s)
        \/ Recorded(s, file.policy)

\* A row that the feed loop still has to come to, or that it will not reach
\* in this window.
RowAhead(me, s) ==
    \E k \in Kinds :
        /\ feed[s][k] > me.last
        /\ \/ \A row \in me.rows : feed[s][k] > row[1]
           \/ s \notin me.examined /\ <<feed[s][k], s>> \in me.rows

WalkAhead(me, s) == \E i \in me.cursor..Len(WalkOrder) : WalkOrder[i] = s

\* Where a selection that is under way will get to s, or why it need not.
Pursued(me, s) ==
    \/ s \in Range(me.sessions) \/ s \in Range(me.rest) \/ s \in me.dropped \/ s \in Range(me.fresh)
    \/ Lost(s)
    \/ Recorded(s, me.policy)
    \/ me.pc = "walk"
    \/ me.pc = "rows" /\ RowAhead(me, s)
    \/ me.pc = "walking" /\ WalkAhead(me, s)
    \/ me.pc \in {"feed", "walking", "write"} /\ AnnouncedAfter(s, me.last)
    \/ me.pc \in {"walking", "write"} /\ me.last = 0
    \/ me.pc = "write" /\ me.walking

Selecting == {"feed", "rows", "walk", "walking", "write"}

\* A projection_state document is about revisions there have been, and its
\* rejected attempt is the terminal failure.
DocOK(s) ==
    LET doc == state[s]
    IN  /\ doc.attempt.revision <= source[s]
        /\ doc.projected <= source[s]
        /\ doc.terminal <= policy
        /\ doc.attempt.outcome = "rejected" =>
             /\ doc.terminal = doc.attempt.policy
             /\ <<s, doc.attempt.revision, doc.attempt.policy>> \in Rejected

\* A number of the feed names one session.
FeedOK ==
    \A s, t \in Sessions, j, k \in Kinds : feed[s][j] = feed[t][k] /\ feed[s][j] # 0 => s = t

RowsOK(me) == \A row, other \in me.rows : row[1] = other[1] => row[2] = other[2]

\* The documents a walk read at its beginning.  What it misses since then is
\* a refusal that a pending mark erased.
SnapshotOK(me) ==
    me.pc = "walking" =>
        \A s \in Sessions :
            LET old == me.states[s]
            IN  /\ old.projected = state[s].projected
                /\ old.attempt.revision <= source[s]
                /\ \/ old.attempt = state[s].attempt
                   \/ old.attempt.outcome = "rejected" /\ old.attempt.revision = source[s] => Lost(s)

\* What a projection found out, and that its document has waited for it.
ResultOK(me) ==
    me.pc \in {"check", "commit"} =>
        LET s == Head(me.sessions)
        IN  /\ me.revision <= source[s]
            /\ state[s].attempt.revision <= me.revision
            /\ state[s].projected <= me.revision
            /\ me.outcome = "rejected" => <<s, me.revision, me.policy>> \in Rejected

BuildOK(me) ==
    /\ me.pc # "idle" => file.policy <= me.policy
    /\ RowsOK(me) /\ SnapshotOK(me) /\ ResultOK(me)
    /\ me.pc \in Selecting => \A s \in Sessions : Unprojected(s) => Pursued(me, s)

IInv ==
    /\ TypeInv
    /\ FeedOK
    /\ \A s \in Sessions : DocOK(s) /\ OnDisk(s)
    /\ \A b \in Builders : BuildOK(build[b])

-----------------------------------------------------------------------------
(* What steps have in common.                                              *)

Fits(me, n, p) == me \in Builds(n) /\ ListsOK(me) /\ me.policy <= p

\* Only b moves, to a well-formed record.
Moves(b) == \E me : Fits(me, seq, policy) /\ Becomes(b, me)

\* What a write of one document of s does to the feed.
Fed(s) ==
    /\ seq' \in {seq, seq + 1}
    /\ \A t \in Sessions, k \in Kinds :
          \/ feed'[t][k] = feed[t][k]
          \/ t = s /\ feed'[t][k] = seq + 1 /\ seq' = seq + 1

\* What the selection has chosen so far is not touched.
Keeps(me, old) ==
    /\ me.policy = old.policy /\ me.sessions = old.sessions
    /\ me.rest = old.rest /\ me.dropped = old.dropped

\* A build begins with the pending sessions that still need a projection.
Begun(me, odd) ==
    /\ me.policy = policy /\ me.last = file.seq /\ me.walking = file.walk
    /\ me.rows = {}
    /\ me.pc \in {"feed", "walk", "write"}
    /\ me.pc = "feed" => file.seq # 0 /\ ~file.walk
    /\ \A s \in Range(PendingIds) : s \in odd \/ NeedsProjection(s, state[s], policy) =>
          s \in Range(me.sessions) \/ s \in Range(me.rest) \/ s \in me.dropped

\* A build goes on with a list of sessions, or ends.
GoesOn(b) ==
    \E me : /\ Fits(me, seq, policy) /\ Becomes(b, me)
            /\ me.pc \in {"idle", "cover"} /\ me.rows = {}
            /\ me.pc = "cover" => me.policy = build[b].policy

=============================================================================
