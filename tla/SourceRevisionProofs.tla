------------------------ MODULE SourceRevisionProofs ------------------------
(***************************************************************************)
(* Proofs about SourceRevision, for every number of deliveries, extractors,*)
(* chunks, attempts, retries and interrupts.                               *)
(***************************************************************************)
EXTENDS SourceRevision, TLAPS

\* Every chunk of the set is the stored raw chunk.
Agrees(set) == \A c \in Chunks : set.chunks[c] # None => chunks[c] = set.chunks[c]

\* The later set has every chunk of the earlier one, with its content.
Extends(later, earlier) ==
    \A c \in Chunks : earlier.chunks[c] # None => later.chunks[c] = earlier.chunks[c]

\* What the pointer names was stored before, and agrees with the raw chunks.
StoreOK ==
    /\ pointer.rev # 0 =>
          /\ pointer.set \in SourceSets
          /\ pointer.set \in copies \cap manifests
          /\ pointer.set.session # None
          /\ Agrees(pointer.set)
    /\ StartPinned => pointer.rev # 0

(***************************************************************************)
(* What a writer knows at each program point.                              *)
(***************************************************************************)
Swapping == {"load", "stage", "control", "fence", "swap"}
Activating == {"activate", "confirm"} \cup Swapping
HasInput == {"stage", "control", "fence", "swap", "confirm"}
Refreshing ==
    {"snapshot", "put_coverage", "hash_read", "hash_put", "recount", "compare",
     "mark_read", "mark_decide", "mark_put"}

\* An attempt is left until the writer gives up.
AttemptOK(w) == local[w].pc # "gave_up" => local[w].attempts < MaxAttempts

\* The predecessor was a source of the session; a delivery's is pinned.
ViewOK(w) ==
    /\ local[w].pc \in Activating \cup {"append_chunk", "check", "recheck", "copy"} =>
          local[w].view \in Views /\ Agrees(local[w].view.set)
    /\ w \in Deliveries /\ local[w].pc \in Activating \cup {"append_chunk"} =>
          local[w].view.pinned

\* A delivery past its put has its chunk stored.
ChunkOK(w) ==
    w \in Deliveries /\ local[w].pc \in Activating \cup {"merge_read", "merge_put", "post_read"} =>
        chunks[ChunkOf[w]] = BodyOf[w]

\* The successor keeps the chunks of a pinned predecessor and, for a
\* delivery, adds its own.
InputOK(w) ==
    /\ \/ local[w].pc \in HasInput
       \/ w \in Extractors /\ local[w].pc \in Activating \cup {"copy"}
       => /\ local[w].input \in SourceSets
          /\ Agrees(local[w].input)
          /\ local[w].view.pinned => Extends(local[w].input, local[w].view.set)
    /\ w \in Deliveries /\ local[w].pc \in HasInput =>
          local[w].input.chunks[ChunkOf[w]] = BodyOf[w]

\* The records of the successor are written in order.
StagedOK(w) ==
    /\ local[w].pc \in {"stage", "control", "fence", "swap"} => local[w].input.session # None
    /\ local[w].pc \in {"control", "fence", "swap"} => local[w].input \in copies
    /\ local[w].pc \in {"fence", "swap"} => local[w].input \in manifests

\* While the pointer has the revision the writer will compare with, it is
\* the predecessor.
BaseOK(w) ==
    local[w].pc \in Swapping =>
        /\ local[w].base <= pointer.rev
        /\ pointer.rev = local[w].base =>
              IF local[w].view.pinned
              THEN pointer.rev # 0 /\ pointer.set = local[w].view.set
              ELSE pointer.rev = 0

\* The snapshot the derived records are computed from.
SnapOK(w) ==
    /\ local[w].pc \in {"start", "pre_read", "put_chunk", "merge_read", "merge_put"} =>
          local[w].snap = None
    /\ local[w].pc \in Refreshing \ {"snapshot"} => local[w].snap \in Views
    /\ local[w].pc \in {"hash_read", "hash_put"} =>
          ~local[w].snap.pinned /\ local[w].snap.set.session # None

\* In a session that started with a pointer, a delivery past its swap is in
\* the active revision.
AcceptedOK(w) ==
    StartPinned /\ w \in Deliveries /\ local[w].pc \in Refreshing \cup {"confirm", "succeeded"} =>
        pointer.set.chunks[ChunkOf[w]] = BodyOf[w]

Knows(w) ==
    /\ AttemptOK(w)
    /\ ViewOK(w)
    /\ ChunkOK(w)
    /\ InputOK(w)
    /\ StagedOK(w)
    /\ BaseOK(w)
    /\ SnapOK(w)
    /\ AcceptedOK(w)

IInv == TypeOK /\ StoreOK /\ \A w \in Writers : Knows(w)

(***************************************************************************)
(* What every step leaves to the writers that do not take it.              *)
(***************************************************************************)
Monotone ==
    /\ \A c \in Chunks : chunks[c] # None => chunks'[c] = chunks[c]
    /\ copies \subseteq copies' /\ manifests \subseteq manifests'
    /\ \/ pointer' = pointer
       \/ /\ pointer'.rev = pointer.rev + 1
          /\ pointer.rev # 0 => Extends(pointer'.set, pointer.set)

Others(w) == \A v \in Writers \ {w} : local'[v] = local[v]

StepOK(w) == TypeOK' /\ StoreOK' /\ Knows(w)' /\ Monotone /\ Others(w)
-----------------------------------------------------------------------------
\* A hash keeps what it covers.
LEMMA HashKeeps ==
    ASSUME NEW v \in Views
    PROVE  /\ SourceHash(v) \in Views
           /\ SourceHash(v).pinned = v.pinned
           /\ SourceHash(v).set.chunks = v.set.chunks
           /\ ~v.pinned => SourceHash(v) \in LegacyHashes
<1> DEFINE set == [session |-> None, chunks |-> v.set.chunks, bundle |-> v.set.bundle]
<1>1. v.pinned \in BOOLEAN /\ v.set \in SourceSets
    BY Zenon DEF Views
<1>2. CASE v.pinned
  <2>1. SourceHash(v) = v
    BY <1>2, Zenon DEF SourceHash, Views, SourceSets
  <2> QED
    BY <1>2, <2>1, Zenon
<1>3. CASE ~v.pinned
  <2>1. [v.set EXCEPT !.session = None] = set
    BY <1>1 DEF SourceSets
  <2>2. SourceHash(v) = [v EXCEPT !.set = set]
    BY <1>3, <2>1, Zenon DEF SourceHash, Views
  <2>3. set \in [session : {None}, chunks : ChunkSets, bundle : Bundles] /\ set \in SourceSets
    BY <1>1, Zenon DEF SourceSets, Sessions
  <2> HIDE DEF set
  <2>4. SourceHash(v) = [pinned |-> v.pinned, set |-> set]
    BY <2>2, Zenon DEF Views
  <2>5. v.pinned = FALSE
    BY <1>1, <1>3, Zenon
  <2> DEFINE Legacy == {FALSE}
  <2>6. /\ v.pinned \in Legacy
        /\ LegacyHashes = [pinned : Legacy, set : [session : {None}, chunks : ChunkSets, bundle : Bundles]]
    BY <2>5, Zenon DEF LegacyHashes
  <2> HIDE DEF Legacy
  <2>7. SourceHash(v) \in LegacyHashes
    BY <2>3, <2>4, <2>6
  <2>8. SourceHash(v) \in Views
    BY <1>1, <2>3, <2>4 DEF Views
  <2> QED
    BY <2>4, <2>7, <2>8 DEF set
<1> QED
    BY <1>2, <1>3, Zenon

\* What a session resolves to is a view that agrees with the raw chunks.
LEMMA ResolvedView ==
    ASSUME TypeOK, StoreOK
    PROVE  /\ Resolved \in Views
           /\ Agrees(Resolved.set)
           /\ Resolved.pinned <=> pointer.rev # 0
           /\ pointer.rev # 0 => Resolved.set = pointer.set
           /\ pointer.rev = 0 => Resolved.set = LegacySet
BY Zenon DEF TypeOK, StoreOK, Resolved, LegacySet, Views, SourceSets, Agrees

\* A writer that does not move keeps what it knows.
LEMMA Bystander ==
    ASSUME TypeOK, StoreOK, NEW w \in Writers, Knows(w), Monotone, TypeOK', local'[w] = local[w]
    PROVE  Knows(w)'
<1> USE DEF TypeOK
<1>1. AttemptOK(w)'
    BY Zenon DEF Knows, AttemptOK
<1>2. \A set : Agrees(set) => Agrees(set)'
    BY Zenon DEF Agrees, Monotone
<1>3. ViewOK(w)'
    BY <1>2, Zenon DEF Knows, ViewOK
<1>4. ChunkOK(w)'
    BY WriterAssumption DEF Knows, ChunkOK, Monotone
<1>5. InputOK(w)'
    BY <1>2 DEF Knows, InputOK, Extends
<1>6. StagedOK(w)'
    BY Zenon DEF Knows, StagedOK, Monotone
<1>7. BaseOK(w)'
  <2>1. local[w].base \in Nat
    BY Zenon DEF Locals
  <2> QED
    BY <2>1 DEF Knows, BaseOK, Monotone
<1>8. SnapOK(w)'
    BY Zenon DEF Knows, SnapOK
<1>9. AcceptedOK(w)'
    BY WriterAssumption DEF Knows, AcceptedOK, Monotone, Extends, StoreOK
<1> QED
    BY <1>1, <1>3, <1>4, <1>5, <1>6, <1>7, <1>8, <1>9, Zenon DEF Knows

LEMMA StepKeeps ==
    ASSUME IInv, NEW w \in Writers, StepOK(w)
    PROVE  IInv'
BY Bystander, Zenon DEF IInv, StepOK, Others
-----------------------------------------------------------------------------
(***************************************************************************)
(* Steps that change nothing but the writer's own record.                  *)
(***************************************************************************)
Quiet == UNCHANGED <<raw, staged, pointer, derived>>

\* The writer's record stays a record and the other records stay.
Moves(w) == local' \in [Writers -> Locals] /\ Others(w)

LEMMA QuietStep ==
    ASSUME IInv, NEW w \in Writers, Quiet, Moves(w), Knows(w)'
    PROVE  StepOK(w)
<1> USE DEF Quiet, raw, staged, derived, IInv, Moves
<1>1. TypeOK'
    BY Zenon DEF TypeOK
<1>2. StoreOK'
    BY Zenon DEF StoreOK, Agrees
<1>3. Monotone
    BY Zenon DEF Monotone
<1> QED
    BY <1>1, <1>2, <1>3, Zenon DEF StepOK

\* The writer's record is a record, and it has an attempt left if it runs.
LEMMA OwnRecord ==
    ASSUME IInv, NEW w \in Writers
    PROVE  /\ local[w] \in Locals
           /\ Running(w) => local[w].attempts + 1 \in 0..MaxAttempts
           /\ Knows(w)
BY BoundAssumption DEF IInv, TypeOK, Running, Knows, AttemptOK, Locals

\* The record of a writer that knows nothing but its place.
LEMMA FreshType == Fresh \in Locals /\ Fresh.snap = None /\ Fresh.attempts = 0
<1>1. 0 \in 0..(Retries - 1) /\ 0 \in Nat /\ 0 \in 0..MaxAttempts
    BY BoundAssumption
<1>2. None \in Views \cup {None} /\ None \in SourceSets \cup {None} /\ None \in Sessions \cup ProjectionStates
    BY Zenon DEF Sessions
<1> QED
    BY <1>1, <1>2, Zenon DEF Fresh, Locals, Phases

LEMMA FailStep ==
    ASSUME IInv, NEW w \in Writers, Running(w), Fail(w)
    PROVE  StepOK(w)
<1>1. local[w] \in Locals /\ local[w].attempts + 1 \in 0..MaxAttempts /\ Knows(w)
    BY OwnRecord, Zenon
<1> DEFINE n == local[w].attempts + 1
           pc == IF n < MaxAttempts THEN "start" ELSE "gave_up"
           r == Abandoned(w)
<1>2. r = [Fresh EXCEPT !.attempts = n, !.pc = pc]
    BY Zenon DEF Abandoned
<1>3. r \in Locals /\ r.pc = pc /\ r.attempts = n /\ r.snap = None
  <2>1. pc \in Phases /\ n \in 0..MaxAttempts
    BY <1>1, Zenon DEF Phases
  <2> HIDE DEF r, pc, n
  <2> QED
    BY <1>2, <2>1, FreshType, Zenon DEF Locals
<1>4. local' = [local EXCEPT ![w] = r] /\ Quiet
    BY Zenon DEF Fail, Quiet
<1>5. local'[w] = r
    BY <1>4, Zenon DEF IInv, TypeOK
<1> HIDE DEF r
<1>6. AttemptOK(w)' /\ local'[w].pc \in {"start", "gave_up"} /\ local'[w].snap = None
    BY <1>1, <1>3, <1>5, BoundAssumption, Zenon DEF AttemptOK
<1>7. Knows(w)'
    BY <1>6, Zenon
    DEF Knows, ViewOK, ChunkOK, InputOK, StagedOK, BaseOK, SnapOK, AcceptedOK,
        Swapping, Activating, HasInput, Refreshing
<1>8. Moves(w)
    BY <1>3, <1>4, Zenon DEF Moves, Others, IInv, TypeOK
<1> QED
    BY <1>4, <1>7, <1>8, QuietStep, Zenon

\* A delivery that succeeds is in the active revision already.
LEMMA FinishKnows ==
    ASSUME IInv, NEW w \in Writers, Running(w), NEW outcome \in {"succeeded", "integrity"},
           Finish(w, outcome),
           outcome = "succeeded" => AcceptedOK(w) /\ local[w].pc \in Refreshing,
           UNCHANGED <<raw, staged, pointer>>
    PROVE  Knows(w)' /\ Moves(w)
<1>1. local[w] \in Locals /\ Knows(w) /\ local[w].pc # "gave_up"
    BY OwnRecord, Zenon DEF Running
<1> DEFINE n == local[w].attempts
           r == [Fresh EXCEPT !.pc = outcome, !.attempts = n]
<1>2. n \in 0..MaxAttempts /\ n < MaxAttempts
    BY <1>1, Zenon DEF Locals, Knows, AttemptOK
<1>3. local' = [local EXCEPT ![w] = r]
  <2>1. Fresh.attempts + n = n
    BY <1>2, BoundAssumption, FreshType
  <2> QED
    BY <2>1, Zenon DEF Finish
<1> HIDE DEF n
<1>4. r \in Locals /\ r.pc = outcome /\ r.attempts = n
  <2>1. outcome \in Phases
    BY Zenon DEF Phases
  <2> QED
    BY <1>2, <2>1, FreshType, Zenon DEF Locals
<1>5. local'[w] = r
    BY <1>3, Zenon DEF IInv, TypeOK
<1> HIDE DEF r
<1>6. Knows(w)'
    BY <1>1, <1>2, <1>4, <1>5, Zenon
    DEF n, Knows, AttemptOK, ViewOK, ChunkOK, InputOK, StagedOK, BaseOK, SnapOK, AcceptedOK,
        Swapping, Activating, HasInput, Refreshing
<1>7. Moves(w)
    BY <1>3, <1>4, Zenon DEF Moves, Others, IInv, TypeOK
<1> QED
    BY <1>6, <1>7, Zenon

LEMMA FinishStep ==
    ASSUME IInv, NEW w \in Writers, Running(w), NEW outcome \in {"succeeded", "integrity"},
           Finish(w, outcome), Quiet,
           outcome = "succeeded" => AcceptedOK(w) /\ local[w].pc \in Refreshing
    PROVE  StepOK(w)
BY FinishKnows, QuietStep, Zenon DEF Quiet
-----------------------------------------------------------------------------
(***************************************************************************)
(* Deliveries.                                                             *)
(***************************************************************************)
\* The fields that the invariant speaks about, apart from the place.
Keeps(w) ==
    /\ local'[w].view = local[w].view
    /\ local'[w].base = local[w].base
    /\ local'[w].input = local[w].input
    /\ local'[w].attempts = local[w].attempts

LEMMA GotoMoves ==
    ASSUME IInv, NEW w \in Writers, NEW pc \in Phases, Goto(w, pc)
    PROVE  /\ Moves(w)
           /\ Keeps(w)
           /\ local'[w].pc = pc
           /\ local'[w].snap = local[w].snap
BY DEF IInv, TypeOK, Goto, Moves, Others, Keeps, Locals

LEMMA FindStep ==
    ASSUME IInv, NEW d \in Deliveries, FindByNaturalKey(d)
    PROVE  StepOK(d)
<1>1. d \in Writers /\ local[d].pc = "start" /\ Running(d) /\ Quiet
    BY Zenon DEF Writers, FindByNaturalKey, Running, Quiet
<1>2. CASE Finish(d, "integrity")
    BY <1>1, <1>2, FinishStep, Zenon
<1>3. CASE Goto(d, "pre_read")
  <2>1. Moves(d) /\ Keeps(d) /\ local'[d].pc = "pre_read" /\ local'[d].snap = local[d].snap
    BY <1>1, <1>3, GotoMoves, Zenon DEF Phases
  <2>2. Knows(d)'
    BY <1>1, <2>1, OwnRecord, Zenon
    DEF Keeps, Knows, AttemptOK, ViewOK, ChunkOK, InputOK, StagedOK, BaseOK, SnapOK, AcceptedOK,
        Swapping, Activating, HasInput, Refreshing
  <2> QED
    BY <1>1, <2>1, <2>2, QuietStep, Zenon
<1> QED
    BY <1>2, <1>3, Zenon DEF FindByNaturalKey

\* A delivery that reads the pointer goes on, or ends, or takes what the
\* pointer names for its predecessor.
LEMMA ReadMoves ==
    ASSUME IInv, NEW d \in Deliveries, NEW unpinned \in Phases, NEW pinned \in Phases,
           Running(d), ReadPointer(d, unpinned, pinned)
    PROVE  \/ StepOK(d)
           \/ /\ Quiet /\ Moves(d) /\ Keeps(d) /\ pointer.rev = 0
              /\ local'[d].pc = unpinned /\ local'[d].snap = local[d].snap
           \/ /\ Quiet /\ Moves(d) /\ pointer.rev # 0
              /\ local'[d].pc = pinned /\ local'[d].view = Resolved
              /\ local'[d].attempts = local[d].attempts
<1>1. d \in Writers /\ Quiet
    BY Zenon DEF Writers, ReadPointer, Quiet
<1>2. CASE pointer.rev = 0
  <2>1. Goto(d, unpinned)
    BY <1>2, Zenon DEF ReadPointer
  <2> QED
    BY <1>1, <1>2, <2>1, GotoMoves, Zenon
<1>3. CASE pointer.rev # 0 /\ Mismatch(d, pointer.set.chunks[ChunkOf[d]])
    BY <1>1, <1>3, FinishStep, Zenon DEF ReadPointer
<1>4. CASE pointer.rev # 0 /\ ~Mismatch(d, pointer.set.chunks[ChunkOf[d]])
  <2>1. local' = [local EXCEPT ![d].pc = pinned, ![d].view = Resolved]
    BY <1>4, Zenon DEF ReadPointer
  <2>2. Resolved \in Views
    BY ResolvedView, Zenon DEF IInv
  <2>3. /\ Moves(d) /\ local'[d].pc = pinned /\ local'[d].view = Resolved
        /\ local'[d].attempts = local[d].attempts
    <3> DEFINE r == [local[d] EXCEPT !.pc = pinned, !.view = Resolved]
    <3>1. local \in [Writers -> Locals] /\ local[d] \in Locals
      BY <1>1, Zenon DEF IInv, TypeOK
    <3>2. local' = [local EXCEPT ![d] = r]
      BY <1>1, <2>1, <3>1, Zenon
    <3>3. r \in Locals /\ r.pc = pinned /\ r.view = Resolved /\ r.attempts = local[d].attempts
      BY <2>2, <3>1, Zenon DEF Locals
    <3> HIDE DEF r
    <3> QED
      BY <1>1, <3>1, <3>2, <3>3, Zenon DEF Moves, Others
  <2> QED
    BY <1>1, <1>4, <2>3, Zenon
<1> QED
    BY <1>2, <1>3, <1>4, Zenon

LEMMA PreReadStep ==
    ASSUME IInv, NEW d \in Deliveries, PreRead(d)
    PROVE  StepOK(d)
<1>1. d \in Writers /\ d \notin Extractors /\ local[d].pc = "pre_read" /\ Running(d)
    BY WriterAssumption, Zenon DEF Writers, PreRead, Running
<1>2. Knows(d) /\ "put_chunk" \in Phases /\ "append_chunk" \in Phases
    BY <1>1, OwnRecord, Zenon DEF Phases
<1>3. CASE /\ Quiet /\ Moves(d) /\ Keeps(d)
           /\ local'[d].pc = "put_chunk" /\ local'[d].snap = local[d].snap
  <2>1. Knows(d)'
    BY <1>1, <1>2, <1>3, Zenon
    DEF Keeps, Knows, AttemptOK, ViewOK, ChunkOK, InputOK, StagedOK, BaseOK, SnapOK, AcceptedOK,
        Swapping, Activating, HasInput, Refreshing
  <2> QED
    BY <1>1, <1>3, <2>1, QuietStep, Zenon
<1>4. CASE /\ Quiet /\ Moves(d) /\ pointer.rev # 0
           /\ local'[d].pc = "append_chunk" /\ local'[d].view = Resolved
           /\ local'[d].attempts = local[d].attempts
  <2>1. /\ local'[d].view \in Views /\ local'[d].view.pinned
        /\ Agrees(local[d].view.set)'
    BY <1>4, ResolvedView, Zenon DEF IInv, Agrees, Quiet, raw
  <2>2. Knows(d)'
    BY <1>1, <1>2, <1>4, <2>1, Zenon
    DEF Knows, AttemptOK, ViewOK, ChunkOK, InputOK, StagedOK, BaseOK, SnapOK, AcceptedOK,
        Swapping, Activating, HasInput, Refreshing
  <2> QED
    BY <1>1, <1>4, <2>2, QuietStep, Zenon
<1> QED
    BY <1>1, <1>2, <1>3, <1>4, ReadMoves, Zenon DEF PreRead

\* Steps that write no chunk, copy, manifest or pointer.
LEMMA LightStep ==
    ASSUME IInv, NEW w \in Writers, UNCHANGED <<chunks, bundle, staged, pointer>>,
           session' \in Sessions, coverage' \in Views \cup {None}, projection' \in ProjectionStates,
           Moves(w), Knows(w)'
    PROVE  StepOK(w)
<1> USE DEF staged, IInv, Moves
<1>1. TypeOK'
    BY Zenon DEF TypeOK
<1>2. StoreOK'
    BY Zenon DEF StoreOK, Agrees
<1>3. Monotone
    BY Zenon DEF Monotone
<1> QED
    BY <1>1, <1>2, <1>3, Zenon DEF StepOK

\* The put of a chunk that is absent, or stored with this content.
LEMMA ChunkPut ==
    ASSUME IInv, NEW d \in Deliveries, ~Mismatch(d, chunks[ChunkOf[d]]),
           chunks' = [chunks EXCEPT ![ChunkOf[d]] = BodyOf[d]],
           UNCHANGED <<session, bundle, staged, pointer, derived>>,
           Moves(d), Knows(d)'
    PROVE  StepOK(d)
<1> USE DEF staged, derived, IInv
<1>1. ChunkOf[d] \in Chunks /\ BodyOf[d] \in Bodies
    BY WriterAssumption, Zenon
<1>2. chunks' \in ChunkSets
    BY <1>1, Zenon DEF TypeOK, ChunkSets
<1>3. TypeOK'
    BY <1>2, Zenon DEF TypeOK, Moves
<1>4. \A c \in Chunks : chunks[c] # None => chunks'[c] = chunks[c]
    BY <1>1, Zenon DEF Mismatch, TypeOK, ChunkSets
<1>5. StoreOK'
    BY <1>4, Zenon DEF StoreOK, Agrees
<1>6. Monotone
    BY <1>4, Zenon DEF Monotone
<1> QED
    BY <1>3, <1>5, <1>6, Zenon DEF StepOK, Moves

LEMMA PutChunkStep ==
    ASSUME IInv, NEW d \in Deliveries, PutChunk(d)
    PROVE  StepOK(d)
<1>1. d \in Writers /\ d \notin Extractors /\ local[d].pc = "put_chunk" /\ Running(d) /\ Knows(d)
    BY WriterAssumption, OwnRecord, Zenon DEF Writers, PutChunk, Running
<1>2. CASE Fail(d)
    BY <1>1, <1>2, FailStep, Zenon
<1>3. CASE ~Mismatch(d, chunks[ChunkOf[d]])
  <2>1. /\ chunks' = [chunks EXCEPT ![ChunkOf[d]] = BodyOf[d]] /\ Goto(d, "merge_read")
        /\ UNCHANGED <<session, bundle, staged, pointer, derived>>
    BY <1>3, Zenon DEF PutChunk
  <2>2. Moves(d) /\ Keeps(d) /\ local'[d].pc = "merge_read" /\ local'[d].snap = local[d].snap
    BY <1>1, <2>1, GotoMoves, Zenon DEF Phases
  <2>3. chunks'[ChunkOf[d]] = BodyOf[d]
    BY <2>1, WriterAssumption, Zenon DEF IInv, TypeOK, ChunkSets
  <2>4. Knows(d)'
    BY <1>1, <2>2, <2>3, Zenon
    DEF Keeps, Knows, AttemptOK, ViewOK, ChunkOK, InputOK, StagedOK, BaseOK, SnapOK, AcceptedOK,
        Swapping, Activating, HasInput, Refreshing
  <2> QED
    BY <1>3, <2>1, <2>2, <2>4, ChunkPut, Zenon
<1> QED
    BY <1>2, <1>3, Zenon DEF PutChunk

LEMMA AppendChunkStep ==
    ASSUME IInv, NEW d \in Deliveries, AppendChunk(d)
    PROVE  StepOK(d)
<1>1. d \in Writers /\ d \notin Extractors /\ local[d].pc = "append_chunk" /\ Running(d) /\ Knows(d)
    BY WriterAssumption, OwnRecord, Zenon DEF Writers, AppendChunk, Running
<1>2. CASE Mismatch(d, chunks[ChunkOf[d]])
    BY <1>1, <1>2, FinishStep, Zenon DEF AppendChunk, Quiet, raw
<1>3. CASE ~Mismatch(d, chunks[ChunkOf[d]])
  <2>1. /\ chunks' = [chunks EXCEPT ![ChunkOf[d]] = BodyOf[d]] /\ Goto(d, "activate")
        /\ UNCHANGED <<session, bundle, staged, pointer, derived>>
    BY <1>3, Zenon DEF AppendChunk
  <2>2. Moves(d) /\ Keeps(d) /\ local'[d].pc = "activate" /\ local'[d].snap = local[d].snap
    BY <1>1, <2>1, GotoMoves DEF Phases
  <2>3. /\ chunks'[ChunkOf[d]] = BodyOf[d]
        /\ \A c \in Chunks : chunks[c] # None => chunks'[c] = chunks[c]
    BY <1>3, <2>1, WriterAssumption, Zenon DEF IInv, TypeOK, ChunkSets, Mismatch
  <2>4. local[d].view \in Views /\ local[d].view.pinned /\ Agrees(local[d].view.set)
    BY <1>1, Zenon DEF Knows, ViewOK
  <2>5. Agrees(local[d].view.set)'
    BY <2>2, <2>3, <2>4 DEF Agrees, Keeps
  <2>6. Knows(d)'
    BY <1>1, <2>2, <2>3, <2>4, <2>5, Zenon
    DEF Keeps, Knows, AttemptOK, ViewOK, ChunkOK, InputOK, StagedOK, BaseOK, SnapOK, AcceptedOK,
        Swapping, Activating, HasInput, Refreshing
  <2> QED
    BY <1>3, <2>1, <2>2, <2>6, ChunkPut, Zenon
<1> QED
    BY <1>2, <1>3, Zenon

LEMMA PostReadStep ==
    ASSUME IInv, NEW d \in Deliveries, PostRead(d)
    PROVE  StepOK(d)
<1>1. d \in Writers /\ d \notin Extractors /\ local[d].pc = "post_read" /\ Running(d)
    BY WriterAssumption, Zenon DEF Writers, PostRead, Running
<1>2. Knows(d) /\ "snapshot" \in Phases /\ "activate" \in Phases
    BY <1>1, OwnRecord, Zenon DEF Phases
<1>3. CASE /\ Quiet /\ Moves(d) /\ Keeps(d) /\ pointer.rev = 0
           /\ local'[d].pc = "snapshot" /\ local'[d].snap = local[d].snap
  <2>1. ~StartPinned
    BY <1>3, Zenon DEF IInv, StoreOK
  <2>2. Knows(d)'
    BY <1>1, <1>2, <1>3, <2>1, Zenon
    DEF Keeps, Knows, AttemptOK, ViewOK, ChunkOK, InputOK, StagedOK, BaseOK, SnapOK, AcceptedOK,
        Swapping, Activating, HasInput, Refreshing
  <2> QED
    BY <1>1, <1>3, <2>2, QuietStep, Zenon
<1>4. CASE /\ Quiet /\ Moves(d) /\ pointer.rev # 0
           /\ local'[d].pc = "activate" /\ local'[d].view = Resolved
           /\ local'[d].attempts = local[d].attempts
  <2>1. /\ local'[d].view \in Views /\ local'[d].view.pinned
        /\ Agrees(local[d].view.set)'
    BY <1>4, ResolvedView, Zenon DEF IInv, Agrees, Quiet, raw
  <2>2. chunks'[ChunkOf[d]] = BodyOf[d]
    BY <1>1, <1>2, <1>4, Zenon DEF Knows, ChunkOK, Quiet, raw
  <2>3. Knows(d)'
    BY <1>1, <1>2, <1>4, <2>1, <2>2, Zenon
    DEF Knows, AttemptOK, ViewOK, ChunkOK, InputOK, StagedOK, BaseOK, SnapOK, AcceptedOK,
        Swapping, Activating, HasInput, Refreshing
  <2> QED
    BY <1>1, <1>4, <2>3, QuietStep, Zenon
<1> QED
    BY <1>1, <1>2, <1>3, <1>4, ReadMoves, Zenon DEF PostRead
-----------------------------------------------------------------------------
(***************************************************************************)
(* The merges of the session envelope.                                     *)
(***************************************************************************)
\* A merge of typed bounds and a legacy hash is an envelope.
LEMMA IncomingType ==
    ASSUME IInv, NEW w \in Writers,
           \/ w \in Deliveries /\ local[w].snap = None
           \/ local[w].snap \in Views /\ ~local[w].snap.pinned /\ local[w].snap.set.session # None
    PROVE  Incoming(w) \in Sessions
<1>1. ASSUME NEW members \in SUBSET (Chunks \cup {EvidenceId}), NEW hash \in LegacyHashes \cup {None}
      PROVE  Merged(session, members, hash) \in Sessions
    BY Zenon DEF Merged, Sessions, IInv, TypeOK
<1>2. CASE w \in Deliveries /\ local[w].snap = None
  <2>1. {ChunkOf[w]} \in SUBSET (Chunks \cup {EvidenceId})
    BY <1>2, WriterAssumption
  <2> QED
    BY <1>1, <1>2, <2>1, Zenon DEF Incoming
<1>3. CASE local[w].snap \in Views /\ ~local[w].snap.pinned /\ local[w].snap.set.session # None
  <2> DEFINE snap == local[w].snap
             members == snap.set.session.merged \cup Members(snap.set)
  <2>1. snap.set.session.merged \subseteq Chunks \cup {EvidenceId}
    BY <1>3, Zenon DEF Views, SourceSets, Sessions
  <2>2. Members(snap.set) \subseteq Chunks \cup {EvidenceId}
    BY Zenon DEF Members, Present
  <2>3. members \in SUBSET (Chunks \cup {EvidenceId})
    BY <2>1, <2>2, Zenon
  <2>4. SourceHash(snap) \in LegacyHashes
    BY <1>3, HashKeeps, Zenon
  <2>5. snap # None
    BY <1>3, StartAssumption, Zenon
  <2>6. Incoming(w) = Merged(session, members, SourceHash(snap))
    BY <2>5, Zenon DEF Incoming
  <2> HIDE DEF members, snap
  <2> QED
    BY <1>1, <2>3, <2>4, <2>6, Zenon
<1> QED
    BY <1>2, <1>3, Zenon

\* The four ways a merge changes the writer's record.
LEMMA MergeMoves ==
    ASSUME IInv, NEW w \in Writers, NEW pc \in Phases,
           \/ local' = [local EXCEPT ![w].pc = pc, ![w].tries = 0]
           \/ local' = [local EXCEPT ![w].pc = pc, ![w].seen = session]
           \/ local' = [local EXCEPT ![w].pc = pc, ![w].seen = None, ![w].tries = 0]
           \/ /\ local[w].tries + 1 < Retries
              /\ local' = [local EXCEPT ![w].pc = pc, ![w].seen = None, ![w].tries = @ + 1]
    PROVE  Moves(w) /\ Keeps(w) /\ local'[w].pc = pc /\ local'[w].snap = local[w].snap
<1>1. local \in [Writers -> Locals] /\ local[w] \in Locals
    BY Zenon DEF IInv, TypeOK
<1>2. /\ 0 \in 0..(Retries - 1)
      /\ local[w].tries + 1 < Retries => local[w].tries + 1 \in 0..(Retries - 1)
    BY <1>1, BoundAssumption DEF Locals
<1>3. session \in Sessions \cup ProjectionStates /\ None \in Sessions \cup ProjectionStates
    BY Zenon DEF IInv, TypeOK, Sessions
<1>4. ASSUME NEW r \in Locals, local' = [local EXCEPT ![w] = r], r.pc = pc,
             r.view = local[w].view, r.base = local[w].base, r.input = local[w].input,
             r.snap = local[w].snap, r.attempts = local[w].attempts
      PROVE  Moves(w) /\ Keeps(w) /\ local'[w].pc = pc /\ local'[w].snap = local[w].snap
    BY <1>1, <1>4, Zenon DEF Moves, Others, Keeps
<1>5. CASE local' = [local EXCEPT ![w].pc = pc, ![w].tries = 0]
  <2> DEFINE r == [local[w] EXCEPT !.pc = pc, !.tries = 0]
  <2>1. local' = [local EXCEPT ![w] = r]
    BY <1>1, <1>5, Zenon
  <2>2. /\ r \in Locals /\ r.pc = pc /\ r.view = local[w].view /\ r.base = local[w].base
        /\ r.input = local[w].input /\ r.snap = local[w].snap /\ r.attempts = local[w].attempts
    BY <1>1, <1>2, Zenon DEF Locals
  <2> HIDE DEF r
  <2> QED
    BY <1>4, <2>1, <2>2, Zenon
<1>6. CASE local' = [local EXCEPT ![w].pc = pc, ![w].seen = session]
  <2> DEFINE r == [local[w] EXCEPT !.pc = pc, !.seen = session]
  <2>1. local' = [local EXCEPT ![w] = r]
    BY <1>1, <1>6, Zenon
  <2>2. /\ r \in Locals /\ r.pc = pc /\ r.view = local[w].view /\ r.base = local[w].base
        /\ r.input = local[w].input /\ r.snap = local[w].snap /\ r.attempts = local[w].attempts
    BY <1>1, <1>3, Zenon DEF Locals
  <2> HIDE DEF r
  <2> QED
    BY <1>4, <2>1, <2>2, Zenon
<1>7. CASE local' = [local EXCEPT ![w].pc = pc, ![w].seen = None, ![w].tries = 0]
  <2> DEFINE r == [local[w] EXCEPT !.pc = pc, !.seen = None, !.tries = 0]
  <2>1. local' = [local EXCEPT ![w] = r]
    BY <1>1, <1>7, Zenon
  <2>2. /\ r \in Locals /\ r.pc = pc /\ r.view = local[w].view /\ r.base = local[w].base
        /\ r.input = local[w].input /\ r.snap = local[w].snap /\ r.attempts = local[w].attempts
    BY <1>1, <1>2, <1>3, Zenon DEF Locals
  <2> HIDE DEF r
  <2> QED
    BY <1>4, <2>1, <2>2, Zenon
<1>8. CASE /\ local[w].tries + 1 < Retries
           /\ local' = [local EXCEPT ![w].pc = pc, ![w].seen = None, ![w].tries = @ + 1]
  <2> DEFINE n == local[w].tries + 1
             r == [local[w] EXCEPT !.pc = pc, !.seen = None, !.tries = n]
  <2>1. local' = [local EXCEPT ![w] = r]
    BY <1>1, <1>8, Zenon
  <2>2. n \in 0..(Retries - 1)
    BY <1>2, <1>8, Zenon
  <2> HIDE DEF n
  <2>3. /\ r \in Locals /\ r.pc = pc /\ r.view = local[w].view /\ r.base = local[w].base
        /\ r.input = local[w].input /\ r.snap = local[w].snap /\ r.attempts = local[w].attempts
    BY <1>1, <2>2, <1>3, Zenon DEF Locals
  <2> HIDE DEF r
  <2> QED
    BY <1>4, <2>1, <2>3, Zenon
<1> QED
    BY <1>5, <1>6, <1>7, <1>8, Zenon

\* Within a merge, and from it to what follows it, the writer knows the same.
LEMMA MergeKnows ==
    ASSUME IInv, NEW w \in Writers, UNCHANGED <<chunks, staged, pointer>>,
           Keeps(w), local'[w].snap = local[w].snap,
           \/ /\ w \in Deliveries
              /\ local[w].pc \in {"merge_read", "merge_put"}
              /\ local'[w].pc \in {"merge_read", "merge_put", "post_read"}
           \/ /\ local[w].pc \in {"hash_read", "hash_put"}
              /\ local'[w].pc \in {"hash_read", "hash_put", "recount"}
    PROVE  Knows(w)'
<1>1. w \in Deliveries => w \notin Extractors
    BY WriterAssumption, Zenon
<1>2. Knows(w)
    BY OwnRecord, Zenon
<1>3. AttemptOK(w)' /\ StagedOK(w)' /\ BaseOK(w)'
    BY <1>2, Zenon DEF Keeps, Knows, AttemptOK, StagedOK, BaseOK, Swapping
<1>4. ViewOK(w)' /\ InputOK(w)'
    BY <1>1, <1>2, Zenon DEF ViewOK, InputOK, Swapping, Activating, HasInput
<1>5. ChunkOK(w)'
    BY <1>2, Zenon DEF Knows, ChunkOK, Swapping, Activating
<1>6. SnapOK(w)'
    BY <1>2, Zenon DEF Knows, SnapOK, Refreshing
<1>7. AcceptedOK(w)'
    BY <1>2, Zenon DEF Knows, AcceptedOK, Refreshing
<1> QED
    BY <1>3, <1>4, <1>5, <1>6, <1>7, Zenon DEF Knows

Merging(w, read, put, next) ==
    \/ w \in Deliveries /\ read = "merge_read" /\ put = "merge_put" /\ next = "post_read"
    \/ read = "hash_read" /\ put = "hash_put" /\ next = "recount"

LEMMA MergeReadStep ==
    ASSUME IInv, NEW w \in Writers, NEW read, NEW put, NEW next, Merging(w, read, put, next),
           MergeRead(w, read, put, next)
    PROVE  StepOK(w)
<1>1. local[w].pc = read /\ Running(w) /\ next \in Phases /\ put \in Phases
    BY Zenon DEF MergeRead, Merging, Running, Phases
<1>2. CASE Fail(w)
    BY <1>1, <1>2, FailStep, Zenon
<1>3. ASSUME NEW pc \in {put, next}, Quiet,
             \/ local' = [local EXCEPT ![w].pc = pc, ![w].tries = 0]
             \/ local' = [local EXCEPT ![w].pc = pc, ![w].seen = session]
      PROVE  StepOK(w)
  <2> pc \in Phases
    BY <1>1, Zenon
  <2>1. Moves(w) /\ Keeps(w) /\ local'[w].pc = pc /\ local'[w].snap = local[w].snap
    BY <1>3, MergeMoves, Zenon
  <2>2. Knows(w)'
    BY <1>1, <1>3, <2>1, MergeKnows, Zenon DEF Merging, Quiet, raw
  <2> QED
    BY <1>3, <2>1, <2>2, QuietStep, Zenon
<1> QED
    BY <1>2, <1>3, Zenon DEF MergeRead, Quiet

LEMMA MergePutStep ==
    ASSUME IInv, NEW w \in Writers, NEW read, NEW put, NEW next, Merging(w, read, put, next),
           MergePut(w, put, read, next)
    PROVE  StepOK(w)
<1>1. local[w].pc = put /\ Running(w) /\ next \in Phases /\ read \in Phases
    BY Zenon DEF MergePut, Merging, Running, Phases
<1>2. CASE Fail(w)
    BY <1>1, <1>2, FailStep, Zenon
<1>3. CASE session = local[w].seen
  <2>1. /\ session' = Incoming(w) /\ UNCHANGED <<chunks, bundle, staged, pointer, derived>>
        /\ local' = [local EXCEPT ![w].pc = next, ![w].seen = None, ![w].tries = 0]
    BY <1>3, Zenon DEF MergePut
  <2>2. Moves(w) /\ Keeps(w) /\ local'[w].pc = next /\ local'[w].snap = local[w].snap
    BY <1>1, <2>1, MergeMoves, Zenon
  <2>3. Knows(w)'
    BY <1>1, <2>1, <2>2, MergeKnows, Zenon DEF Merging
  <2>4. session' \in Sessions
    BY <1>1, <2>1, OwnRecord, IncomingType, Zenon DEF Merging, Knows, SnapOK, Refreshing
  <2> QED
    BY <2>1, <2>2, <2>3, <2>4, LightStep, Zenon DEF derived, IInv, TypeOK
<1>4. CASE /\ local[w].tries + 1 < Retries /\ Quiet
           /\ local' = [local EXCEPT ![w].pc = read, ![w].seen = None, ![w].tries = @ + 1]
  <2>1. Moves(w) /\ Keeps(w) /\ local'[w].pc = read /\ local'[w].snap = local[w].snap
    BY <1>1, <1>4, MergeMoves, Zenon
  <2>2. Knows(w)'
    BY <1>1, <1>4, <2>1, MergeKnows, Zenon DEF Merging, Quiet, raw
  <2> QED
    BY <1>4, <2>1, <2>2, QuietStep, Zenon
<1> QED
    BY <1>2, <1>3, <1>4, Zenon DEF MergePut, Quiet
-----------------------------------------------------------------------------
(***************************************************************************)
(* Extractors.                                                             *)
(***************************************************************************)
\* Steps that add copies or manifests.
LEMMA GrowStep ==
    ASSUME IInv, NEW w \in Writers, UNCHANGED <<raw, pointer, derived>>,
           copies \subseteq copies', copies' \subseteq SourceSets,
           manifests \subseteq manifests', manifests' \subseteq SourceSets,
           Moves(w), Knows(w)'
    PROVE  StepOK(w)
<1> USE DEF raw, derived, IInv, Moves
<1>1. TypeOK'
    BY Zenon DEF TypeOK
<1>2. StoreOK'
    BY Zenon DEF StoreOK, Agrees
<1>3. Monotone
    BY Zenon DEF Monotone
<1> QED
    BY <1>1, <1>2, <1>3, Zenon DEF StepOK

LEMMA CaptureStep ==
    ASSUME IInv, NEW e \in Extractors, Capture(e)
    PROVE  StepOK(e)
<1>1. e \in Writers /\ e \notin Deliveries /\ local[e].pc = "start" /\ Quiet
    BY WriterAssumption, Zenon DEF Writers, Capture, Quiet
<1>2. Knows(e) /\ local \in [Writers -> Locals] /\ local[e] \in Locals
    BY <1>1, OwnRecord, Zenon DEF IInv, TypeOK
<1>3. Resolved \in Views /\ Agrees(Resolved.set)
    BY ResolvedView, Zenon DEF IInv
<1> DEFINE r == [local[e] EXCEPT !.pc = "check", !.view = Resolved]
<1>4. local' = [local EXCEPT ![e] = r]
    BY <1>1, <1>2, Zenon DEF Capture
<1>5. r \in Locals /\ r.pc = "check" /\ r.view = Resolved /\ r.attempts = local[e].attempts
    BY <1>2, <1>3, Zenon DEF Locals, Phases
<1> HIDE DEF r
<1>6. Moves(e) /\ local'[e] = r
    BY <1>1, <1>2, <1>4, <1>5, Zenon DEF Moves, Others
<1>7. Agrees(local[e].view.set)'
    BY <1>1, <1>3, <1>5, <1>6, Zenon DEF Agrees, Quiet, raw
<1>8. Knows(e)'
    BY <1>1, <1>2, <1>3, <1>5, <1>6, <1>7, Zenon
    DEF Keeps, Knows, AttemptOK, ViewOK, ChunkOK, InputOK, StagedOK, BaseOK, SnapOK, AcceptedOK,
        Swapping, Activating, HasInput, Refreshing
<1> QED
    BY <1>1, <1>6, <1>8, QuietStep, Zenon

LEMMA CheckStep ==
    ASSUME IInv, NEW e \in Extractors, CheckPredecessor(e)
    PROVE  StepOK(e)
<1>1. e \in Writers /\ e \notin Deliveries /\ local[e].pc = "check" /\ Running(e)
    BY WriterAssumption, Zenon DEF Writers, CheckPredecessor, Running
<1>2. Knows(e) /\ local \in [Writers -> Locals] /\ local[e] \in Locals
    BY <1>1, OwnRecord, Zenon DEF IInv, TypeOK
<1>3. /\ Resolved \in Views /\ Agrees(Resolved.set)
      /\ local[e].view \in Views /\ Agrees(local[e].view.set)
    BY <1>1, <1>2, ResolvedView, Zenon DEF IInv, Knows, ViewOK
<1>4. CASE Fail(e)
    BY <1>1, <1>4, FailStep, Zenon
<1>5. CASE Quiet /\ local' = [local EXCEPT ![e].pc = "recheck", ![e].active = Resolved]
  <2> DEFINE r == [local[e] EXCEPT !.pc = "recheck", !.active = Resolved]
  <2>1. local' = [local EXCEPT ![e] = r]
    BY <1>1, <1>2, <1>5, Zenon
  <2>2. r \in Locals /\ r.pc = "recheck" /\ r.view = local[e].view /\ r.attempts = local[e].attempts
    BY <1>2, <1>3, Zenon DEF Locals, Phases
  <2> HIDE DEF r
  <2>3. Moves(e) /\ local'[e] = r
    BY <1>1, <1>2, <2>1, <2>2, Zenon DEF Moves, Others
  <2>4. Agrees(local[e].view.set)'
    BY <1>3, <1>5, <2>2, <2>3, Zenon DEF Agrees, Quiet, raw
  <2>5. Knows(e)'
    BY <1>1, <1>2, <1>3, <2>2, <2>3, <2>4, Zenon
    DEF Keeps, Knows, AttemptOK, ViewOK, ChunkOK, InputOK, StagedOK, BaseOK, SnapOK, AcceptedOK,
        Swapping, Activating, HasInput, Refreshing
  <2> QED
    BY <1>1, <1>5, <2>3, <2>5, QuietStep, Zenon
<1>6. CASE /\ PredecessorCurrent(e) /\ Quiet
           /\ local' = [local EXCEPT ![e].pc = "copy",
                                     ![e].input = [Resolved.set EXCEPT !.bundle = GenerationOf[e]]]
  <2> DEFINE set == [Resolved.set EXCEPT !.bundle = GenerationOf[e]]
             r == [local[e] EXCEPT !.pc = "copy", !.input = set]
  <2>1. local' = [local EXCEPT ![e] = r]
    BY <1>1, <1>2, <1>6, Zenon
  <2>2. Resolved.set \in SourceSets /\ GenerationOf[e] \in Bundles
    BY <1>3, WriterAssumption, Zenon DEF Views, Bundles
  <2>3. set \in SourceSets /\ set.chunks = Resolved.set.chunks
    BY <2>2, Zenon DEF SourceSets
  <2>4. Resolved.set.chunks = local[e].view.set.chunks
    BY <1>3, <1>6, HashKeeps DEF PredecessorCurrent
  <2> HIDE DEF set
  <2>5. /\ r \in Locals /\ r.pc = "copy" /\ r.view = local[e].view /\ r.input = set
        /\ r.attempts = local[e].attempts
    BY <1>2, <2>3, Zenon DEF Locals, Phases
  <2> HIDE DEF r
  <2>6. Moves(e) /\ local'[e] = r
    BY <1>1, <1>2, <2>1, <2>5, Zenon DEF Moves, Others
  <2>7. Agrees(local[e].view.set)' /\ Agrees(local[e].input)'
    BY <1>3, <1>6, <2>3, <2>5, <2>6, Zenon DEF Agrees, Quiet, raw
  <2>8. Extends(set, local[e].view.set)
    BY <2>3, <2>4, Zenon DEF Extends
  <2>9. Knows(e)'
    BY <1>1, <1>2, <1>3, <2>3, <2>5, <2>6, <2>7, <2>8, Zenon
    DEF Keeps, Knows, AttemptOK, ViewOK, ChunkOK, InputOK, StagedOK, BaseOK, SnapOK, AcceptedOK,
        Swapping, Activating, HasInput, Refreshing
  <2> QED
    BY <1>1, <1>6, <2>6, <2>9, QuietStep, Zenon
<1> QED
    BY <1>4, <1>5, <1>6, Zenon DEF CheckPredecessor, Quiet

LEMMA RecheckStep ==
    ASSUME IInv, NEW e \in Extractors, RecheckPredecessor(e)
    PROVE  StepOK(e)
<1>1. e \in Writers /\ e \notin Deliveries /\ local[e].pc = "recheck" /\ Running(e) /\ Knows(e)
    BY WriterAssumption, OwnRecord, Zenon DEF Writers, RecheckPredecessor, Running
<1>2. CASE Fail(e)
    BY <1>1, <1>2, FailStep, Zenon
<1>3. CASE Goto(e, "snapshot") /\ Quiet
  <2>1. Moves(e) /\ Keeps(e) /\ local'[e].pc = "snapshot"
    BY <1>1, <1>3, GotoMoves, Zenon DEF Phases
  <2>2. Knows(e)'
    BY <1>1, <2>1, Zenon
    DEF Keeps, Knows, AttemptOK, ViewOK, ChunkOK, InputOK, StagedOK, BaseOK, SnapOK, AcceptedOK,
        Swapping, Activating, HasInput, Refreshing
  <2> QED
    BY <1>1, <1>3, <2>1, <2>2, QuietStep, Zenon
<1> QED
    BY <1>2, <1>3, Zenon DEF RecheckPredecessor, Quiet

LEMMA CopyStep ==
    ASSUME IInv, NEW e \in Extractors, CopyGeneration(e)
    PROVE  StepOK(e)
<1>1. e \in Writers /\ e \notin Deliveries /\ local[e].pc = "copy" /\ Knows(e)
    BY WriterAssumption, OwnRecord, Zenon DEF Writers, CopyGeneration
<1>2. Moves(e) /\ Keeps(e) /\ local'[e].pc = "activate"
    BY <1>1, GotoMoves, Zenon DEF CopyGeneration, Phases
<1>3. UNCHANGED <<raw, manifests, pointer, derived>> /\ copies' = copies \cup {local[e].input}
    BY Zenon DEF CopyGeneration
<1>4. /\ local[e].view \in Views /\ Agrees(local[e].view.set)
      /\ local[e].input \in SourceSets /\ Agrees(local[e].input)
      /\ local[e].view.pinned => Extends(local[e].input, local[e].view.set)
    BY <1>1, Zenon DEF Knows, ViewOK, InputOK
<1>5. Agrees(local[e].view.set)' /\ Agrees(local[e].input)'
    BY <1>2, <1>3, <1>4, Zenon DEF Agrees, Keeps, raw
<1>6. Knows(e)'
    BY <1>1, <1>2, <1>4, <1>5, Zenon
    DEF Keeps, Knows, AttemptOK, ViewOK, ChunkOK, InputOK, StagedOK, BaseOK, SnapOK, AcceptedOK,
        Swapping, Activating, HasInput, Refreshing
<1> QED
    BY <1>1, <1>2, <1>3, <1>4, <1>6, GrowStep, Zenon DEF IInv, TypeOK
-----------------------------------------------------------------------------
(***************************************************************************)
(* Activation.                                                             *)
(***************************************************************************)
\* Facts about sets survive a step that leaves the raw chunks and the record.
LEMMA StillAgree ==
    ASSUME NEW w \in Writers, Keeps(w), UNCHANGED chunks
    PROVE  /\ Agrees(local[w].view.set) => Agrees(local[w].view.set)'
           /\ Agrees(local[w].input) => Agrees(local[w].input)'
BY Zenon DEF Keeps, Agrees

LEMMA BeginStep ==
    ASSUME IInv, NEW w \in Writers, BeginActivation(w)
    PROVE  StepOK(w)
<1>1. local[w].pc = "activate" /\ Running(w)
    BY Zenon DEF BeginActivation, Running
<1>2. Knows(w) /\ local \in [Writers -> Locals] /\ local[w] \in Locals /\ pointer.rev \in Nat
    BY OwnRecord, Zenon DEF IInv, TypeOK
<1>3. CASE Fail(w)
    BY <1>1, <1>3, FailStep, Zenon
<1>4. CASE /\ IF local[w].view.pinned
              THEN pointer.rev # 0 /\ pointer.set = local[w].view.set
              ELSE pointer.rev = 0
           /\ local' = [local EXCEPT ![w].pc = "load", ![w].base = pointer.rev]
           /\ Quiet
  <2> DEFINE r == [local[w] EXCEPT !.pc = "load", !.base = pointer.rev]
  <2>1. local' = [local EXCEPT ![w] = r]
    BY <1>2, <1>4, Zenon
  <2>2. /\ r \in Locals /\ r.pc = "load" /\ r.base = pointer.rev /\ r.view = local[w].view
        /\ r.input = local[w].input /\ r.attempts = local[w].attempts
    BY <1>2, ZenonT(40) DEF Locals, Phases
  <2> HIDE DEF r
  <2>3. Moves(w) /\ local'[w] = r
    BY <1>2, <2>1, <2>2, Zenon DEF Moves, Others
  <2>4. UNCHANGED <<chunks, copies, manifests, pointer>>
    BY <1>4, Zenon DEF Quiet, raw, staged
  <2>5. AttemptOK(w)' /\ StagedOK(w)' /\ SnapOK(w)' /\ AcceptedOK(w)'
    BY <1>1, <1>2, <2>2, <2>3, Zenon DEF Knows, AttemptOK, StagedOK, SnapOK, AcceptedOK, Refreshing
  <2>6. ViewOK(w)' /\ ChunkOK(w)' /\ InputOK(w)'
    <3>1. /\ local'[w].pc = "load" /\ local'[w].view = local[w].view /\ local'[w].input = local[w].input
          /\ "activate" \in Activating /\ "load" \in Activating /\ "load" \notin HasInput
      BY <2>2, <2>3, Zenon DEF Activating, Swapping, HasInput
    <3>2. /\ Agrees(local[w].view.set) => Agrees(local[w].view.set)'
          /\ Agrees(local[w].input) => Agrees(local[w].input)'
      BY <2>4, <3>1, Zenon DEF Agrees
    <3>3. ViewOK(w)'
      BY <1>1, <1>2, <3>1, <3>2, Zenon DEF Knows, ViewOK
    <3>4. ChunkOK(w)'
      BY <1>1, <1>2, <2>4, <3>1, Zenon DEF Knows, ChunkOK
    <3>5. InputOK(w)'
      BY <1>1, <1>2, <3>1, <3>2, ZenonT(40) DEF Knows, InputOK, Extends
    <3> QED
      BY <3>3, <3>4, <3>5, Zenon
  <2>7. BaseOK(w)'
    BY <1>2, <1>4, <2>2, <2>3, <2>4 DEF BaseOK
  <2> QED
    BY <1>4, <2>3, <2>5, <2>6, <2>7, QuietStep, Zenon DEF Knows
<1> QED
    BY <1>3, <1>4, Zenon DEF BeginActivation, Quiet

\* The set a delivery loads has the predecessor's chunks and its own.
LEMMA LoadedSet ==
    ASSUME IInv, NEW d \in Deliveries, local[d].pc \in {"load", "confirm"}, Loadable(Allowlisted(d))
    PROVE  /\ Loaded(Allowlisted(d)) \in SourceSets
           /\ Loaded(Allowlisted(d)).session # None
           /\ Agrees(Loaded(Allowlisted(d)))
           /\ Extends(Loaded(Allowlisted(d)), local[d].view.set)
           /\ Loaded(Allowlisted(d)).chunks[ChunkOf[d]] = BodyOf[d]
<1> DEFINE allow == Allowlisted(d)
           set == Loaded(allow)
           view == local[d].view.set
<1>1. /\ local[d].view \in Views /\ Agrees(view) /\ chunks[ChunkOf[d]] = BodyOf[d]
      /\ ChunkOf[d] \in Chunks
    BY OwnRecord, WriterAssumption, Zenon DEF Writers, Knows, ViewOK, ChunkOK, Activating, Swapping
<1>2. allow.ids = Present(view.chunks) \cup {ChunkOf[d]}
    BY Zenon DEF Allowlisted, OriginChunks
<1> HIDE DEF allow
<1>3. /\ set.session = session
      /\ set.chunks = [c \in Chunks |-> IF c \in allow.ids THEN chunks[c] ELSE None]
      /\ set.bundle = IF allow.evidence THEN bundle ELSE None
    BY Zenon DEF Loaded
<1>4. set.chunks \in ChunkSets
    BY <1>3, Zenon DEF IInv, TypeOK, ChunkSets
<1>5. set.bundle \in Bundles
    BY <1>3, Zenon DEF IInv, TypeOK, Bundles
<1>6. set \in SourceSets
    BY <1>3, <1>4, <1>5, Zenon DEF Loaded, SourceSets, IInv, TypeOK
<1>7. set.session # None
    BY <1>3, Zenon DEF Loadable, allow
<1>8. Agrees(set)
    BY <1>3, Zenon DEF Agrees
<1>9. Extends(set, view)
    BY <1>1, <1>2, <1>3, Zenon DEF Extends, Agrees, Present
<1>10. set.chunks[ChunkOf[d]] = BodyOf[d]
    BY <1>1, <1>2, <1>3, Zenon
<1> QED
    BY <1>6, <1>7, <1>8, <1>9, <1>10, Zenon DEF allow

LEMMA LoadStep ==
    ASSUME IInv, NEW w \in Writers, LoadSources(w)
    PROVE  StepOK(w)
<1>1. local[w].pc = "load" /\ Quiet
    BY Zenon DEF LoadSources, Quiet
<1>2. Knows(w) /\ local \in [Writers -> Locals] /\ local[w] \in Locals
    BY OwnRecord, Zenon DEF IInv, TypeOK
<1>3. UNCHANGED <<chunks, copies, manifests, pointer>>
    BY <1>1, Zenon DEF Quiet, raw, staged
<1>4. CASE w \in Extractors
  <2>1. local[w].input.session # None /\ Goto(w, "stage") /\ w \notin Deliveries
    BY <1>4, WriterAssumption, Zenon DEF LoadSources
  <2>2. Moves(w) /\ Keeps(w) /\ local'[w].pc = "stage"
    BY <2>1, GotoMoves, Zenon DEF Phases
  <2>3. AttemptOK(w)' /\ StagedOK(w)' /\ SnapOK(w)' /\ AcceptedOK(w)' /\ ChunkOK(w)'
    BY <1>1, <1>2, <2>1, <2>2, Zenon DEF Keeps, Knows, AttemptOK, StagedOK, SnapOK, AcceptedOK, ChunkOK, Refreshing
  <2>4. ViewOK(w)' /\ InputOK(w)' /\ BaseOK(w)'
    BY <1>1, <1>2, <1>3, <1>4, <2>1, <2>2, StillAgree, Zenon
    DEF Keeps, Knows, ViewOK, InputOK, BaseOK, Extends, Swapping, Activating, HasInput
  <2> QED
    BY <1>1, <2>2, <2>3, <2>4, QuietStep, Zenon DEF Knows
<1>5. CASE w \in Deliveries
  <2> DEFINE set == Loaded(Allowlisted(w))
             r == [local[w] EXCEPT !.pc = "stage", !.input = set]
  <2>1. w \notin Extractors
    BY <1>5, WriterAssumption, Zenon
  <2>2. Loadable(Allowlisted(w)) /\ local' = [local EXCEPT ![w].pc = "stage", ![w].input = set]
    BY <2>1, Zenon DEF LoadSources
  <2>3. /\ set \in SourceSets /\ set.session # None /\ Agrees(set)
        /\ Extends(set, local[w].view.set) /\ set.chunks[ChunkOf[w]] = BodyOf[w]
    BY <1>1, <1>5, <2>2, LoadedSet, Zenon
  <2> HIDE DEF set
  <2>4. local' = [local EXCEPT ![w] = r]
    BY <1>2, <2>2, Zenon
  <2>5. /\ r \in Locals /\ r.pc = "stage" /\ r.base = local[w].base /\ r.view = local[w].view
        /\ r.input = set /\ r.attempts = local[w].attempts
    BY <1>2, <2>3, Zenon DEF Locals, Phases
  <2> HIDE DEF r
  <2>6. Moves(w) /\ local'[w] = r
    BY <1>2, <2>4, <2>5, Zenon DEF Moves, Others
  <2>7. AttemptOK(w)' /\ StagedOK(w)' /\ SnapOK(w)' /\ AcceptedOK(w)'
    BY <1>1, <1>2, <2>3, <2>5, <2>6, Zenon DEF Knows, AttemptOK, StagedOK, SnapOK, AcceptedOK, Refreshing
  <2>8. ViewOK(w)' /\ BaseOK(w)' /\ ChunkOK(w)'
    BY <1>1, <1>2, <1>3, <2>5, <2>6, Zenon
    DEF Knows, ViewOK, BaseOK, ChunkOK, Agrees, Swapping, Activating
  <2>9. InputOK(w)'
    BY <1>3, <1>5, <2>3, <2>5, <2>6, Zenon DEF InputOK, Agrees, Extends
  <2> QED
    BY <1>1, <2>6, <2>7, <2>8, <2>9, QuietStep, Zenon DEF Knows
<1> QED
    BY <1>4, <1>5, Zenon DEF Writers

LEMMA LoadConflictStep ==
    ASSUME IInv, NEW w \in Writers, LoadConflict(w)
    PROVE  StepOK(w)
BY FailStep, Zenon DEF LoadConflict, Running

LEMMA StageCopiesStep ==
    ASSUME IInv, NEW w \in Writers, StageCopies(w)
    PROVE  StepOK(w)
<1>1. local[w].pc = "stage" /\ Knows(w)
    BY OwnRecord, Zenon DEF StageCopies
<1>2. Moves(w) /\ Keeps(w) /\ local'[w].pc = "control"
    BY GotoMoves, Zenon DEF StageCopies, Phases
<1>3. /\ UNCHANGED <<raw, manifests, pointer, derived>> /\ UNCHANGED chunks
      /\ copies' = copies \cup {local[w].input}
    BY Zenon DEF StageCopies, raw
<1>4. AttemptOK(w)' /\ StagedOK(w)' /\ SnapOK(w)' /\ AcceptedOK(w)'
    BY <1>1, <1>2, <1>3, Zenon DEF Keeps, Knows, AttemptOK, StagedOK, SnapOK, AcceptedOK, Refreshing
<1>5. ViewOK(w)' /\ InputOK(w)' /\ BaseOK(w)' /\ ChunkOK(w)'
    BY <1>1, <1>2, <1>3, StillAgree, Zenon
    DEF Keeps, Knows, ViewOK, InputOK, BaseOK, ChunkOK, Extends, Swapping, Activating, HasInput
<1>6. local[w].input \in SourceSets
    BY <1>1, Zenon DEF Knows, InputOK, HasInput
<1> QED
    BY <1>2, <1>3, <1>4, <1>5, <1>6, GrowStep, Zenon DEF Knows, IInv, TypeOK

LEMMA StageControlStep ==
    ASSUME IInv, NEW w \in Writers, StageControl(w)
    PROVE  StepOK(w)
<1>1. local[w].pc = "control" /\ Knows(w)
    BY OwnRecord, Zenon DEF StageControl
<1>2. Moves(w) /\ Keeps(w) /\ local'[w].pc = "fence"
    BY GotoMoves, Zenon DEF StageControl, Phases
<1>3. /\ UNCHANGED <<raw, copies, pointer, derived>> /\ UNCHANGED chunks
      /\ manifests' = manifests \cup {local[w].input}
    BY Zenon DEF StageControl, raw
<1>4. AttemptOK(w)' /\ StagedOK(w)' /\ SnapOK(w)' /\ AcceptedOK(w)'
    BY <1>1, <1>2, <1>3, Zenon DEF Keeps, Knows, AttemptOK, StagedOK, SnapOK, AcceptedOK, Refreshing
<1>5. ViewOK(w)' /\ InputOK(w)' /\ BaseOK(w)' /\ ChunkOK(w)'
    BY <1>1, <1>2, <1>3, StillAgree, Zenon
    DEF Keeps, Knows, ViewOK, InputOK, BaseOK, ChunkOK, Extends, Swapping, Activating, HasInput
<1>6. local[w].input \in SourceSets
    BY <1>1, Zenon DEF Knows, InputOK, HasInput
<1> QED
    BY <1>2, <1>3, <1>4, <1>5, <1>6, GrowStep, Zenon DEF Knows, IInv, TypeOK

LEMMA FenceStep ==
    ASSUME IInv, NEW w \in Writers, Fence(w)
    PROVE  StepOK(w)
<1>1. local[w].pc = "fence" /\ Knows(w) /\ Running(w)
    BY OwnRecord, Zenon DEF Fence, Running
<1>2. CASE Fail(w)
    BY <1>1, <1>2, FailStep, Zenon
<1>3. CASE Goto(w, "swap") /\ Quiet
  <2>1. Moves(w) /\ Keeps(w) /\ local'[w].pc = "swap"
    BY <1>3, GotoMoves, Zenon DEF Phases
  <2>2. UNCHANGED <<chunks, copies, manifests, pointer>>
    BY <1>3, Zenon DEF Quiet, raw, staged
  <2>3. AttemptOK(w)' /\ StagedOK(w)' /\ SnapOK(w)' /\ AcceptedOK(w)'
    BY <1>1, <2>1, <2>2, Zenon DEF Keeps, Knows, AttemptOK, StagedOK, SnapOK, AcceptedOK, Refreshing
  <2>4. ViewOK(w)' /\ InputOK(w)' /\ BaseOK(w)' /\ ChunkOK(w)'
    BY <1>1, <2>1, <2>2, StillAgree, Zenon
    DEF Keeps, Knows, ViewOK, InputOK, BaseOK, ChunkOK, Extends, Swapping, Activating, HasInput
  <2> QED
    BY <1>3, <2>1, <2>3, <2>4, QuietStep, Zenon DEF Knows
<1> QED
    BY <1>2, <1>3, Zenon DEF Fence, Quiet

\* The compare-and-swap: the pointer it replaces is the predecessor, and the
\* successor keeps the predecessor's chunks.
LEMMA SwapStep ==
    ASSUME IInv, NEW w \in Writers, SwapPointer(w)
    PROVE  StepOK(w)
<1>1. local[w].pc = "swap" /\ Knows(w) /\ Running(w)
    BY OwnRecord, Zenon DEF SwapPointer, Running
<1>2. CASE Fail(w)
    BY <1>1, <1>2, FailStep, Zenon
<1>3. CASE pointer.rev = local[w].base
  <2>1. /\ Goto(w, "confirm") /\ UNCHANGED <<raw, staged, derived>>
        /\ pointer' = IF pointer.rev # 0 /\ pointer.set = local[w].input
                      THEN pointer
                      ELSE [rev |-> pointer.rev + 1, set |-> local[w].input]
    BY <1>3, Zenon DEF SwapPointer
  <2>2. Moves(w) /\ Keeps(w) /\ local'[w].pc = "confirm"
    BY <2>1, GotoMoves, Zenon DEF Phases
  <2>3. UNCHANGED <<chunks, session, bundle, copies, manifests, coverage, projection>>
    BY <2>1, Zenon DEF raw, staged, derived
  <2>4. /\ local[w].input \in SourceSets /\ Agrees(local[w].input)
        /\ local[w].view.pinned => Extends(local[w].input, local[w].view.set)
        /\ w \in Deliveries => local[w].input.chunks[ChunkOf[w]] = BodyOf[w]
    BY <1>1, Zenon DEF Knows, InputOK, HasInput
  <2>5. local[w].input \in copies /\ local[w].input \in manifests /\ local[w].input.session # None
    BY <1>1, Zenon DEF Knows, StagedOK
  <2>6. pointer.rev # 0 => local[w].view.pinned /\ pointer.set = local[w].view.set
    BY <1>1, <1>3, Zenon DEF Knows, BaseOK, Swapping
  <2>7. pointer.rev \in Nat
    BY Zenon DEF IInv, TypeOK
  <2>8. pointer'.rev \in Nat /\ pointer'.rev # 0 /\ pointer'.set = local[w].input
    BY <2>1, <2>7
  <2>9. Monotone
    BY <2>1, <2>3, <2>4, <2>6, Zenon DEF Monotone
  <2>10. TypeOK'
    BY <2>2, <2>3, <2>4, <2>8, Zenon DEF IInv, TypeOK, Moves
  <2>11. StoreOK'
    BY <2>3, <2>4, <2>5, <2>8, Zenon DEF StoreOK, Agrees
  <2>12. AttemptOK(w)' /\ StagedOK(w)' /\ SnapOK(w)' /\ BaseOK(w)'
    BY <1>1, <2>2, Zenon DEF Keeps, Knows, AttemptOK, StagedOK, SnapOK, BaseOK, Refreshing, Swapping
  <2>13. ViewOK(w)' /\ InputOK(w)' /\ ChunkOK(w)'
    BY <1>1, <2>2, <2>3, StillAgree, Zenon
    DEF Keeps, Knows, ViewOK, InputOK, ChunkOK, Extends, Swapping, Activating, HasInput
  <2>14. AcceptedOK(w)'
    BY <2>4, <2>8, Zenon DEF AcceptedOK
  <2> QED
    BY <2>2, <2>9, <2>10, <2>11, <2>12, <2>13, <2>14, Zenon DEF StepOK, Knows, Moves
<1> QED
    BY <1>2, <1>3, Zenon DEF SwapPointer

LEMMA ConfirmStep ==
    ASSUME IInv, NEW w \in Writers, Confirm(w)
    PROVE  StepOK(w)
<1>1. local[w].pc = "confirm" /\ Knows(w) /\ Running(w)
    BY OwnRecord, Zenon DEF Confirm, Running
<1>2. CASE Fail(w)
    BY <1>1, <1>2, FailStep, Zenon
<1> DEFINE n == local[w].attempts
           r == [Fresh EXCEPT !.pc = "snapshot", !.active = Resolved, !.attempts = n]
<1>3. CASE local' = [local EXCEPT ![w] = r] /\ Quiet
  <2>1. local \in [Writers -> Locals] /\ n \in 0..MaxAttempts /\ "snapshot" \in Phases
    BY Zenon DEF IInv, TypeOK, Locals, Phases
  <2>2. Resolved \in Views
    BY ResolvedView, Zenon DEF IInv
  <2> HIDE DEF n
  <2>3. r \in Locals /\ r.pc = "snapshot" /\ r.attempts = n
    BY <2>1, <2>2, FreshType, ZenonT(40) DEF Locals
  <2>4. local'[w] = r
    BY <1>3, <2>1, Zenon
  <2>5. Moves(w)
    BY <1>3, <2>1, <2>3, Zenon DEF Moves, Others
  <2> HIDE DEF r
  <2>6. UNCHANGED pointer
    BY <1>3, Zenon DEF Quiet
  <2>7. Knows(w)'
    BY <1>1, <2>3, <2>4, <2>6, Zenon
    DEF n, Knows, AttemptOK, ViewOK, ChunkOK, InputOK, StagedOK, BaseOK, SnapOK, AcceptedOK,
        Swapping, Activating, HasInput, Refreshing
  <2> QED
    BY <1>3, <2>5, <2>7, QuietStep, Zenon
<1> QED
    BY <1>2, <1>3, Zenon DEF Confirm, Quiet

LEMMA ActivateStep ==
    ASSUME IInv, NEW w \in Writers, Activate(w)
    PROVE  StepOK(w)
BY BeginStep, LoadStep, LoadConflictStep, StageCopiesStep, StageControlStep, FenceStep,
   SwapStep, ConfirmStep, Zenon DEF Activate
-----------------------------------------------------------------------------
(***************************************************************************)
(* The refresh of the derived records.                                     *)
(***************************************************************************)
LEMMA RefreshKnows ==
    ASSUME IInv, NEW w \in Writers, UNCHANGED pointer,
           local[w].pc \in Refreshing, local'[w].pc \in Refreshing,
           local'[w].attempts = local[w].attempts,
           local'[w].pc # "snapshot" => local'[w].snap \in Views,
           local'[w].pc \in {"hash_read", "hash_put"} =>
               ~local'[w].snap.pinned /\ local'[w].snap.set.session # None
    PROVE  Knows(w)'
BY OwnRecord, Zenon
DEF Knows, AttemptOK, ViewOK, ChunkOK, InputOK, StagedOK, BaseOK, SnapOK, AcceptedOK,
    Swapping, Activating, HasInput, Refreshing

LEMMA SnapshotStep ==
    ASSUME IInv, NEW w \in Writers, CoverageSnapshot(w) \/ Recount(w)
    PROVE  StepOK(w)
<1>1. PICK pc \in {"put_coverage", "compare"} :
         local' = [local EXCEPT ![w].pc = pc, ![w].snap = Resolved]
    BY Zenon DEF CoverageSnapshot, Recount
<1>2. local[w].pc \in Refreshing /\ Quiet
    BY Zenon DEF CoverageSnapshot, Recount, Refreshing, Quiet
<1>3. local \in [Writers -> Locals] /\ local[w] \in Locals /\ pc \in Phases
    BY Zenon DEF IInv, TypeOK, Phases
<1>4. Resolved \in Views
    BY ResolvedView, Zenon DEF IInv
<1> DEFINE r == [local[w] EXCEPT !.pc = pc, !.snap = Resolved]
<1>5. local' = [local EXCEPT ![w] = r]
    BY <1>1, <1>3, Zenon
<1>6. r \in Locals /\ r.pc = pc /\ r.snap = Resolved /\ r.attempts = local[w].attempts
    BY <1>3, <1>4, Zenon DEF Locals
<1> HIDE DEF r
<1>7. Moves(w) /\ local'[w] = r
    BY <1>3, <1>5, <1>6, Zenon DEF Moves, Others
<1>8. Knows(w)'
    BY <1>2, <1>4, <1>6, <1>7, RefreshKnows, Zenon DEF Refreshing, Quiet
<1> QED
    BY <1>2, <1>7, <1>8, QuietStep, Zenon

LEMMA PutCoverageStep ==
    ASSUME IInv, NEW w \in Writers, PutCoverage(w)
    PROVE  StepOK(w)
<1>1. /\ local[w].pc = "put_coverage" /\ coverage' = SourceHash(local[w].snap)
      /\ UNCHANGED <<chunks, bundle, session, staged, pointer, projection>>
    BY Zenon DEF PutCoverage, raw
<1>2. local[w].snap \in Views
    BY <1>1, OwnRecord, Zenon DEF Knows, SnapOK, Refreshing
<1>3. PICK pc \in {"recount", "hash_read"} :
         /\ Goto(w, pc)
         /\ pc = "hash_read" => ~local[w].snap.pinned /\ local[w].snap.set.session # None
    BY Zenon DEF PutCoverage
<1>4. Moves(w) /\ Keeps(w) /\ local'[w].pc = pc /\ local'[w].snap = local[w].snap
    BY <1>3, GotoMoves, Zenon DEF Phases
<1>5. Knows(w)'
    BY <1>1, <1>2, <1>3, <1>4, RefreshKnows, Zenon DEF Refreshing, Keeps
<1>6. coverage' \in Views
    BY <1>1, <1>2, HashKeeps, Zenon
<1> QED
    BY <1>1, <1>4, <1>5, <1>6, LightStep, Zenon DEF IInv, TypeOK

LEMMA CompareStep ==
    ASSUME IInv, NEW w \in Writers, CompareCoverage(w)
    PROVE  StepOK(w)
<1>1. local[w].pc = "compare" /\ Running(w) /\ local[w].pc \in Refreshing
    BY Zenon DEF CompareCoverage, Running, Refreshing
<1>2. local \in [Writers -> Locals] /\ local[w] \in Locals /\ local[w].snap \in Views
    BY <1>1, OwnRecord, Zenon DEF IInv, TypeOK, Knows, SnapOK, Refreshing
<1>3. CASE Fail(w)
    BY <1>1, <1>3, FailStep, Zenon
<1>4. CASE Quiet /\ local' = [local EXCEPT ![w].pc = "mark_read", ![w].rounds = 0]
  <2> DEFINE r == [local[w] EXCEPT !.pc = "mark_read", !.rounds = 0]
  <2>1. local' = [local EXCEPT ![w] = r]
    BY <1>2, <1>4, Zenon
  <2>2. 0 \in 0..(Retries - 1)
    BY BoundAssumption
  <2>3. r \in Locals /\ r.pc = "mark_read" /\ r.snap = local[w].snap /\ r.attempts = local[w].attempts
    BY <1>2, <2>2, Zenon DEF Locals, Phases
  <2> HIDE DEF r
  <2>4. Moves(w) /\ local'[w] = r
    BY <1>2, <2>1, <2>3, Zenon DEF Moves, Others
  <2>5. Knows(w)'
    BY <1>1, <1>2, <1>4, <2>3, <2>4, RefreshKnows, Zenon DEF Refreshing, Quiet
  <2> QED
    BY <1>4, <2>4, <2>5, QuietStep, Zenon
<1>5. CASE /\ Quiet /\ local[w].rounds + 1 < Retries
           /\ local' = [local EXCEPT ![w].pc = "snapshot", ![w].snap = None, ![w].rounds = @ + 1]
  <2> DEFINE n == local[w].rounds + 1
             r == [local[w] EXCEPT !.pc = "snapshot", !.snap = None, !.rounds = n]
  <2>1. local' = [local EXCEPT ![w] = r]
    BY <1>2, <1>5, Zenon
  <2>2. n \in 0..(Retries - 1)
    BY <1>2, <1>5, BoundAssumption DEF Locals
  <2> HIDE DEF n
  <2>3. r \in Locals /\ r.pc = "snapshot" /\ r.attempts = local[w].attempts
    BY <1>2, <2>2, Zenon DEF Locals, Phases
  <2> HIDE DEF r
  <2>4. Moves(w) /\ local'[w] = r
    BY <1>2, <2>1, <2>3, Zenon DEF Moves, Others
  <2>5. Knows(w)'
    BY <1>1, <1>5, <2>3, <2>4, RefreshKnows, Zenon DEF Refreshing, Quiet
  <2> QED
    BY <1>5, <2>4, <2>5, QuietStep, Zenon
<1> QED
    BY <1>3, <1>4, <1>5, Zenon DEF CompareCoverage, Quiet

LEMMA MarkReadStep ==
    ASSUME IInv, NEW w \in Writers, MarkRead(w)
    PROVE  StepOK(w)
<1>1. local[w].pc = "mark_read" /\ Quiet
    BY Zenon DEF MarkRead, Quiet
<1>2. /\ local \in [Writers -> Locals] /\ local[w] \in Locals /\ local[w].snap \in Views
      /\ projection \in ProjectionStates
    BY <1>1, OwnRecord, Zenon DEF IInv, TypeOK, Knows, SnapOK, Refreshing
<1> DEFINE r == [local[w] EXCEPT !.pc = "mark_decide", !.seen = projection]
<1>3. local' = [local EXCEPT ![w] = r]
    BY <1>2, Zenon DEF MarkRead
<1>4. r \in Locals /\ r.pc = "mark_decide" /\ r.snap = local[w].snap /\ r.attempts = local[w].attempts
    BY <1>2, Zenon DEF Locals, Phases
<1> HIDE DEF r
<1>5. Moves(w) /\ local'[w] = r
    BY <1>2, <1>3, <1>4, Zenon DEF Moves, Others
<1>6. Knows(w)'
    BY <1>1, <1>2, <1>4, <1>5, RefreshKnows, Zenon DEF Refreshing, Quiet
<1> QED
    BY <1>1, <1>5, <1>6, QuietStep, Zenon

LEMMA MarkDecideStep ==
    ASSUME IInv, NEW w \in Writers, MarkDecide(w)
    PROVE  StepOK(w)
<1>1. local[w].pc = "mark_decide" /\ local[w].pc \in Refreshing /\ Running(w) /\ Quiet
    BY Zenon DEF MarkDecide, Quiet, Running, Refreshing
<1>2. local[w].snap \in Views /\ AcceptedOK(w)
    BY <1>1, OwnRecord, Zenon DEF Knows, SnapOK, Refreshing
<1>3. CASE Finish(w, "succeeded")
    BY <1>1, <1>2, <1>3, FinishStep, Zenon
<1>4. CASE Goto(w, "mark_put")
  <2>1. Moves(w) /\ Keeps(w) /\ local'[w].pc = "mark_put" /\ local'[w].snap = local[w].snap
    BY <1>4, GotoMoves, Zenon DEF Phases
  <2>2. Knows(w)'
    BY <1>1, <1>2, <2>1, RefreshKnows, Zenon DEF Refreshing, Keeps, Quiet
  <2> QED
    BY <1>1, <2>1, <2>2, QuietStep, Zenon
<1> QED
    BY <1>3, <1>4, Zenon DEF MarkDecide

LEMMA MarkPutStep ==
    ASSUME IInv, NEW w \in Writers, MarkPut(w)
    PROVE  StepOK(w)
<1>1. local[w].pc = "mark_put" /\ local[w].pc \in Refreshing /\ Running(w)
    BY Zenon DEF MarkPut, Running, Refreshing
<1>2. local[w].snap \in Views /\ AcceptedOK(w)
    BY <1>1, OwnRecord, Zenon DEF Knows, SnapOK, Refreshing
<1>3. CASE Fail(w)
    BY <1>1, <1>3, FailStep, Zenon
<1>4. CASE projection = local[w].seen
  <2>1. /\ Finish(w, "succeeded") /\ UNCHANGED <<raw, staged, pointer, coverage>>
        /\ projection' = [status |-> "pending", hash |-> SourceHash(local[w].snap),
                          projected |-> projection.projected]
    BY <1>4, Zenon DEF MarkPut
  <2>2. Knows(w)' /\ Moves(w)
    BY <1>1, <1>2, <2>1, FinishKnows, Zenon
  <2>3. SourceHash(local[w].snap) \in Views
    BY <1>2, HashKeeps, Zenon
  <2>4. projection' \in ProjectionStates
    BY <2>1, <2>3, Zenon DEF IInv, TypeOK, ProjectionStates
  <2> QED
    BY <2>1, <2>2, <2>4, LightStep, Zenon DEF raw, IInv, TypeOK
<1>5. CASE /\ Quiet /\ local[w].tries + 1 < Retries
           /\ local' = [local EXCEPT ![w].pc = "mark_read", ![w].seen = None, ![w].tries = @ + 1]
  <2>1. Moves(w) /\ Keeps(w) /\ local'[w].pc = "mark_read" /\ local'[w].snap = local[w].snap
    BY <1>5, MergeMoves, Zenon DEF Phases
  <2>2. Knows(w)'
    BY <1>1, <1>2, <1>5, <2>1, RefreshKnows, Zenon DEF Refreshing, Keeps, Quiet
  <2> QED
    BY <1>5, <2>1, <2>2, QuietStep, Zenon
<1> QED
    BY <1>3, <1>4, <1>5, Zenon DEF MarkPut, Quiet

LEMMA RefreshStep ==
    ASSUME IInv, NEW w \in Writers, Refresh(w)
    PROVE  StepOK(w)
<1>1. CASE RecordHash(w)
    BY <1>1, MergeReadStep, MergePutStep, Zenon DEF RecordHash, Merging
<1>2. CASE ~RecordHash(w)
    BY <1>2, SnapshotStep, PutCoverageStep, CompareStep, MarkReadStep, MarkDecideStep, MarkPutStep, Zenon
    DEF Refresh
<1> QED
    BY <1>1, <1>2, Zenon
-----------------------------------------------------------------------------
LEMMA NextStep ==
    ASSUME IInv, Next
    PROVE  \E w \in Writers : StepOK(w)
<1>1. ASSUME NEW d \in Deliveries, Deliver(d)
      PROVE  d \in Writers /\ StepOK(d)
  <2>1. d \in Writers
    BY Zenon DEF Writers
  <2>2. CASE MergeSession(d)
    BY <2>1, <2>2, MergeReadStep, MergePutStep, Zenon DEF MergeSession, Merging
  <2>3. CASE ~MergeSession(d)
    BY <1>1, <2>1, <2>3, FindStep, PreReadStep, PutChunkStep, AppendChunkStep, PostReadStep, Zenon DEF Deliver
  <2> QED
    BY <2>1, <2>2, <2>3, Zenon
<1>2. ASSUME NEW e \in Extractors, Extract(e)
      PROVE  e \in Writers /\ StepOK(e)
    BY <1>2, CaptureStep, CheckStep, RecheckStep, CopyStep, Zenon DEF Extract, Writers
<1>3. ASSUME NEW w \in Writers, Activate(w) \/ Refresh(w) \/ Interrupt(w)
      PROVE  StepOK(w)
    BY <1>3, ActivateStep, RefreshStep, FailStep, Zenon DEF Interrupt
<1> QED
    BY <1>1, <1>2, <1>3, Zenon DEF Next

\* What a session starts with.
LEMMA StartType ==
    ASSUME NEW b \in StartBundles
    PROVE  StartSet(b) \in SourceSets /\ StartSet(b).chunks = StartChunks
<1> DEFINE set == [session |-> None, chunks |-> StartChunks, bundle |-> b]
           view == [pinned |-> FALSE, set |-> set]
           sess == IF Members(set) = {} THEN None
                   ELSE [merged |-> Members(set), hash |-> SourceHash(view)]
<1>1. b \in Bundles /\ StartChunks \in ChunkSets /\ None \in Sessions
    BY BoundAssumption, Zenon DEF Bundles, ChunkSets, Sessions
<1>2. set \in SourceSets
    BY <1>1, Zenon DEF SourceSets
<1>3. view \in Views /\ ~view.pinned
    BY <1>2, Zenon DEF Views
<1>4. SourceHash(view) \in LegacyHashes
  <2> HIDE DEF view
  <2> QED
    BY <1>3, HashKeeps, Zenon
<1>5. Members(set) \subseteq Chunks \cup {EvidenceId}
    BY Zenon DEF Members, Present
<1>6. sess \in Sessions
  <2> HIDE DEF view, set
  <2> QED
    BY <1>4, <1>5, Zenon DEF Sessions
<1>7. StartSet(b) = [set EXCEPT !.session = sess]
    BY Zenon DEF StartSet
<1> HIDE DEF sess
<1> QED
    BY <1>1, <1>2, <1>6, <1>7, Zenon DEF SourceSets

LEMMA InitHolds ==
    ASSUME Init
    PROVE  IInv
<1>1. PICK b \in StartBundles : InitWith(StartSet(b))
    BY Zenon DEF Init
<1> DEFINE start == StartSet(b)
           view == [pinned |-> StartPinned, set |-> start]
<1>2. start \in SourceSets
    BY StartType, Zenon
<1>3. StartPinned => start.session # None
    BY StartAssumption, Zenon
<1> HIDE DEF start
<1>4. view \in Views
    BY <1>2, BoundAssumption, Zenon DEF Views
<1>5. SourceHash(view) \in Views
  <2> HIDE DEF view
  <2> QED
    BY <1>4, HashKeeps, Zenon
<1>6. InitWith(start)
    BY <1>1, Zenon DEF start
<1>7. coverage \in Views \cup {None} /\ projection \in ProjectionStates
  <2> HIDE DEF view
  <2>1. coverage \in {SourceHash(view), None}
    BY <1>6, Zenon DEF InitWith, view
  <2>2. \/ projection = [status |-> "projected", hash |-> SourceHash(view), projected |-> SourceHash(view)]
        \/ projection = [status |-> "absent", hash |-> None, projected |-> None]
    BY <1>6, Zenon DEF InitWith, view
  <2> QED
    BY <1>5, <2>1, <2>2 DEF ProjectionStates
<1>8. /\ chunks = start.chunks /\ bundle = start.bundle /\ session = start.session
      /\ copies = IF StartPinned THEN {start} ELSE {}
      /\ manifests = IF StartPinned THEN {start} ELSE {}
      /\ pointer = IF StartPinned THEN [rev |-> 1, set |-> start] ELSE [rev |-> 0, set |-> None]
      /\ local = [w \in Writers |-> Fresh]
    BY <1>6, Zenon DEF InitWith
<1>9. TypeOK
    BY <1>2, <1>7, <1>8, FreshType, Zenon DEF TypeOK, SourceSets
<1>10. StoreOK
    BY <1>2, <1>3, <1>8 DEF StoreOK, Agrees
<1>11. ASSUME NEW w \in Writers
       PROVE  Knows(w)
  <2>1. local[w].pc = "start" /\ local[w].snap = None /\ local[w].attempts = 0
    BY <1>8, Zenon DEF Fresh
  <2>2. AttemptOK(w)
    BY <2>1, BoundAssumption DEF AttemptOK
  <2> QED
    BY <2>1, <2>2, Zenon
    DEF Knows, ViewOK, ChunkOK, InputOK, StagedOK, BaseOK, SnapOK, AcceptedOK,
        Swapping, Activating, HasInput, Refreshing
<1> QED
    BY <1>9, <1>10, <1>11, Zenon DEF IInv

LEMMA StutterKeeps ==
    ASSUME IInv, UNCHANGED vars
    PROVE  IInv'
<1>1. UNCHANGED <<chunks, session, bundle, copies, manifests, pointer, coverage, projection, local>>
    BY Zenon DEF vars
<1>2. TypeOK' /\ StoreOK' /\ Monotone
    BY <1>1, Zenon DEF IInv, TypeOK, StoreOK, Agrees, Monotone
<1> QED
    BY <1>1, <1>2, Bystander, Zenon DEF IInv

\* The invariant holds of every reachable state.
THEOREM Inductive == Spec => []IInv
<1>1. IInv /\ [Next]_vars => IInv'
    BY NextStep, StepKeeps, StutterKeeps, Zenon
<1> QED
    BY <1>1, InitHolds, PTL DEF Spec

\* Every variable has its type; no writer and no inner loop of submit exceeds
\* its budget of tries.
THEOREM RevisionTypes == Spec => []TypeOK
<1>1. IInv => TypeOK
    BY Zenon DEF IInv
<1> QED
    BY <1>1, Inductive, PTL

\* The active pointer always names a set whose copies and manifest
\* activate_source_revision has stored, with one session document.
THEOREM RevisionResolves == Spec => []ActiveResolves
<1>1. IInv => ActiveResolves
    BY Zenon DEF IInv, StoreOK, ActiveResolves
<1> QED
    BY <1>1, Inductive, PTL

\* No activation, by a delivery or an extractor, drops or rewrites a chunk of
\* the active revision.
THEOREM RevisionGrows == Spec => ActiveChunksOnlyGrow
<1> DEFINE Grows == pointer.rev # 0 =>
              \A c \in Present(pointer.set.chunks) : pointer'.set.chunks[c] = pointer.set.chunks[c]
<1>1. IInv /\ [Next]_vars => [Grows]_vars
  <2>1. ASSUME IInv, Next
        PROVE  Grows
    <3>1. Monotone
      BY <2>1, NextStep, Zenon DEF StepOK
    <3> QED
      BY <3>1, Zenon DEF Monotone, Extends, Present
  <2> QED
    BY <2>1, Zenon
<1> QED
    BY <1>1, Inductive, PTL DEF Spec, ActiveChunksOnlyGrow

\* In a session that has an active pointer from the start, a delivery that
\* submit reported as succeeded is in every later revision, with its content.
\* Without the pointer this fails: the first activation can miss a delivery.
THEOREM RevisionKeepsAccepted == StartPinned /\ Spec => []AcceptedChunksStayActive
<1> SUFFICES ASSUME StartPinned
             PROVE  Spec => []AcceptedChunksStayActive
    BY Zenon
<1>1. IInv => AcceptedChunksStayActive
  <2>1. SUFFICES ASSUME IInv, NEW d \in Deliveries, Succeeded(d)
               PROVE  Resolved.set.chunks[ChunkOf[d]] = BodyOf[d]
    BY Zenon DEF AcceptedChunksStayActive
  <2>2. pointer.set.chunks[ChunkOf[d]] = BodyOf[d]
    BY <2>1, OwnRecord, Zenon DEF Writers, Knows, AcceptedOK, Succeeded
  <2>3. Resolved.set = pointer.set
    BY <2>1, ResolvedView, Zenon DEF IInv, StoreOK
  <2> QED
    BY <2>2, <2>3, Zenon
<1> QED
    BY <1>1, Inductive, PTL

-----------------------------------------------------------------------------
(***************************************************************************)
(* What is derived from a session's source, on top of the inductive        *)
(* invariant: the coverage manifest and the projection state end up naming *)
(* the last change.                                                        *)
(*                                                                         *)
(* The argument: while the manifest does not name the current source, some *)
(* writer has not compared it with the current source yet, and cannot end  *)
(* before it has; while the projection state does not ask for the current  *)
(* source, some writer still has to decide that.  Whoever changes the      *)
(* source becomes such a writer, and whoever stops being one leaves the    *)
(* document right.                                                         *)
(***************************************************************************)

\* The hash of the session's source as it is now.
Now == SourceHash(Resolved)

Marking == {"mark_read", "mark_decide", "mark_put"}
Ended == {"succeeded", "integrity"}
Waiting == {"start", "pre_read", "put_chunk", "gave_up"}

\* A delivery whose chunk is stored cannot end with an integrity refusal.
Owned(w) == w \in Deliveries => chunks[ChunkOf[w]] = BodyOf[w]

\* The writer's second snapshot is still the source.
Current(w) == SourceHash(local[w].snap) = Now

\* The writer still has to find the manifest equal to the current source.
WillCover(w) ==
    /\ Owned(w)
    /\ local[w].pc \notin Marking \cup Ended
    /\ local[w].pc = "compare" => Current(w)

\* The writer still has to decide whether the projection state asks for the
\* current source.
WillMark(w) ==
    /\ Owned(w)
    /\ local[w].pc \notin Ended
    /\ local[w].pc \in Marking \cup {"compare"} => Current(w)

\* No delivery has stored anything for the session, and one has to.
Untouched ==
    /\ Deliveries # {} /\ pointer.rev = 0
    /\ \A c \in Chunks : chunks[c] = None
    /\ \A d \in Deliveries : local[d].pc \in Waiting

\* A delivery that refreshes the derived documents has stored its chunk; the
\* projection state a writer read changes only into a pending one.
ReadOK(w) ==
    /\ local[w].pc \in Refreshing => Owned(w)
    /\ local[w].pc \in {"mark_decide", "mark_put"} =>
          /\ local[w].seen = projection \/ projection.status = "pending"
          /\ local[w].seen.status = "pending" => projection.status = "pending"
          /\ local[w].seen.projected = projection.projected

Covered == Untouched \/ coverage = Now \/ \E w \in Writers : WillCover(w)

Marked ==
    \/ Untouched \/ projection.status = "pending" \/ projection.projected = Now
    \/ \E w \in Writers : WillMark(w)

CoverInv == (\A w \in Writers : ReadOK(w)) /\ Covered /\ Marked

-----------------------------------------------------------------------------
(* The shapes of a writer's step.                                           *)

Source == <<chunks, bundle, pointer>>

\* The writer still has everything to do.
Busy(w) == WillCover(w)' /\ projection' = projection

\* A delivery that has stored nothing goes on.
Idle(w) ==
    /\ w \in Deliveries /\ ~Owned(w)
    /\ UNCHANGED <<Source, coverage, projection>>
    /\ local'[w].pc \notin Refreshing
    /\ Untouched => local'[w].pc \in Waiting

\* A delivery finds another content under its chunk's id.
Refused(w) ==
    /\ ~Owned(w) /\ ~Untouched
    /\ UNCHANGED <<Source, coverage, projection>>
    /\ local'[w].pc = "integrity"

\* The writer found the manifest right, or goes on marking.
Later(w) ==
    /\ local[w].pc \in {"compare"} \cup Marking /\ local'[w].pc \in Marking
    /\ local'[w].snap = local[w].snap
    /\ local[w].pc = "compare" => coverage = SourceHash(local[w].snap)
    /\ UNCHANGED <<Source, coverage, projection>>
    /\ ReadOK(w)'

\* The writer is done; if its snapshot is current, the projection state asks
\* for it or has it.
Ends(w) ==
    /\ local[w].pc \in Marking /\ local'[w].pc = "succeeded"
    /\ UNCHANGED <<Source, coverage>>
    /\ \/ projection' = projection
       \/ projection'.status = "pending" /\ projection'.projected = projection.projected
    /\ Current(w) => projection'.status = "pending" \/ projection'.projected = Now

Track(w) == Busy(w) \/ Idle(w) \/ Refused(w) \/ Later(w) \/ Ends(w)

\* A legacy source hash covers chunk and bundle identities only.
LEMMA LegacyHash ==
    ASSUME NEW v \in Views, ~v.pinned
    PROVE  SourceHash(v) = [pinned |-> FALSE,
               set |-> [session |-> None, chunks |-> v.set.chunks, bundle |-> v.set.bundle]]
<1> DEFINE set == [session |-> None, chunks |-> v.set.chunks, bundle |-> v.set.bundle]
<1>1. v.pinned = FALSE /\ v.set \in SourceSets
  BY Zenon DEF Views
<1>2. [v.set EXCEPT !.session = None] = set
  BY <1>1 DEF SourceSets
<1>3. SourceHash(v) = [v EXCEPT !.set = set]
  BY <1>2, Zenon DEF SourceHash, Views
<1> HIDE DEF set
<1>4. SourceHash(v) = [pinned |-> v.pinned, set |-> set]
  BY <1>3, Zenon DEF Views
<1> QED
  BY <1>1, <1>4, Zenon DEF set

\* The source hash depends on chunks, bundle and pointer, not on the session
\* envelope of a legacy session (source_revision hashes).
LEMMA SameSource ==
    ASSUME IInv, IInv', UNCHANGED Source
    PROVE  Now' = Now
<1>1. CASE pointer.rev # 0
  <2>1. Resolved' = Resolved
    BY <1>1, Zenon DEF Resolved, Source
  <2> QED
    BY <2>1, Zenon DEF Now
<1>2. CASE pointer.rev = 0
  <2>1. Resolved \in Views /\ ~Resolved.pinned /\ Resolved.set = LegacySet
    BY <1>2, ResolvedView, Zenon DEF IInv
  <2>2. (Resolved \in Views /\ ~Resolved.pinned /\ Resolved.set = LegacySet)'
    <3>1. ASSUME TypeOK', StoreOK'
          PROVE  (Resolved \in Views /\ (Resolved.pinned <=> pointer.rev # 0)
                     /\ (pointer.rev = 0 => Resolved.set = LegacySet))'
      BY <3>1, ResolvedView, PTL
    <3> QED
      BY <1>2, <3>1, Zenon DEF IInv, Source
  <2>3. LegacySet.chunks = chunks /\ LegacySet.bundle = bundle /\ (LegacySet.chunks = chunks /\ LegacySet.bundle = bundle)'
    BY Zenon DEF LegacySet
  <2>4. Now = [pinned |-> FALSE, set |-> [session |-> None, chunks |-> chunks, bundle |-> bundle]]
    BY <2>1, <2>3, LegacyHash, Zenon DEF Now
  <2>5. SourceHash(Resolved') = [pinned |-> FALSE, set |-> [session |-> None, chunks |-> chunks', bundle |-> bundle']]
    BY <2>2, <2>3, LegacyHash, Zenon
  <2>6. Now' = SourceHash(Resolved')
    BY DEF Now, SourceHash
  <2> QED
    BY <2>4, <2>5, <2>6, Zenon DEF Source
<1> QED
  BY <1>1, <1>2, Zenon

-----------------------------------------------------------------------------
(* Which shape each step has.                                               *)

Bound == Refreshing \cup Activating \cup {"merge_read", "merge_put", "post_read"}
Plain(w) == local'[w].pc \notin Marking \cup Ended \cup {"compare"} /\ projection' = projection

\* submit gets past its put only with its chunk stored.
LEMMA BoundOwned ==
    ASSUME IInv, CoverInv, NEW w \in Writers, local[w].pc \in Bound
    PROVE  Owned(w)
  BY OwnRecord, Zenon DEF CoverInv, ReadOK, Knows, ChunkOK, Owned, Bound

\* A stored chunk is never rewritten (put_if_absent).
LEMMA StaysOwned ==
    ASSUME IInv, NEW w \in Writers, Owned(w), Monotone
    PROVE  Owned(w)'
<1>1. CASE w \in Deliveries
  <2>1. ChunkOf[w] \in Chunks /\ BodyOf[w] # None
    BY <1>1, WriterAssumption, Zenon
  <2> QED
    BY <1>1, <2>1, Zenon DEF Owned, Monotone
<1> QED
  BY <1>1, Zenon DEF Owned

LEMMA PlainBusy ==
    ASSUME IInv, NEW w \in Writers, Owned(w), Monotone, Plain(w)
    PROVE  Track(w)
  BY StaysOwned, Zenon DEF Plain, Track, Busy, WillCover

LEMMA FailPlain ==
    ASSUME IInv, NEW w \in Writers, Fail(w)
    PROVE  /\ Plain(w) /\ local'[w].pc \in {"start", "gave_up"}
           /\ UNCHANGED <<Source, coverage, projection>>
<1>1. local \in [Writers -> Locals]
  BY Zenon DEF IInv, TypeOK
<1>2. local'[w] = Abandoned(w)
  BY <1>1, Zenon DEF Fail
<1>3. Abandoned(w).pc \in {"start", "gave_up"}
  BY Zenon DEF Abandoned, Fresh
<1> QED
  BY <1>2, <1>3, Zenon DEF Plain, Marking, Ended, Fail, raw, derived, Source

\* An attempt that is given up and begun again still has everything to do.
LEMMA FailTrack ==
    ASSUME IInv, CoverInv, NEW w \in Writers, Monotone, Fail(w)
    PROVE  Track(w)
<1>1. CASE Owned(w)
  BY <1>1, FailPlain, PlainBusy, Zenon
<1>2. CASE ~Owned(w)
  BY <1>2, FailPlain, Zenon DEF Owned, Track, Idle, Refreshing, Waiting
<1> QED
  BY <1>1, <1>2, Zenon

LEMMA GotoPlain ==
    ASSUME IInv, NEW w \in Writers, NEW pc \in Phases, Goto(w, pc)
    PROVE  local'[w].pc = pc /\ local'[w].snap = local[w].snap
  BY GotoMoves, Zenon DEF Keeps

LEMMA FinishPlain ==
    ASSUME IInv, NEW w \in Writers, NEW outcome, Finish(w, outcome)
    PROVE  local'[w].pc = outcome
<1>1. local \in [Writers -> Locals]
  BY Zenon DEF IInv, TypeOK
<1> QED
  BY <1>1, Zenon DEF Finish, Fresh

\* A content mismatch with an active or stored chunk means that the delivery's
\* own content is not the stored one.
LEMMA MismatchNotOwned ==
    ASSUME IInv, NEW d \in Deliveries,
           \/ Mismatch(d, chunks[ChunkOf[d]])
           \/ pointer.rev # 0 /\ Mismatch(d, pointer.set.chunks[ChunkOf[d]])
    PROVE  ~Owned(d) /\ ~Untouched
<1>1. ChunkOf[d] \in Chunks
  BY WriterAssumption, Zenon
<1>2. pointer.rev # 0 => Agrees(pointer.set)
  BY Zenon DEF IInv, StoreOK
<1> QED
  BY <1>1, <1>2, Zenon DEF Mismatch, Owned, Untouched, Agrees

LEMMA FindTrack ==
    ASSUME IInv, CoverInv, NEW d \in Deliveries, Monotone, FindByNaturalKey(d)
    PROVE  Track(d)
<1>1. d \in Writers
  BY Zenon DEF Writers
<1>2. UNCHANGED <<Source, coverage, projection>>
  BY Zenon DEF FindByNaturalKey, raw, derived, Source
<1>3. CASE Finish(d, "integrity") /\ ~Owned(d) /\ ~Untouched
  BY <1>1, <1>2, <1>3, FinishPlain, Zenon DEF Track, Refused
<1>4. CASE Goto(d, "pre_read")
  <2>1. local'[d].pc = "pre_read"
    BY <1>1, <1>4, GotoPlain, Zenon DEF Phases
  <2>2. CASE Owned(d)
    BY <1>1, <1>2, <2>1, <2>2, PlainBusy, Zenon DEF Plain, Marking, Ended
  <2>3. CASE ~Owned(d)
    BY <1>2, <2>1, <2>3, Zenon DEF Track, Idle, Refreshing, Waiting
  <2> QED
    BY <2>2, <2>3, Zenon
<1> QED
  BY <1>3, <1>4, MismatchNotOwned, Zenon DEF FindByNaturalKey

\* A pointer read refuses the delivery, or sends it on.
LEMMA ReadTrack ==
    ASSUME IInv, CoverInv, NEW d \in Deliveries, Monotone, PreRead(d) \/ PostRead(d)
    PROVE  Track(d)
<1>1. d \in Writers /\ local \in [Writers -> Locals]
  BY Zenon DEF Writers, IInv, TypeOK
<1>2. UNCHANGED <<Source, coverage, projection>>
  BY Zenon DEF PreRead, PostRead, ReadPointer, raw, derived, Source
<1>3. CASE Finish(d, "integrity") /\ pointer.rev # 0 /\ Mismatch(d, pointer.set.chunks[ChunkOf[d]])
  BY <1>1, <1>2, <1>3, FinishPlain, MismatchNotOwned, Zenon DEF Track, Refused
<1>4. CASE PreRead(d) /\ pointer.rev = 0 /\ Goto(d, "put_chunk")
  <2>1. local'[d].pc = "put_chunk"
    BY <1>1, <1>4, GotoPlain, Zenon DEF Phases
  <2>2. CASE Owned(d)
    BY <1>1, <1>2, <2>1, <2>2, PlainBusy, Zenon DEF Plain, Marking, Ended
  <2>3. CASE ~Owned(d)
    BY <1>2, <2>1, <2>3, Zenon DEF Track, Idle, Refreshing, Waiting
  <2> QED
    BY <2>2, <2>3, Zenon
<1>5. CASE PreRead(d) /\ pointer.rev # 0 /\ local' = [local EXCEPT ![d].pc = "append_chunk", ![d].view = Resolved]
  <2>1. local'[d].pc = "append_chunk"
    BY <1>1, <1>5, Zenon DEF Locals
  <2>2. CASE Owned(d)
    BY <1>1, <1>2, <2>1, <2>2, PlainBusy, Zenon DEF Plain, Marking, Ended
  <2>3. CASE ~Owned(d)
    BY <1>2, <1>5, <2>1, <2>3, Zenon DEF Track, Idle, Refreshing, Untouched
  <2> QED
    BY <2>2, <2>3, Zenon
<1>6. CASE /\ PostRead(d)
           /\ \/ Goto(d, "snapshot")
              \/ local' = [local EXCEPT ![d].pc = "activate", ![d].view = Resolved]
  <2>1. local'[d].pc \in {"snapshot", "activate"}
    <3>1. CASE Goto(d, "snapshot")
      BY <1>1, <3>1, GotoPlain, Zenon DEF Phases
    <3>2. CASE local' = [local EXCEPT ![d].pc = "activate", ![d].view = Resolved]
      BY <1>1, <3>2, Zenon DEF Locals
    <3> QED
      BY <1>6, <3>1, <3>2, Zenon
  <2>2. Owned(d)
    BY <1>1, <1>6, BoundOwned, Zenon DEF PostRead, Bound
  <2> QED
    BY <1>1, <1>2, <2>1, <2>2, PlainBusy, Zenon DEF Plain, Marking, Ended
<1> QED
  BY <1>3, <1>4, <1>5, <1>6, Zenon DEF PreRead, PostRead, ReadPointer

LEMMA PutChunkTrack ==
    ASSUME IInv, CoverInv, NEW d \in Deliveries, Monotone, PutChunk(d) \/ AppendChunk(d)
    PROVE  Track(d)
<1>1. d \in Writers /\ chunks \in ChunkSets /\ ChunkOf[d] \in Chunks
  BY WriterAssumption, Zenon DEF Writers, IInv, TypeOK
<1>2. CASE Fail(d)
  BY <1>1, <1>2, FailTrack, Zenon
<1>3. CASE Mismatch(d, chunks[ChunkOf[d]]) /\ Finish(d, "integrity") /\ UNCHANGED <<Source, coverage, projection>>
  BY <1>1, <1>3, FinishPlain, MismatchNotOwned, Zenon DEF Track, Refused
<1>4. CASE /\ chunks' = [chunks EXCEPT ![ChunkOf[d]] = BodyOf[d]]
           /\ Goto(d, "merge_read") \/ Goto(d, "activate")
           /\ projection' = projection
  <2>1. local'[d].pc \in {"merge_read", "activate"}
    BY <1>1, <1>4, GotoPlain, Zenon DEF Phases
  <2>2. Owned(d)'
    BY <1>1, <1>4, Zenon DEF Owned, ChunkSets
  <2> QED
    BY <1>4, <2>1, <2>2, Zenon DEF Track, Busy, WillCover, Marking, Ended
<1> QED
  BY <1>2, <1>3, <1>4, Zenon DEF PutChunk, AppendChunk, derived, Source

\* A step of a writer past its put, or of an extractor, that only goes on.
LEMMA OnTrack ==
    ASSUME IInv, CoverInv, NEW w \in Writers, Monotone, projection' = projection,
           w \in Extractors \/ local[w].pc \in Bound,
           local'[w].pc \in Phases \ (Marking \cup Ended \cup {"compare"})
    PROVE  Track(w)
<1>1. Owned(w)
  BY BoundOwned, WriterAssumption, Zenon DEF Owned
<1> QED
  BY <1>1, PlainBusy, Zenon DEF Plain

LEMMA MergeTrack ==
    ASSUME IInv, CoverInv, NEW w \in Writers, Monotone, NEW read, NEW put, NEW next,
           Merging(w, read, put, next),
           MergeRead(w, read, put, next) \/ MergePut(w, put, read, next)
    PROVE  Track(w)
<1>1. /\ {read, put, next} \subseteq Phases \ (Marking \cup Ended \cup {"compare"})
      /\ local[w].pc \in Bound
  BY Zenon DEF Merging, MergeRead, MergePut, Phases, Marking, Ended, Bound, Refreshing
<1>2. projection' = projection
  BY Zenon DEF MergeRead, MergePut, Fail, derived
<1>3. ASSUME NEW pc \in {read, put, next},
             \/ local' = [local EXCEPT ![w].pc = pc, ![w].tries = 0]
             \/ local' = [local EXCEPT ![w].pc = pc, ![w].seen = session]
             \/ local' = [local EXCEPT ![w].pc = pc, ![w].seen = None, ![w].tries = 0]
             \/ /\ local[w].tries + 1 < Retries
                /\ local' = [local EXCEPT ![w].pc = pc, ![w].seen = None, ![w].tries = @ + 1]
      PROVE  Track(w)
  <2>1. pc \in Phases
    BY <1>1, <1>3, Zenon
  <2>2. local'[w].pc = pc
    BY <1>3, <2>1, MergeMoves, Zenon
  <2> QED
    BY <1>1, <1>2, <2>2, OnTrack, Zenon
<1>4. CASE Fail(w)
  BY <1>4, FailTrack, Zenon
<1>5. CASE MergeRead(w, read, put, next)
  BY <1>3, <1>4, <1>5, Zenon DEF MergeRead
<1>6. CASE MergePut(w, put, read, next)
  BY <1>3, <1>4, <1>6, Zenon DEF MergePut
<1> QED
  BY <1>5, <1>6, Zenon

LEMMA DeliverTrack ==
    ASSUME IInv, CoverInv, NEW d \in Deliveries, Monotone, Deliver(d)
    PROVE  Track(d)
<1>1. d \in Writers
  BY Zenon DEF Writers
<1>2. CASE MergeSession(d)
  BY <1>1, <1>2, MergeTrack, Zenon DEF MergeSession, Merging
<1> QED
  BY <1>2, FindTrack, ReadTrack, PutChunkTrack, Zenon DEF Deliver

LEMMA ExtractTrack ==
    ASSUME IInv, CoverInv, NEW e \in Extractors, Monotone, Extract(e)
    PROVE  Track(e)
<1>1. e \in Writers /\ local \in [Writers -> Locals]
  BY Zenon DEF Writers, IInv, TypeOK
<1>2. CASE Fail(e)
  BY <1>1, <1>2, FailTrack, Zenon
<1>3. ASSUME NEW pc \in {"check", "recheck", "copy", "snapshot", "activate"}, local'[e].pc = pc, projection' = projection
      PROVE  Track(e)
  BY <1>1, <1>3, OnTrack, Zenon DEF Phases, Marking, Ended
<1>4. CASE Capture(e)
  <2>1. local'[e].pc = "check"
    BY <1>1, <1>4, Zenon DEF Capture, Locals
  <2> QED
    BY <1>3, <1>4, <2>1, Zenon DEF Capture, derived
<1>5. CASE CheckPredecessor(e) /\ ~Fail(e)
  <2>1. \/ local' = [local EXCEPT ![e].pc = "recheck", ![e].active = Resolved]
        \/ local' = [local EXCEPT ![e].pc = "copy",
                                  ![e].input = [Resolved.set EXCEPT !.bundle = GenerationOf[e]]]
    BY <1>5, Zenon DEF CheckPredecessor
  <2>2. local'[e].pc = "recheck" \/ local'[e].pc = "copy"
    BY <1>1, <2>1, Zenon DEF Locals
  <2> QED
    BY <1>3, <1>5, <2>2, Zenon DEF CheckPredecessor, derived
<1>6. CASE RecheckPredecessor(e) /\ ~Fail(e)
  <2>1. local'[e].pc = "snapshot"
    BY <1>1, <1>6, GotoPlain, Zenon DEF RecheckPredecessor, Phases
  <2> QED
    BY <1>3, <1>6, <2>1, Zenon DEF RecheckPredecessor, derived
<1>7. CASE CopyGeneration(e)
  <2>1. local'[e].pc = "activate"
    BY <1>1, <1>7, GotoPlain, Zenon DEF CopyGeneration, Phases
  <2> QED
    BY <1>3, <1>7, <2>1, Zenon DEF CopyGeneration, derived
<1> QED
  BY <1>2, <1>4, <1>5, <1>6, <1>7, Zenon DEF Extract

LEMMA ActivateTrack ==
    ASSUME IInv, CoverInv, NEW w \in Writers, Monotone, Activate(w)
    PROVE  Track(w)
<1>1. local \in [Writers -> Locals]
  BY Zenon DEF IInv, TypeOK
<1>2. CASE Fail(w)
  BY <1>2, FailTrack, Zenon
<1>3. local[w].pc \in Bound
  BY Zenon DEF Activate, BeginActivation, LoadSources, LoadConflict, StageCopies, StageControl, Fence,
               SwapPointer, Confirm, Bound, Activating, Swapping
<1>4. CASE ~Fail(w)
  <2>1. projection' = projection
    BY <1>4, Zenon DEF Activate, BeginActivation, LoadSources, LoadConflict, StageCopies, StageControl, Fence,
                       SwapPointer, Confirm, derived
  <2>2. \/ \E pc \in {"stage", "control", "fence", "swap", "confirm"} : Goto(w, pc)
        \/ local' = [local EXCEPT ![w].pc = "load", ![w].base = pointer.rev]
        \/ local' = [local EXCEPT ![w].pc = "stage", ![w].input = Loaded(Allowlisted(w))]
        \/ local' = [local EXCEPT ![w] = [Fresh EXCEPT !.pc = "snapshot", !.active = Resolved,
                                                       !.attempts = local[w].attempts]]
    BY <1>4, Zenon DEF Activate, BeginActivation, LoadSources, LoadConflict, StageCopies, StageControl, Fence,
                       SwapPointer, Confirm
  <2>3. local'[w].pc \in {"load", "stage", "control", "fence", "swap", "confirm", "snapshot"}
    <3>1. CASE \E pc \in {"stage", "control", "fence", "swap", "confirm"} : Goto(w, pc)
      BY <3>1, GotoPlain, Zenon DEF Phases
    <3>2. CASE local' = [local EXCEPT ![w].pc = "load", ![w].base = pointer.rev]
      BY <1>1, <3>2, Zenon DEF Locals
    <3>3. CASE local' = [local EXCEPT ![w].pc = "stage", ![w].input = Loaded(Allowlisted(w))]
      BY <1>1, <3>3, Zenon DEF Locals
    <3>4. CASE local' = [local EXCEPT ![w] = [Fresh EXCEPT !.pc = "snapshot", !.active = Resolved,
                                                           !.attempts = local[w].attempts]]
      BY <1>1, <3>4, Zenon DEF Fresh
    <3> QED
      BY <2>2, <3>1, <3>2, <3>3, <3>4, Zenon
  <2> QED
    BY <1>3, <2>1, <2>3, OnTrack, Zenon DEF Phases, Marking, Ended
<1> QED
  BY <1>2, <1>4, Zenon

LEMMA SnapshotTrack ==
    ASSUME IInv, CoverInv, NEW w \in Writers, Monotone,
           CoverageSnapshot(w) \/ PutCoverage(w) \/ Recount(w)
    PROVE  Track(w)
<1>1. local \in [Writers -> Locals] /\ local[w].pc \in Bound /\ projection' = projection
  BY Zenon DEF IInv, TypeOK, CoverageSnapshot, PutCoverage, Recount, Bound, Refreshing, derived
<1>2. CASE CoverageSnapshot(w)
  <2>1. local'[w].pc = "put_coverage"
    BY <1>1, <1>2, Zenon DEF CoverageSnapshot, Locals
  <2> QED
    BY <1>1, <2>1, OnTrack, Zenon DEF Phases, Marking, Ended
<1>3. CASE PutCoverage(w)
  <2>1. local'[w].pc \in {"recount", "hash_read"}
    BY <1>3, GotoPlain, Zenon DEF PutCoverage, Phases
  <2> QED
    BY <1>1, <2>1, OnTrack, Zenon DEF Phases, Marking, Ended
<1>4. CASE Recount(w)
  <2>1. local'[w].pc = "compare" /\ local'[w].snap = Resolved
    <3>1. local' = [local EXCEPT ![w].pc = "compare", ![w].snap = Resolved]
      BY <1>4, Zenon DEF Recount
    <3>2. \A v : local' = [local EXCEPT ![w].pc = "compare", ![w].snap = v] =>
             local'[w].pc = "compare" /\ local'[w].snap = v
      BY <1>1, Zenon DEF Locals
    <3> QED
      BY <3>1, <3>2, Zenon
  <2>2. UNCHANGED <<pointer, chunks, session, bundle>>
    BY <1>4, Zenon DEF Recount, raw
  <2>3. Now' = SourceHash(Resolved)
    BY <2>2, Zenon DEF Now, Resolved, LegacySet, SourceHash
  <2>4. Current(w)'
    BY <2>1, <2>3, Zenon DEF Current, SourceHash
  <2>5. Owned(w)'
    BY <1>1, BoundOwned, StaysOwned, Zenon
  <2> QED
    BY <1>1, <2>1, <2>4, <2>5, Zenon DEF Track, Busy, WillCover, Marking, Ended
<1> QED
  BY <1>2, <1>3, <1>4, Zenon

\* A writer leaves the comparison for the projection state only when the
\* manifest equals its second snapshot.
LEMMA CompareTrack ==
    ASSUME IInv, CoverInv, NEW w \in Writers, Monotone, CompareCoverage(w)
    PROVE  Track(w)
<1>1. local \in [Writers -> Locals] /\ local[w].pc \in Bound
  BY Zenon DEF IInv, TypeOK, CompareCoverage, Bound, Refreshing
<1>2. CASE Fail(w)
  BY <1>2, FailTrack, Zenon
<1>3. CASE /\ Converged(w) /\ local' = [local EXCEPT ![w].pc = "mark_read", ![w].rounds = 0]
           /\ UNCHANGED <<raw, staged, pointer, derived>>
  <2>1. local'[w].pc = "mark_read" /\ local'[w].snap = local[w].snap
    BY <1>1, <1>3, Zenon DEF Locals
  <2>2. coverage = SourceHash(local[w].snap)
    BY <1>3, Zenon DEF Converged
  <2>3. ReadOK(w)'
    BY <1>1, <2>1, BoundOwned, StaysOwned, Zenon DEF ReadOK
  <2>4. UNCHANGED <<Source, coverage, projection>>
    BY <1>3, Zenon DEF Source, raw, derived
  <2> QED
    BY <2>1, <2>2, <2>3, <2>4, Zenon DEF Track, Later, Marking, CompareCoverage
<1>4. CASE /\ local' = [local EXCEPT ![w].pc = "snapshot", ![w].snap = None, ![w].rounds = @ + 1]
           /\ UNCHANGED <<raw, staged, pointer, derived>>
  <2>1. local'[w].pc = "snapshot"
    BY <1>1, <1>4, Zenon DEF Locals
  <2> QED
    BY <1>1, <1>4, <2>1, OnTrack, Zenon DEF Phases, Marking, Ended, derived
<1> QED
  BY <1>2, <1>3, <1>4, Zenon DEF CompareCoverage

LEMMA MarkReadTrack ==
    ASSUME IInv, CoverInv, NEW w \in Writers, Monotone, MarkRead(w)
    PROVE  Track(w)
<1>1. local \in [Writers -> Locals] /\ local[w].pc = "mark_read"
  BY Zenon DEF IInv, TypeOK, MarkRead
<1>2. local'[w].pc = "mark_decide" /\ local'[w].snap = local[w].snap /\ local'[w].seen = projection
  BY <1>1, Zenon DEF MarkRead, Locals
<1>3. UNCHANGED <<Source, coverage, projection>>
  BY Zenon DEF MarkRead, Source, raw, derived
<1>4. Owned(w)'
  BY <1>1, BoundOwned, StaysOwned, Zenon DEF Bound, Refreshing
<1>5. ReadOK(w)'
  BY <1>2, <1>3, <1>4, Zenon DEF ReadOK
<1> QED
  BY <1>1, <1>2, <1>3, <1>5, Zenon DEF Track, Later, Marking

\* mark_projection_pending_if_source_changed leaves a current source alone
\* only when it is projected already or pending already.
LEMMA MarkDecideTrack ==
    ASSUME IInv, CoverInv, NEW w \in Writers, Monotone, MarkDecide(w)
    PROVE  Track(w)
<1>1. local \in [Writers -> Locals] /\ local[w].pc = "mark_decide"
  BY Zenon DEF IInv, TypeOK, MarkDecide
<1>2. UNCHANGED <<Source, coverage, projection>>
  BY Zenon DEF MarkDecide, Source, raw, derived
<1>3. /\ local[w].seen.status = "pending" => projection.status = "pending"
      /\ local[w].seen.projected = projection.projected
  BY <1>1, Zenon DEF CoverInv, ReadOK
<1>4. CASE Goto(w, "mark_put")
  <2>1. /\ local'[w].pc = "mark_put" /\ local'[w].snap = local[w].snap
        /\ local'[w].seen = local[w].seen
    BY <1>1, <1>4, Zenon DEF Goto, Locals
  <2>2. Owned(w)'
    BY <1>1, BoundOwned, StaysOwned, Zenon DEF Bound, Refreshing
  <2>3. ReadOK(w)'
    BY <1>1, <1>2, <2>1, <2>2, Zenon DEF ReadOK, CoverInv
  <2> QED
    BY <1>1, <1>2, <2>1, <2>3, Zenon DEF Track, Later, Marking
<1>5. CASE ~MarkNeeded(w) /\ Finish(w, "succeeded")
  <2>1. local'[w].pc = "succeeded"
    BY <1>5, FinishPlain, Zenon
  <2>2. Current(w) => projection.status = "pending" \/ projection.projected = Now
    BY <1>3, <1>5, Zenon DEF MarkNeeded, Current, Now
  <2> QED
    BY <1>1, <1>2, <2>1, <2>2, Zenon DEF Track, Ends, Marking
<1> QED
  BY <1>4, <1>5, Zenon DEF MarkDecide

LEMMA MarkPutTrack ==
    ASSUME IInv, CoverInv, NEW w \in Writers, Monotone, MarkPut(w)
    PROVE  Track(w)
<1>1. local \in [Writers -> Locals] /\ local[w].pc = "mark_put"
  BY Zenon DEF IInv, TypeOK, MarkPut
<1>2. CASE Fail(w)
  BY <1>2, FailTrack, Zenon
<1>3. CASE projection = local[w].seen
  <2>1. /\ Finish(w, "succeeded") /\ UNCHANGED <<Source, coverage>>
        /\ projection' = [status |-> "pending", hash |-> SourceHash(local[w].snap),
                          projected |-> projection.projected]
    BY <1>3, Zenon DEF MarkPut, Source, raw
  <2>2. projection'.status = "pending" /\ projection'.projected = projection.projected
    BY <2>1, Zenon
  <2>3. local'[w].pc = "succeeded"
    BY <2>1, FinishPlain, Zenon
  <2> QED
    BY <1>1, <2>1, <2>2, <2>3, Zenon DEF Track, Ends, Marking
<1>4. CASE /\ local' = [local EXCEPT ![w].pc = "mark_read", ![w].seen = None, ![w].tries = @ + 1]
           /\ UNCHANGED <<raw, staged, pointer, derived>>
  <2>1. local'[w].pc = "mark_read" /\ local'[w].snap = local[w].snap
    BY <1>1, <1>4, Zenon DEF Locals
  <2>2. UNCHANGED <<Source, coverage, projection>>
    BY <1>4, Zenon DEF Source, raw, derived
  <2>3. Owned(w)'
    BY <1>1, BoundOwned, StaysOwned, Zenon DEF Bound, Refreshing
  <2>4. ReadOK(w)'
    BY <2>1, <2>3, Zenon DEF ReadOK
  <2> QED
    BY <1>1, <2>1, <2>2, <2>4, Zenon DEF Track, Later, Marking
<1> QED
  BY <1>2, <1>3, <1>4, Zenon DEF MarkPut

\* Every step of a writer has one of the shapes.
LEMMA NextTrack ==
    ASSUME IInv, CoverInv, Next
    PROVE  \E w \in Writers : StepOK(w) /\ Track(w)
<1>1. ASSUME NEW d \in Deliveries, Deliver(d)
      PROVE  d \in Writers /\ StepOK(d) /\ Track(d)
  <2>1. d \in Writers
    BY Zenon DEF Writers
  <2>2. StepOK(d)
    <3>1. CASE MergeSession(d)
      BY <2>1, <3>1, MergeReadStep, MergePutStep, Zenon DEF MergeSession, Merging
    <3>2. CASE ~MergeSession(d)
      BY <1>1, <2>1, <3>2, FindStep, PreReadStep, PutChunkStep, AppendChunkStep, PostReadStep, Zenon DEF Deliver
    <3> QED
      BY <3>1, <3>2, Zenon
  <2> QED
    BY <1>1, <2>1, <2>2, DeliverTrack, Zenon DEF StepOK
<1>2. ASSUME NEW e \in Extractors, Extract(e)
      PROVE  e \in Writers /\ StepOK(e) /\ Track(e)
  <2>1. e \in Writers /\ StepOK(e)
    BY <1>2, CaptureStep, CheckStep, RecheckStep, CopyStep, Zenon DEF Extract, Writers
  <2> QED
    BY <1>2, <2>1, ExtractTrack, Zenon DEF StepOK
<1>3. ASSUME NEW w \in Writers, Activate(w) \/ Refresh(w) \/ Interrupt(w)
      PROVE  StepOK(w) /\ Track(w)
  <2>1. StepOK(w)
    BY <1>3, ActivateStep, RefreshStep, FailStep, Zenon DEF Interrupt
  <2>2. Monotone
    BY <2>1, Zenon DEF StepOK
  <2>3. CASE RecordHash(w)
    BY <2>1, <2>2, <2>3, MergeTrack, Zenon DEF RecordHash, Merging
  <2>4. CASE Refresh(w) /\ ~RecordHash(w)
    BY <2>1, <2>2, <2>4, SnapshotTrack, CompareTrack, MarkReadTrack, MarkDecideTrack, MarkPutTrack, Zenon DEF Refresh
  <2>5. CASE Activate(w)
    BY <2>1, <2>2, <2>5, ActivateTrack, Zenon
  <2>6. CASE Interrupt(w)
    BY <2>1, <2>2, <2>6, FailTrack, Zenon DEF Interrupt
  <2> QED
    BY <1>3, <2>1, <2>3, <2>4, <2>5, <2>6, Zenon
<1> QED
  BY <1>1, <1>2, <1>3, Zenon DEF Next
-----------------------------------------------------------------------------
\* What a writer that does not move keeps when the source does not change.
LEMMA OtherKeeps ==
    ASSUME IInv, IInv', NEW v \in Writers, local'[v] = local[v], Monotone, UNCHANGED Source
    PROVE  (WillCover(v) => WillCover(v)') /\ (WillMark(v) => WillMark(v)')
<1>1. Now' = Now
  BY SameSource, Zenon
<1>2. Current(v) => Current(v)'
  BY <1>1, Zenon DEF Current, SourceHash
<1>3. Owned(v) => Owned(v)'
  BY StaysOwned, Zenon
<1> QED
  BY <1>2, <1>3, Zenon DEF WillCover, WillMark

\* No writer changes the projection state but into a pending one.
LEMMA OtherReads ==
    ASSUME IInv, NEW v \in Writers, local'[v] = local[v], Monotone, ReadOK(v),
           \/ projection' = projection
           \/ projection'.status = "pending" /\ projection'.projected = projection.projected
    PROVE  ReadOK(v)'
  BY StaysOwned, Zenon DEF ReadOK

LEMMA ReadsKeep ==
    ASSUME IInv, CoverInv, NEW w \in Writers, StepOK(w), Track(w)
    PROVE  \A v \in Writers : ReadOK(v)'
<1>1. /\ Monotone
      /\ \/ projection' = projection
         \/ projection'.status = "pending" /\ projection'.projected = projection.projected
  BY Zenon DEF StepOK, Track, Busy, Idle, Refused, Later, Ends
<1>2. ASSUME NEW v \in Writers, v # w
      PROVE  ReadOK(v)'
  BY <1>1, <1>2, OtherReads, Zenon DEF StepOK, Others, CoverInv
<1>3. ReadOK(w)'
  <2>1. CASE Busy(w)
    BY <2>1, Zenon DEF Busy, WillCover, ReadOK, Marking
  <2>2. CASE Idle(w)
    BY <2>2, Zenon DEF Idle, ReadOK, Refreshing
  <2>3. CASE Refused(w) \/ Ends(w)
    BY <2>3, Zenon DEF Refused, Ends, ReadOK, Refreshing
  <2>4. CASE Later(w)
    BY <2>4, Zenon DEF Later
  <2> QED
    BY <2>1, <2>2, <2>3, <2>4, Zenon DEF Track
<1> QED
  BY <1>2, <1>3, Zenon

\* Without a source change, an untouched session stays untouched.
LEMMA UntouchedKeeps ==
    ASSUME IInv, NEW w \in Writers, StepOK(w), Track(w), ~Busy(w), Untouched
    PROVE  Untouched'
<1>1. UNCHANGED Source /\ (w \in Deliveries => local'[w].pc \in Waiting)
  <2>1. w \in Deliveries => local[w].pc \in Waiting
    BY Zenon DEF Untouched
  <2> QED
    BY <2>1, Zenon DEF Track, Idle, Refused, Later, Ends, Marking, Waiting
<1>2. \A d \in Deliveries : local'[d].pc \in Waiting
  BY <1>1, Zenon DEF StepOK, Others, Untouched, Writers
<1> QED
  BY <1>1, <1>2, Zenon DEF Untouched, Source

LEMMA CoveredKeeps ==
    ASSUME IInv, IInv', CoverInv, NEW w \in Writers, StepOK(w), Track(w)
    PROVE  Covered'
<1>1. CASE Busy(w)
  BY <1>1, Zenon DEF Busy, Covered
<1>2. CASE ~Busy(w)
  <2>1. UNCHANGED <<Source, coverage>> /\ Monotone
    BY <1>2, Zenon DEF Track, Idle, Refused, Later, Ends, StepOK
  <2>2. Now' = Now
    BY <2>1, SameSource, Zenon
  <2>3. CASE Untouched
    BY <1>2, <2>3, UntouchedKeeps, Zenon DEF Covered
  <2>4. CASE coverage = Now
    BY <2>1, <2>2, <2>4, Zenon DEF Covered
  <2>5. ASSUME NEW v \in Writers, WillCover(v), v # w
        PROVE  Covered'
    <3>1. local'[v] = local[v]
      BY <2>5, Zenon DEF StepOK, Others
    <3> QED
      BY <2>1, <2>5, <3>1, OtherKeeps, Zenon DEF Covered
  <2>6. CASE WillCover(w)
    <3>1. Later(w) /\ local[w].pc = "compare" /\ Current(w)
      BY <1>2, <2>6, Zenon DEF Track, Idle, Refused, Later, Ends, WillCover
    <3>2. coverage = Now
      BY <3>1, Zenon DEF Later, Current
    <3> QED
      BY <2>4, <3>2, Zenon
  <2> QED
    BY <2>3, <2>4, <2>5, <2>6, Zenon DEF CoverInv, Covered
<1> QED
  BY <1>1, <1>2, Zenon

LEMMA MarkedKeeps ==
    ASSUME IInv, IInv', CoverInv, NEW w \in Writers, StepOK(w), Track(w)
    PROVE  Marked'
<1>1. CASE Busy(w)
  BY <1>1, Zenon DEF Busy, WillCover, WillMark, Marked
<1>2. CASE ~Busy(w)
  <2>1. /\ UNCHANGED <<Source, coverage>> /\ Monotone
        /\ \/ projection' = projection
           \/ projection'.status = "pending" /\ projection'.projected = projection.projected
    BY <1>2, Zenon DEF Track, Idle, Refused, Later, Ends, StepOK
  <2>2. Now' = Now
    BY <2>1, SameSource, Zenon
  <2>3. CASE Untouched
    BY <1>2, <2>3, UntouchedKeeps, Zenon DEF Marked
  <2>4. CASE projection.status = "pending" \/ projection.projected = Now
    BY <2>1, <2>2, <2>4, Zenon DEF Marked
  <2>5. ASSUME NEW v \in Writers, WillMark(v), v # w
        PROVE  Marked'
    <3>1. local'[v] = local[v]
      BY <2>5, Zenon DEF StepOK, Others
    <3> QED
      BY <2>1, <2>5, <3>1, OtherKeeps, Zenon DEF Marked
  <2>6. CASE WillMark(w)
    <3>1. \/ Later(w) /\ Current(w)
          \/ Ends(w) /\ Current(w)
      BY <1>2, <2>6, Zenon DEF Track, Idle, Refused, Later, Ends, WillMark
    <3>2. CASE Later(w) /\ Current(w)
      <4>1. Current(w)'
        BY <2>2, <3>2, Zenon DEF Later, Current, SourceHash
      <4>2. Owned(w)'
        BY <2>1, <2>6, StaysOwned, Zenon DEF WillMark
      <4> QED
        BY <3>2, <4>1, <4>2, Zenon DEF Marked, WillMark, Later, Marking, Ended
    <3>3. CASE Ends(w) /\ Current(w)
      BY <2>2, <3>3, Zenon DEF Ends, Marked
    <3> QED
      BY <3>1, <3>2, <3>3, Zenon
  <2> QED
    BY <2>3, <2>4, <2>5, <2>6, Zenon DEF CoverInv, Marked
<1> QED
  BY <1>1, <1>2, Zenon
-----------------------------------------------------------------------------
LEMMA CoverKeeps ==
    ASSUME IInv, CoverInv, Next
    PROVE  CoverInv'
<1>1. PICK w \in Writers : StepOK(w) /\ Track(w)
  BY NextTrack, Zenon
<1>2. IInv'
  BY <1>1, StepKeeps, Zenon
<1>3. (\A v \in Writers : ReadOK(v))' /\ Covered' /\ Marked'
  BY <1>1, <1>2, ReadsKeep, CoveredKeeps, MarkedKeeps, Zenon
<1> QED
  BY <1>3, Zenon DEF CoverInv

LEMMA CoverStutters ==
    ASSUME CoverInv, UNCHANGED vars
    PROVE  CoverInv'
<1>1. UNCHANGED <<chunks, session, bundle, copies, manifests, pointer, coverage, projection, local>>
  BY Zenon DEF vars
<1>2. Now' = Now
  BY <1>1, Zenon DEF Now, Resolved, LegacySet, SourceHash
<1>3. \A w \in Writers : (Owned(w) <=> Owned(w)') /\ (Current(w) <=> Current(w)')
  BY <1>1, <1>2, Zenon DEF Owned, Current, SourceHash
<1>4. Untouched => Untouched'
  BY <1>1, Zenon DEF Untouched
<1>5. \A w \in Writers : (WillCover(w) => WillCover(w)') /\ (WillMark(w) => WillMark(w)')
  BY <1>1, <1>3, Zenon DEF WillCover, WillMark
<1>6. \A w \in Writers : ReadOK(w) => ReadOK(w)'
  BY <1>1, <1>3, Zenon DEF ReadOK
<1>7. Covered => Covered'
  BY <1>1, <1>2, <1>4, <1>5, Zenon DEF Covered
<1>8. Marked => Marked'
  BY <1>1, <1>2, <1>4, <1>5, Zenon DEF Marked
<1> QED
  BY <1>6, <1>7, <1>8, Zenon DEF CoverInv

\* A session starts with its documents derived from its source, or empty.
LEMMA CoverStarts ==
    ASSUME Writers # {}, Init
    PROVE  CoverInv
<1>1. PICK b \in StartBundles : InitWith(StartSet(b))
  BY Zenon DEF Init
<1> DEFINE start == StartSet(b)
           view == [pinned |-> StartPinned, set |-> start]
<1>2. start \in SourceSets /\ start.chunks = StartChunks
  BY StartType, Zenon
<1> HIDE DEF start
<1>3. InitWith(start)
  BY <1>1, Zenon DEF start
<1>4. \A w \in Writers : local[w].pc = "start"
  BY <1>3, Zenon DEF InitWith, Fresh
<1>5. \A w \in Writers : ReadOK(w)
  BY <1>4, Zenon DEF ReadOK, Refreshing
<1>6. CASE Members(start) # {}
  <2>1. Resolved = view
    <3>1. CASE StartPinned
      BY <1>3, <3>1, BoundAssumption DEF InitWith, Resolved
    <3>2. CASE ~StartPinned
      <4>1. start = [session |-> start.session, chunks |-> start.chunks, bundle |-> start.bundle]
        BY <1>2, Zenon DEF SourceSets
      <4>2. StartPinned = FALSE
        BY <3>2, BoundAssumption, Zenon
      <4>3. LegacySet = start
        BY <1>3, <4>1, Zenon DEF InitWith, LegacySet
      <4>4. pointer.rev = 0
        BY <1>3, <3>2, Zenon DEF InitWith
      <4> QED
        BY <4>2, <4>3, <4>4, Zenon DEF Resolved
    <3> QED
      BY <3>1, <3>2, Zenon
  <2> HIDE DEF view
  <2>2. coverage = SourceHash(view) /\ projection.projected = SourceHash(view)
    BY <1>3, <1>6, Zenon DEF InitWith, view
  <2> QED
    BY <1>5, <2>1, <2>2, Zenon DEF CoverInv, Covered, Marked, Now
<1>7. CASE Members(start) = {}
  <2>1. CASE Extractors # {}
    <3>1. PICK e \in Extractors : TRUE
      BY <2>1, Zenon
    <3>2. e \in Writers /\ e \notin Deliveries
      BY WriterAssumption, Zenon DEF Writers
    <3>3. WillCover(e) /\ WillMark(e)
      BY <1>4, <3>2, Zenon DEF WillCover, WillMark, Owned, Marking, Ended
    <3> QED
      BY <1>5, <3>2, <3>3, Zenon DEF CoverInv, Covered, Marked
  <2>2. CASE Extractors = {}
    <3>1. Deliveries # {}
      BY <2>2, Zenon DEF Writers
    <3>2. \A c \in Chunks : start.chunks[c] = None
      BY <1>7, Zenon DEF Members, Present
    <3>3. start.session = None
      <4> DEFINE set == [session |-> None, chunks |-> StartChunks, bundle |-> b]
                 sess == IF Members(set) = {} THEN None
                         ELSE [merged |-> Members(set),
                               hash |-> SourceHash([pinned |-> FALSE, set |-> set])]
      <4>1. start = [set EXCEPT !.session = sess]
        BY Zenon DEF start, StartSet
      <4>2. sess = IF Members(set) = {} THEN None
                   ELSE [merged |-> Members(set),
                         hash |-> SourceHash([pinned |-> FALSE, set |-> set])]
        BY Zenon
      <4> HIDE DEF sess
      <4>3. start.chunks = set.chunks /\ start.bundle = set.bundle /\ start.session = sess
        BY <4>1, Zenon
      <4> HIDE DEF set
      <4>4. Members(set) = {}
        BY <1>7, <4>3, Zenon DEF Members
      <4> QED
        BY <4>2, <4>3, <4>4, Zenon
    <3>4. ~StartPinned
      BY <3>3, StartAssumption, Zenon DEF start
    <3>5. pointer.rev = 0 /\ \A c \in Chunks : chunks[c] = None
      BY <1>3, <3>2, <3>4, Zenon DEF InitWith
    <3>6. Untouched
      BY <1>4, <3>1, <3>5, Zenon DEF Untouched, Waiting, Writers
    <3> QED
      BY <1>5, <3>6, Zenon DEF CoverInv, Covered, Marked
  <2> QED
    BY <2>1, <2>2, Zenon
<1> QED
  BY <1>6, <1>7, Zenon

\* Once every writer has succeeded or was refused for its content, the manifest
\* update_coverage_with_tool_evidence leaves names the current source, and the
\* projection state mark_projection_pending_if_source_changed leaves asks for
\* it or has it, for every number of concurrent writers, retries and
\* interrupts.  Without a writer nothing derives the documents of a session
\* that starts empty.
THEOREM SettledSourceIsCovered == Writers # {} /\ Spec => []SettledIsCovered
<1> SUFFICES ASSUME Writers # {}
             PROVE  Spec => []SettledIsCovered
  BY Zenon
<1>1. IInv /\ CoverInv => SettledIsCovered
  <2>1. SUFFICES ASSUME CoverInv, \A w \in Writers : Succeeded(w) \/ local[w].pc = "integrity"
                 PROVE  /\ coverage = SourceHash(Resolved)
                        /\ projection.status = "pending" \/ projection.projected = SourceHash(Resolved)
    BY Zenon DEF SettledIsCovered
  <2>2. \A w \in Writers : local[w].pc \in Ended
    BY <2>1, Zenon DEF Succeeded, Ended
  <2>3. ~Untouched
    BY <2>2, Zenon DEF Untouched, Ended, Waiting, Writers
  <2>4. \A w \in Writers : ~WillCover(w) /\ ~WillMark(w)
    BY <2>2, Zenon DEF WillCover, WillMark
  <2> QED
    BY <2>1, <2>3, <2>4, Zenon DEF CoverInv, Covered, Marked, Now
<1>2. Init => CoverInv
  BY CoverStarts, Zenon
<1>3. IInv /\ CoverInv /\ [Next]_vars => CoverInv'
  BY CoverKeeps, CoverStutters, Zenon
<1> QED
  BY <1>1, <1>2, <1>3, Inductive, PTL DEF Spec

=============================================================================
