--------------------------- MODULE SourceRevision ---------------------------
(***************************************************************************)
(* The source documents of one transcript session in CouchDB and the       *)
(* writers that race on them: ingress deliveries, which add one            *)
(* conversation chunk (CouchDBDeliveryBackend.submit), and tool-evidence   *)
(* extractors, which replace the session's evidence bundle                 *)
(* (store_tool_evidence_bundles with full_session_generation, as           *)
(* migration_cli calls it, with the predecessor captured beforehand).      *)
(*                                                                         *)
(* Before the first activation a session is legacy: its source is whatever *)
(* raw documents are stored.  activate_source_revision copies a chosen set *)
(* into immutable documents and moves the session's active pointer to it   *)
(* by compare-and-swap; from then on the pointer decides what the session  *)
(* consists of, and the raw documents are only the origins that the next   *)
(* activation re-reads.  Every success also refreshes two derived records: *)
(* the coverage manifest and the projection state the builder works from.  *)
(*                                                                         *)
(* One step is one request to the store whose result matters to another    *)
(* writer.  Immutable documents are addressed by content, so resolving a   *)
(* pointer is one step, and a set of copies is represented by the set it   *)
(* copies.  Hashes are injective: a hash is the value it covers.           *)
(***************************************************************************)
EXTENDS Integers

CONSTANTS
    Deliveries,    \* ingress deliveries of the session
    Extractors,    \* full-generation evidence extractions of the session
    Chunks,        \* chunk document ids
    Bodies,        \* chunk contents
    Generations,   \* evidence bundle contents
    None,          \* an absent document or an empty field
    ChunkOf,       \* the chunk id a delivery carries
    BodyOf,        \* the content a delivery carries
    GenerationOf,  \* the bundle an extraction produces; None when it is empty
    StartChunks,   \* the chunks stored before the first step
    StartBundles,  \* the raw bundles that may be stored before the first step
    StartPinned,   \* whether the session has an active pointer already
    MaxAttempts,   \* attempts of one writer before it gives up
    Retries,       \* tries of each inner conflict loop; 3 in the code
    Interrupts     \* how many of a writer's attempts may fail or crash between two requests

Writers == Deliveries \cup Extractors

ASSUME WriterAssumption ==
    /\ Deliveries \cap Extractors = {}
    /\ ChunkOf \in [Deliveries -> Chunks]
    /\ BodyOf \in [Deliveries -> Bodies]
    /\ GenerationOf \in [Extractors -> Generations \cup {None}]
    /\ None \notin Bodies \cup Generations

ASSUME BoundAssumption ==
    /\ MaxAttempts \in Nat \ {0}
    /\ Retries \in Nat \ {0}
    /\ StartPinned \in BOOLEAN
    /\ Interrupts \in Nat
    /\ StartBundles \subseteq Generations \cup {None}
    /\ StartChunks \in [Chunks -> Bodies \cup {None}]

VARIABLES
    chunks,      \* raw conversation_chunk documents: id -> content
    session,     \* raw transcript_session document
    bundle,      \* raw tool_evidence_bundle document
    copies,      \* source sets whose immutable copies are stored
    manifests,   \* source sets whose member and manifest records are stored
    pointer,     \* the active_source_revision document; rev 0 when absent
    coverage,    \* source hash of the coverage manifest
    projection,  \* the projection_state document
    local        \* what each writer knows and where it is

vars == <<chunks, session, bundle, copies, manifests, pointer, coverage, projection, local>>

raw == <<chunks, session, bundle>>
staged == <<copies, manifests>>
derived == <<coverage, projection>>
-----------------------------------------------------------------------------
(***************************************************************************)
(* Source sets, views and hashes.                                          *)
(***************************************************************************)
EvidenceId == "bundle"

Present(f) == {c \in Chunks : f[c] # None}

\* The documents whose time bounds a session envelope can have absorbed.
Members(set) ==
    Present(set.chunks) \cup (IF set.bundle = None THEN {} ELSE {EvidenceId})

LegacySet == [session |-> session, chunks |-> chunks, bundle |-> bundle]

\* resolve_active_source_revision: the pinned set, or the raw documents of
\* a session that has no pointer.
Resolved ==
    IF pointer.rev = 0 THEN [pinned |-> FALSE, set |-> LegacySet]
                       ELSE [pinned |-> TRUE, set |-> pointer.set]

\* The source hash covers chunk and bundle identities.  A pinned set's
\* documents are copies whose ids depend on the whole set, so its hash
\* covers the session envelope as well; a legacy hash does not.
SourceHash(view) ==
    [view EXCEPT !.set.session = IF view.pinned THEN @ ELSE None]

\* active_source_origin_document_ids, split by kind: the chunk origins, and
\* whether the evidence bundle is an origin.  The session always is.
OriginChunks(set) == Present(set.chunks)
OriginBundle(set) == set.bundle # None

\* Faulty: only the new chunk is read.
AllowlistedAlone(d) ==
    [ids |-> {ChunkOf[d]}, evidence |-> OriginBundle(local[d].view.set)]

\* The raw documents an ingress activation reads: the origins of the
\* predecessor and the delivery's own chunk.
Allowlisted(d) ==
    [ids |-> OriginChunks(local[d].view.set) \cup {ChunkOf[d]},
     evidence |-> OriginBundle(local[d].view.set)]

\* _load_allowlisted_documents finds every id, and exactly one session.
Loadable(allow) ==
    /\ session # None
    /\ allow.ids \subseteq Present(chunks)
    /\ allow.evidence => bundle # None

Loaded(allow) ==
    [session |-> session,
     chunks  |-> [c \in Chunks |-> IF c \in allow.ids THEN chunks[c] ELSE None],
     bundle  |-> IF allow.evidence THEN bundle ELSE None]
-----------------------------------------------------------------------------
Fresh ==
    [pc |-> "start", view |-> None, base |-> 0, input |-> None, active |-> None,
     snap |-> None, seen |-> None, tries |-> 0, rounds |-> 0, attempts |-> 0]

StartSet(b) ==
    LET set == [session |-> None, chunks |-> StartChunks, bundle |-> b]
    IN  [set EXCEPT !.session =
            IF Members(set) = {} THEN None
            ELSE [merged |-> Members(set),
                  hash |-> SourceHash([pinned |-> FALSE, set |-> set])]]

InitWith(start) ==
    LET view == [pinned |-> StartPinned, set |-> start]
        settled == Members(start) # {}
    IN  /\ chunks = start.chunks
        /\ bundle = start.bundle
        /\ session = start.session
        /\ copies = IF StartPinned THEN {start} ELSE {}
        /\ manifests = IF StartPinned THEN {start} ELSE {}
        /\ pointer = IF StartPinned THEN [rev |-> 1, set |-> start]
                                    ELSE [rev |-> 0, set |-> None]
        /\ coverage = IF settled THEN SourceHash(view) ELSE None
        /\ projection =
              IF settled
              THEN [status |-> "projected", hash |-> SourceHash(view), projected |-> SourceHash(view)]
              ELSE [status |-> "absent", hash |-> None, projected |-> None]
        /\ local = [w \in Writers |-> Fresh]

Init == \E b \in StartBundles : InitWith(StartSet(b))

Goto(w, pc) == local' = [local EXCEPT ![w].pc = pc]

\* Faulty: attempts are not capped.
AbandonedForEver(w) == [Fresh EXCEPT !.attempts = local[w].attempts + 1]

\* A conflict, a transport error or a crash ends the attempt: submit raises
\* DeliveryOutcomeUncertain, the extractor counts an error.  The next
\* attempt knows nothing of this one.
Abandoned(w) ==
    LET n == local[w].attempts + 1
    IN  [Fresh EXCEPT !.attempts = n,
                      !.pc = IF n < MaxAttempts THEN "start" ELSE "gave_up"]

Fail(w) ==
    /\ local' = [local EXCEPT ![w] = Abandoned(w)]
    /\ UNCHANGED <<raw, staged, pointer, derived>>

Finish(w, outcome) ==
    local' = [local EXCEPT ![w] = [Fresh EXCEPT !.pc = outcome, !.attempts = @ + local[w].attempts]]

Running(w) == local[w].pc \notin {"succeeded", "integrity", "gave_up"}

Interrupt(w) ==
    /\ local[w].attempts < Interrupts
    /\ Running(w)
    /\ Fail(w)
-----------------------------------------------------------------------------
(***************************************************************************)
(* Ingress: CouchDBDeliveryBackend.submit.                                 *)
(***************************************************************************)
Mismatch(d, stored) == stored # None /\ stored # BodyOf[d]

\* Gate 2, find_by_natural_key: an active or stored chunk of the same
\* identity and another content is terminal integrity evidence.
FindByNaturalKey(d) ==
    /\ local[d].pc = "start"
    /\ IF Mismatch(d, IF pointer.rev # 0 /\ pointer.set.chunks[ChunkOf[d]] # None
                      THEN pointer.set.chunks[ChunkOf[d]]
                      ELSE chunks[ChunkOf[d]])
       THEN Finish(d, "integrity")
       ELSE Goto(d, "pre_read")
    /\ UNCHANGED <<raw, staged, pointer, derived>>

\* The pointer is read again before the first write; the outcome chooses
\* between the legacy and the pinned path.
ReadPointer(d, unpinned, pinned) ==
    /\ IF pointer.rev = 0
       THEN Goto(d, unpinned)
       ELSE IF Mismatch(d, pointer.set.chunks[ChunkOf[d]])
            THEN Finish(d, "integrity")
            ELSE local' = [local EXCEPT ![d].pc = pinned, ![d].view = Resolved]
    /\ UNCHANGED <<raw, staged, pointer, derived>>

PreRead(d) == local[d].pc = "pre_read" /\ ReadPointer(d, "put_chunk", "append_chunk")

\* put_if_absent: a stored chunk with this content is a duplicate, with
\* another content a conflict.
PutChunk(d) ==
    /\ local[d].pc = "put_chunk"
    /\ IF Mismatch(d, chunks[ChunkOf[d]])
       THEN Fail(d)
       ELSE /\ chunks' = [chunks EXCEPT ![ChunkOf[d]] = BodyOf[d]]
            /\ Goto(d, "merge_read")
            /\ UNCHANGED <<session, bundle, staged, pointer, derived>>

\* On the pinned path a content mismatch is terminal instead.
AppendChunk(d) ==
    /\ local[d].pc = "append_chunk"
    /\ IF Mismatch(d, chunks[ChunkOf[d]])
       THEN Finish(d, "integrity") /\ UNCHANGED chunks
       ELSE /\ chunks' = [chunks EXCEPT ![ChunkOf[d]] = BodyOf[d]]
            /\ Goto(d, "activate")
    /\ UNCHANGED <<session, bundle, staged, pointer, derived>>

(***************************************************************************)
(* merge_transcript_session_aggregate: read the envelope, merge, refuse if *)
(* an active revision has it as an origin, write it at the revision read.  *)
(***************************************************************************)
Merged(existing, members, hash) ==
    IF existing = None
    THEN [merged |-> members, hash |-> hash]
    ELSE [merged |-> existing.merged \cup members,
          hash |-> IF hash # None THEN hash ELSE existing.hash]

\* What the writer is merging: its own chunk with no hash, or the coverage
\* snapshot's bounds with the hash it computed.
Incoming(w) ==
    IF local[w].snap = None
    THEN Merged(session, {ChunkOf[w]}, None)
    ELSE Merged(session,
                local[w].snap.set.session.merged \cup Members(local[w].snap.set),
                SourceHash(local[w].snap))

MergeRead(w, at, put, next) ==
    /\ local[w].pc = at
    /\ IF session # None /\ Incoming(w) = session
       THEN local' = [local EXCEPT ![w].pc = next, ![w].tries = 0]
            /\ UNCHANGED <<raw, staged, pointer, derived>>
       ELSE IF pointer.rev # 0
            THEN Fail(w)
            ELSE local' = [local EXCEPT ![w].pc = put, ![w].seen = session]
                 /\ UNCHANGED <<raw, staged, pointer, derived>>

MergePut(w, at, read, next) ==
    /\ local[w].pc = at
    /\ IF session = local[w].seen
       THEN /\ session' = Incoming(w)
            /\ local' = [local EXCEPT ![w].pc = next, ![w].seen = None, ![w].tries = 0]
            /\ UNCHANGED <<chunks, bundle, staged, pointer, derived>>
       ELSE IF local[w].tries + 1 < Retries
            THEN /\ local' = [local EXCEPT ![w].pc = read, ![w].seen = None, ![w].tries = @ + 1]
                 /\ UNCHANGED <<raw, staged, pointer, derived>>
            ELSE Fail(w)

MergeSession(d) ==
    \/ MergeRead(d, "merge_read", "merge_put", "post_read")
    \/ MergePut(d, "merge_put", "merge_read", "post_read")

\* After a legacy write the pointer is read once more: a revision published
\* in between does not contain the chunk, so this writer must append it.
PostRead(d) == local[d].pc = "post_read" /\ ReadPointer(d, "snapshot", "activate")
-----------------------------------------------------------------------------
(***************************************************************************)
(* Extraction: capture the predecessor, extract, then check that it is     *)
(* still the current revision.                                             *)
(***************************************************************************)
Capture(e) ==
    /\ local[e].pc = "start"
    /\ local' = [local EXCEPT ![e].pc = "check", ![e].view = Resolved]
    /\ UNCHANGED <<raw, staged, pointer, derived>>

\* _resolve_expected_predecessor compares pinning and source hash only.
PredecessorCurrent(e) ==
    /\ Resolved.pinned = local[e].view.pinned
    /\ SourceHash(Resolved) = SourceHash(local[e].view)

\* An exact retry of the active generation only refreshes what is derived
\* from it; every other generation is staged over the current session and
\* chunks.
CheckPredecessor(e) ==
    /\ local[e].pc = "check"
    /\ IF PredecessorCurrent(e)
       THEN /\ local' = IF Resolved.pinned /\ Resolved.set.bundle = GenerationOf[e]
                        THEN [local EXCEPT ![e].pc = "recheck", ![e].active = Resolved]
                        ELSE [local EXCEPT ![e].pc = "copy",
                                           ![e].input = [Resolved.set EXCEPT !.bundle = GenerationOf[e]]]
            /\ UNCHANGED <<raw, staged, pointer, derived>>
       ELSE Fail(e)

RecheckPredecessor(e) ==
    /\ local[e].pc = "recheck"
    /\ IF PredecessorCurrent(e)
       THEN Goto(e, "snapshot") /\ UNCHANGED <<raw, staged, pointer, derived>>
       ELSE Fail(e)

CopyGeneration(e) ==
    /\ local[e].pc = "copy"
    /\ copies' = copies \cup {local[e].input}
    /\ Goto(e, "activate")
    /\ UNCHANGED <<raw, manifests, pointer, derived>>
-----------------------------------------------------------------------------
(***************************************************************************)
(* activate_source_revision.                                               *)
(***************************************************************************)
\* _assert_expected_predecessor: the pointer is what the caller resolved,
\* or still absent.  Its document revision is the one the CAS will name.
BeginActivation(w) ==
    /\ local[w].pc = "activate"
    /\ IF IF local[w].view.pinned
          THEN pointer.rev # 0 /\ pointer.set = local[w].view.set
          ELSE pointer.rev = 0
       THEN /\ local' = [local EXCEPT ![w].pc = "load", ![w].base = pointer.rev]
            /\ UNCHANGED <<raw, staged, pointer, derived>>
       ELSE Fail(w)

\* An extractor's allowlist names immutable copies; a delivery's names raw
\* documents, all of which must be there.
LoadSources(w) ==
    /\ local[w].pc = "load"
    /\ IF w \in Extractors
       THEN /\ local[w].input.session # None
            /\ Goto(w, "stage")
            /\ UNCHANGED <<raw, staged, pointer, derived>>
       ELSE /\ Loadable(Allowlisted(w))
            /\ local' = [local EXCEPT ![w].pc = "stage", ![w].input = Loaded(Allowlisted(w))]
            /\ UNCHANGED <<raw, staged, pointer, derived>>

LoadConflict(w) ==
    /\ local[w].pc = "load"
    /\ IF w \in Extractors THEN local[w].input.session = None
                           ELSE ~Loadable(Allowlisted(w))
    /\ Fail(w)

StageCopies(w) ==
    /\ local[w].pc = "stage"
    /\ copies' = copies \cup {local[w].input}
    /\ Goto(w, "control")
    /\ UNCHANGED <<raw, manifests, pointer, derived>>

\* Faulty: the records are left for after the swap.
StageControlLater(w) ==
    /\ local[w].pc = "control"
    /\ Goto(w, "fence")
    /\ UNCHANGED <<raw, staged, pointer, derived>>

StageControl(w) ==
    /\ local[w].pc = "control"
    /\ manifests' = manifests \cup {local[w].input}
    /\ Goto(w, "fence")
    /\ UNCHANGED <<raw, copies, pointer, derived>>

\* The last look before the swap.  A legacy predecessor must still be the
\* exact raw set; a pinned one must still resolve.
Fence(w) ==
    /\ local[w].pc = "fence"
    /\ IF IF local[w].view.pinned
          THEN pointer.set \in copies \cap manifests
          ELSE pointer.rev = 0 /\ LegacySet = local[w].view.set
       THEN Goto(w, "swap") /\ UNCHANGED <<raw, staged, pointer, derived>>
       ELSE Fail(w)

\* Faulty: the pointer is written whatever revision it has.
SwapPointerBlindly(w) ==
    /\ local[w].pc = "swap"
    /\ pointer' = [rev |-> pointer.rev + 1, set |-> local[w].input]
    /\ Goto(w, "confirm")
    /\ UNCHANGED <<raw, staged, derived>>

\* Faulty: an identical pointer is a conflict.
SwapPointerOnce(w) ==
    /\ local[w].pc = "swap"
    /\ IF pointer.rev = local[w].base /\ pointer.set # local[w].input
       THEN /\ pointer' = [rev |-> pointer.rev + 1, set |-> local[w].input]
            /\ Goto(w, "confirm")
            /\ UNCHANGED <<raw, staged, derived>>
       ELSE Fail(w)

\* put_if_revision on the pointer: an identical pointer is not rewritten.
SwapPointer(w) ==
    /\ local[w].pc = "swap"
    /\ IF pointer.rev = local[w].base
       THEN /\ pointer' = IF pointer.rev # 0 /\ pointer.set = local[w].input
                          THEN pointer
                          ELSE [rev |-> pointer.rev + 1, set |-> local[w].input]
            /\ Goto(w, "confirm")
            /\ UNCHANGED <<raw, staged, derived>>
       ELSE Fail(w)

\* The activated revision is whatever the pointer resolves to now; a raw
\* document that changed since it was copied fails the attempt although the
\* pointer has moved.
Confirm(w) ==
    /\ local[w].pc = "confirm"
    /\ IF w \in Deliveries /\ Loaded(Allowlisted(w)) # local[w].input
       THEN Fail(w)
       ELSE /\ local' = [local EXCEPT ![w] =
                            [Fresh EXCEPT !.pc = "snapshot", !.active = Resolved,
                                          !.attempts = local[w].attempts]]
            /\ UNCHANGED <<raw, staged, pointer, derived>>

Activate(w) ==
    \/ BeginActivation(w)
    \/ LoadSources(w)
    \/ LoadConflict(w)
    \/ StageCopies(w)
    \/ StageControl(w)
    \/ Fence(w)
    \/ SwapPointer(w)
    \/ Confirm(w)
-----------------------------------------------------------------------------
(***************************************************************************)
(* update_coverage_with_tool_evidence: write what the source is now, then  *)
(* look again, because the manifest is overwritten unconditionally.        *)
(***************************************************************************)
CoverageSnapshot(w) ==
    /\ local[w].pc = "snapshot"
    /\ local' = [local EXCEPT ![w].pc = "put_coverage", ![w].snap = Resolved]
    /\ UNCHANGED <<raw, staged, pointer, derived>>

PutCoverage(w) ==
    /\ local[w].pc = "put_coverage"
    /\ coverage' = SourceHash(local[w].snap)
    /\ Goto(w, IF local[w].snap.pinned \/ local[w].snap.set.session = None
               THEN "recount" ELSE "hash_read")
    /\ UNCHANGED <<raw, staged, pointer, projection>>

RecordHash(w) ==
    \/ MergeRead(w, "hash_read", "hash_put", "recount")
    \/ MergePut(w, "hash_put", "hash_read", "recount")

Recount(w) ==
    /\ local[w].pc = "recount"
    /\ local' = [local EXCEPT ![w].pc = "compare", ![w].snap = Resolved]
    /\ UNCHANGED <<raw, staged, pointer, derived>>

\* The persisted manifest, and a legacy session's own hash, agree with the
\* second snapshot.
Converged(w) ==
    LET now == local[w].snap
    IN  /\ coverage = SourceHash(now)
        /\ now.pinned \/ now.set.session = None \/ now.set.session.hash = SourceHash(now)

\* After an activation the manifest must also name the activated revision.
CompareCoverage(w) ==
    /\ local[w].pc = "compare"
    /\ IF Converged(w)
       THEN IF local[w].active # None /\ SourceHash(local[w].snap) # SourceHash(local[w].active)
            THEN Fail(w)
            ELSE /\ local' = [local EXCEPT ![w].pc = "mark_read", ![w].rounds = 0]
                 /\ UNCHANGED <<raw, staged, pointer, derived>>
       ELSE IF local[w].rounds + 1 < Retries
            THEN /\ local' = [local EXCEPT ![w].pc = "snapshot", ![w].snap = None, ![w].rounds = @ + 1]
                 /\ UNCHANGED <<raw, staged, pointer, derived>>
            ELSE Fail(w)

(***************************************************************************)
(* mark_projection_pending_if_source_changed.                              *)
(***************************************************************************)
MarkRead(w) ==
    /\ local[w].pc = "mark_read"
    /\ local' = [local EXCEPT ![w].pc = "mark_decide", ![w].seen = projection]
    /\ UNCHANGED <<raw, staged, pointer, derived>>

\* Faulty: a session once projected is never marked again.
MarkNeededOnce(w) ==
    /\ SourceHash(Resolved) = SourceHash(local[w].snap)
    /\ local[w].seen.status # "projected"

\* Nothing to do when the source has moved on, or when this revision is
\* already projected or already pending.
MarkNeeded(w) ==
    LET hash == SourceHash(local[w].snap)
        seen == local[w].seen
    IN  /\ SourceHash(Resolved) = hash
        /\ ~(seen.status = "projected" /\ seen.projected = hash)
        /\ ~(seen.status = "pending" /\ seen.hash = hash)

MarkDecide(w) ==
    /\ local[w].pc = "mark_decide"
    /\ IF MarkNeeded(w) THEN Goto(w, "mark_put") ELSE Finish(w, "succeeded")
    /\ UNCHANGED <<raw, staged, pointer, derived>>

MarkPut(w) ==
    /\ local[w].pc = "mark_put"
    /\ IF projection = local[w].seen
       THEN /\ projection' = [status |-> "pending",
                              hash |-> SourceHash(local[w].snap),
                              projected |-> projection.projected]
            /\ Finish(w, "succeeded")
            /\ UNCHANGED <<raw, staged, pointer, coverage>>
       ELSE IF local[w].tries + 1 < Retries
            THEN /\ local' = [local EXCEPT ![w].pc = "mark_read", ![w].seen = None, ![w].tries = @ + 1]
                 /\ UNCHANGED <<raw, staged, pointer, derived>>
            ELSE Fail(w)

Refresh(w) ==
    \/ CoverageSnapshot(w)
    \/ PutCoverage(w)
    \/ RecordHash(w)
    \/ Recount(w)
    \/ CompareCoverage(w)
    \/ MarkRead(w)
    \/ MarkDecide(w)
    \/ MarkPut(w)
-----------------------------------------------------------------------------
Deliver(d) ==
    \/ FindByNaturalKey(d)
    \/ PreRead(d)
    \/ PutChunk(d)
    \/ AppendChunk(d)
    \/ MergeSession(d)
    \/ PostRead(d)

Extract(e) ==
    \/ Capture(e)
    \/ CheckPredecessor(e)
    \/ RecheckPredecessor(e)
    \/ CopyGeneration(e)

Next ==
    \/ \E d \in Deliveries : Deliver(d)
    \/ \E e \in Extractors : Extract(e)
    \/ \E w \in Writers : Activate(w) \/ Refresh(w) \/ Interrupt(w)

Spec == Init /\ [][Next]_vars

\* A worker that holds a job keeps working on it: no writer stops between
\* two requests for ever.
Step(w) ==
    \/ w \in Deliveries /\ Deliver(w)
    \/ w \in Extractors /\ Extract(w)
    \/ Activate(w)
    \/ Refresh(w)

FairSpec == Spec /\ \A w \in Writers : WF_vars(Step(w))
-----------------------------------------------------------------------------
(***************************************************************************)
(* Types.                                                                  *)
(***************************************************************************)
ChunkSets == [Chunks -> Bodies \cup {None}]
Bundles == Generations \cup {None}
LegacyHashes ==
    [pinned : {FALSE}, set : [session : {None}, chunks : ChunkSets, bundle : Bundles]]
Sessions ==
    {None} \cup [merged : SUBSET (Chunks \cup {EvidenceId}), hash : LegacyHashes \cup {None}]
SourceSets == [session : Sessions, chunks : ChunkSets, bundle : Bundles]
Views == [pinned : BOOLEAN, set : SourceSets]
ProjectionStates ==
    [status : {"absent", "pending", "projected"}, hash : Views \cup {None}, projected : Views \cup {None}]

Phases ==
    {"start", "pre_read", "put_chunk", "append_chunk", "merge_read", "merge_put", "post_read",
     "check", "recheck", "copy", "activate", "load", "stage", "control", "fence", "swap",
     "confirm", "snapshot", "put_coverage", "hash_read", "hash_put", "recount", "compare",
     "mark_read", "mark_decide", "mark_put", "succeeded", "integrity", "gave_up"}

Locals ==
    [pc : Phases, view : Views \cup {None}, base : Nat, input : SourceSets \cup {None},
     active : Views \cup {None}, snap : Views \cup {None},
     seen : Sessions \cup ProjectionStates, tries : 0..(Retries - 1),
     rounds : 0..(Retries - 1), attempts : 0..MaxAttempts]

\* A session with an active pointer has a session document, and an absent
\* document is not a view.
ASSUME StartAssumption ==
    /\ StartPinned => \A b \in StartBundles : StartSet(b).session # None
    /\ None \notin Views

\* Every variable has its type; in particular no inner loop and no writer
\* exceeds its budget of tries.
TypeOK ==
    /\ chunks \in ChunkSets
    /\ session \in Sessions
    /\ bundle \in Bundles
    /\ copies \subseteq SourceSets
    /\ manifests \subseteq SourceSets
    /\ pointer.rev \in Nat
    /\ pointer.set \in SourceSets \cup {None}
    /\ coverage \in Views \cup {None}
    /\ projection \in ProjectionStates
    /\ local \in [Writers -> Locals]

(***************************************************************************)
(* Properties.                                                             *)
(***************************************************************************)
Succeeded(w) == local[w].pc = "succeeded"

\* A delivery that submit reported as succeeded stays part of the session,
\* with its exact content, whatever other writers publish afterwards.
AcceptedChunksStayActive ==
    \A d \in Deliveries :
        Succeeded(d) => Resolved.set.chunks[ChunkOf[d]] = BodyOf[d]

\* Everything the active pointer needs to be resolved was stored before the
\* pointer moved (resolve_active_source_revision never finds a member or
\* the manifest missing), and it names one session.
ActiveResolves ==
    pointer.rev # 0 =>
        /\ pointer.set \in copies \cap manifests
        /\ pointer.set.session # None

\* Moving the pointer never drops or rewrites a chunk of the revision it
\* moves from: activations append.
ActiveChunksOnlyGrow ==
    [][pointer.rev # 0 =>
          \A c \in Present(pointer.set.chunks) : pointer'.set.chunks[c] = pointer.set.chunks[c]]_vars

\* Once every writer has succeeded, or was refused because its chunk id has
\* another content, the coverage manifest names the current source, and the
\* projection state asks for a projection unless the current source is the
\* projected one: no interleaving of the unconditional manifest writes and
\* the guarded projection marks leaves the builder unaware of the last
\* change.
SettledIsCovered ==
    (\A w \in Writers : Succeeded(w) \/ local[w].pc = "integrity") =>
        /\ coverage = SourceHash(Resolved)
        /\ projection.status = "pending" \/ projection.projected = SourceHash(Resolved)

\* Deliveries whose retries are not all interrupted end up stored although
\* they compete for one pointer, one manifest and one projection state: each
\* conflict a delivery meets is another delivery's progress, and an attempt
\* that died half way does not stand in the way of the next one.
EveryDeliveryIsStored ==
    \A d \in Deliveries : <>Succeeded(d)
=============================================================================
