# TLA+ verification of neurons

This directory models the parts of `neurons` whose correctness depends on the
order in which processes, transactions and remote calls happen, checks the
models with TLC on small instances, and proves the most important results with
TLAPS for every value of the constants.

Paths are relative to `src/`; `AK` stands for `worker/lib/agent_knowledge`.

## The system

| part | what makes it hard | module |
|---|---|---|
| Ingress worker, state DB, executor, drain (`AK/rag_ingress`) | redelivery to a second handler, lapsed leases, crashes between transactions | `IngressDelivery`, `DeliveryJobs`, `DeliveryPromise` |
| CouchDB backend, source revisions, evidence extraction (`AK/rag_ingress`, `AK/couchdb_source`) | optimistic writers racing for one pointer | `SourceRevision` |
| Coverage and projection state (`AK/couchdb_source`) | unconditional overwrites, stale reads | `SourceRevision`, `SessionMemoryBuild` |
| Session-memory builder (`AK/couchdb_source/build_cli.py`) | selection and projection are separate, builds are killed | `SessionMemoryBuild` |
| Local embedding outbox and its backfill (`AK/postgres_store`, `AK/local_embedding`) | the model call outlives the lease, targets are deleted and re-created | `LocalEmbeddingOutbox` |
| Embedding cache (`AK/model_connectors`) | calls share requests, and owners are cancelled | `EmbeddingCache` |
| The rest | | see "Not modelled" |

A message goes from the ingress API into a JetStream stream.  The worker accepts
it into SQLite, writes it to CouchDB as a chunk of a session's source, and
refreshes two derived documents.  The builder finds sessions whose source is
newer than their projection and projects them into PostgreSQL.  There the
outbox gives each card or chunk its vector.

Each `MC...` module gives the constants of a module values for TLC.  Definitions
commented "Faulty" are used by no specification: they are mutations, and
`PROJECT.json` names the property that notices each of them.  `PROJECT.json`
also maps every definition to its source lines and lists the hazards.

## Delivery lane

The worker pulls a message, accepts it (inbox row; command and job in one
transaction; payload), runs the executor on the job (claim a lease, mark
executing, write to CouchDB, record the outcome), and acks last.
`drain-deliveries` runs the same executor on waiting jobs.

`DeliveryJobs` is a row of `delivery_jobs` and each SQL transaction on it.
`IngressDelivery` is the broker, the handlers, the drains and the tables; one
action is one transaction, remote call or broker call.  `DeliveryPromise` is
what the lane promises, without handlers, leases or retries.

Abstractions.  A handler is one delivery `<<m, n>>` of a message and owns its
own lease.  Drains share one owner, as their default does.  A deadline is none,
future or past; a drain uses its selection time, so it may see a past deadline
as future.  `stored` is the set of key and hash pairs whose write arrived; how
a write is made is the subject of `SourceRevision`.  The log statuses
`delivered` and `deduplicated` are one value.

Left out: the procedural correction branch of the executor; the
`deliver=False` return beside a CouchDB backend (shadow_worker.py 237-244),
which no caller or test uses; and the generic branch (287-343), which an
observing worker takes because `main()` then passes no backend.

| run | instance | shows |
|---|---|---|
| `ingress_overlap` | one message, three deliveries, all outcomes and faults | success is real, nothing removed unsettled, fates final, refinement |
| `ingress_drain` | two contents of one key, two drains, slow handlers | leases and budget with a shared owner; first content wins |
| `ingress_settles` | three messages, five deliveries, five attempts, `FairSpec` | every message settles |

Three deliveries give a first handler, one that overlaps it and one after a
lapsed lease; two attempts reach the cap.  Liveness uses the real five and five.

Fairness: handlers run, the broker redelivers, clocks advance.  The event loop,
JetStream and time justify these; no operator has to start a drain.
`EveryMessageSettles` excludes faults: with a handler slower than its lease the
message can be stranded (see further divergences).

## Source revisions

`SourceRevision` models the documents of one session.  Before the first
activation the session is whatever raw documents exist.  An activation copies a
chosen set into immutable documents, writes member and manifest records, and
moves the pointer by compare-and-swap.  Deliveries append one chunk; extractors
replace the evidence.  Each success refreshes coverage and projection state.

Abstractions.  A step is one store request whose result another writer can
affect.  Hashes are injective.  Resolving is one step at the pointer read,
because what a pointer names is immutable.  The three legacy finds are one step.
An interrupted attempt starts again, up to `MaxAttempts`.  Extractors always
have a predecessor: `migration_cli.py` 400-409 resolves one before a session's
records are collected.  Activation without an allowlist is left out: every call
site under `worker/lib` passes one.  Provenance and deletes are left out.

| run | instance | shows |
|---|---|---|
| `revision_first` | a legacy session with and without a raw bundle, an extraction and two deliveries of one chunk id with two bodies, one interrupt each | pointer resolves, chunks only grow, records catch up |
| `revision_stores` | two deliveries to a pinned session with and without a bundle, two interrupts each, `FairSpec` | no accepted chunk lost, both stored in four attempts |

No property of a passing run claims what the divergences below deny:
`AcceptedChunksStayActive` is not claimed for the first activation, and nothing
is claimed of the bundle an append publishes.  `revision_first` reaches both
appends in question, the one over an older raw bundle and the one that fails
because the raw bundle is missing.

`SettledIsCovered` asks for `pending`, or for the projected hash to be current.
It does not ask that a pending mark name the current hash: when a source returns
to an earlier revision, a mark for the revision in between can land last.
The builder compares the projected hash, so the session is still selected.
After a writer fails for good the manifest may stay stale; the property speaks
only of states in which all writers succeeded.

Fairness: a worker that holds a job takes its next step.

## Session-memory builder

A scheduler starts one build after another.  A build resolves the pending list
of its checkpoint, takes fresh sessions from the change feed or from a full
walk, writes the checkpoint, and then materialises and projects the sessions.
`SessionMemoryBuild` has one action per store request or file write whose order
against deliveries and kills matters.

Abstractions.  A source revision is a number and a hash is the revision it
covers.  The feed holds the last change of two documents per session.  A body is
the number of builds that its embedding takes (`EmbeddingChunksPending` before
that).  The input policy refuses what `Rejected` lists, per policy version.
Sessions have an active revision, so that stale coverage is a materialisation
loss and a build writes nothing to the session document.  The backend is
`postgres_pgvector`.  Faults are a read that fails, a feed that cannot be used, a
missing update sequence, a failed or torn checkpoint write, a kill anywhere, a
projector that raises, and any other exception of one session.

| run | instance | shows |
|---|---|---|
| `build_recovers` | two sessions, one changing twice, limit one, two policies, one fault of any kind | the checkpoint on disk always leads to every outstanding session; receipts only advance |
| `build_settles` | two sessions, one with a large body, limit one, two policies, one fault, `FairSpec` | every session settles, or is lost in one of two named ways |

One fault is enough for each recovery path, because every path ends in the
checkpoint file and a build starts from nothing else.  A limit of one makes
every walk and window capped.  `MaxPendingAttempts` is 6 in the code; 1 and 2
reach the cap within the instance.

`NothingForgotten` and `EverySessionSettles` except two losses, which the code
really has: `gaveUp` (the attempt cap, finding `build_dropped`) and `erased` (a
late pending mark rebuilds the document without the refusal that a policy release
looks for).

Fairness: `entrypoint.sh` starts a build whenever the last one has ended, and a
build goes on until it ends or the timeout kills it.  Kills are bounded.

## Local embedding outbox

Writers, backfill and operator put jobs into `local_embedding_outbox`.  A worker
leases a batch, embeds outside of any transaction, and completes each job by
compare-and-swap.  A tombstone numbers the lives of a target.
`LocalEmbeddingOutbox` has one action per method of the store, each of which is
one transaction under the advisory locks of its target.

Abstractions.  A content stands for text, content hash and input hash.  A timer
is null, future or past.  The try-locks of the claim are a choice of the
candidates it gets.  A batch is a set, whose order the worker's loop fixes but no
other transaction sees.  The model call and the completion are one step; a
completion whose transaction fails is `Fail`.  A late worker's `ValueError`, and
the one its failure report raises, are `Late`.  `life` and `calls` are history
variables.  All targets pass the eligibility filters of the scan.

| run | instance | shows |
|---|---|---|
| `outbox_settles` | one target, two contents, two workers, batch of two, two retries, two writes, one requeue, `FairSpec` | no stale vector, one live job, bounded calls, reported failures, settling |

One target is enough for the safety properties because every transaction is
confined to a target, and the proofs below have no such bound.  Two writes give
change and change back, delete and re-create, on either side of the cutover.

`EveryTargetSettles` excepts `Stranded` targets: a dead letter of the content a
target has returned to, and a target re-created under the default profile, whose
tombstone still says deleted.

Fairness: workers poll, the backfill is run again, clocks run.  Nothing forces a
cutover, a requeue or a crash.

## Embedding cache

`EmbeddingCache` models `CachedEmbedder` whole: one block under the lock, the
service call, one step per published or failed flight (each takes the lock
anew), and the wait for other flights.  A call may be cancelled wherever it
awaits.  `create` is a batch of one.  `recent` is a history variable.

| run | instance | shows |
|---|---|---|
| `cache_settles` | three calls with two of three keys each, two of them in opposite order, two entries, `FairSpec` | one request per text, no orphaned flight, failures belong to their calls, LRU order, every call ends |

Two calls in opposite order are the deadlock candidate; the third adds eviction
and a retry behind a cancelled owner.  Fairness: event loops run their tasks, and
the service answers or its client gives up.  Deadlock is not checked, because
calls end.

## Findings

Each is a run that TLC ends with a counterexample.

| run | the code | the repository says |
|---|---|---|
| `lost_first_append` | a delivery accepted between fence and first swap is not in the revision (also reproduced by executing the code) | source_revision.py 1712: a newly added member aborts activation |
| `build_dropped` | a session over the attempt cap has no feed row left that would bring it back | build_cli.py 41: its change-feed entry re-enters |
| `outbox_ready` | a claim that gives up an abandoned job clears the vector the target already has | specs/model2vec-local-embedding/design.md 77: completed data is not deleted |

### Further divergences

TLC found a counterexample for each of these in these modules or in earlier
versions of them; no run is kept for them.

- The nested retained payload is compared with the flat message, so the
  quarantine of a message from the ingress API raises (shadow_worker.py 492);
  line 360 says it is ack-dropped at `max_deliver`.
- An extraction publishes a bundle without its raw origin and appends then fail
  (tool_evidence_bundler.py 354); source_revision.py 248 says successors can
  resnapshot origins.  Also reproduced by executing the code.
- A deferral at the last delivery naks without looking at the delivery count
  (shadow_worker.py 431); the message is neither removed nor redelivered.
- A crash between inbox row and command (backfill_apply.py 69) makes every later
  apply collide; line 11 promises "never a duplicate insert or a UNIQUE violation".
- A drain's lower cap replaces `remote_outcome_uncertain` (state_db.py 556);
  line 625 says "Keep uncertainty visible".  `UncertaintyStaysVisible` is
  therefore checked without drains only.
- An append re-reads raw origins (couchdb_delivery_backend.py 720), so an older
  raw bundle replaces a newer active one.  Also reproduced by executing the code.
- A late pending mark erases the terminal failure of the same revision
  (session_memory_materializer.py 307); the recovery after a policy release
  (build_cli.py 585) does not find the session.
- A target that returns to a text with a dead letter gets no new job
  (pgvector_store.py 2616), and one re-created under the default profile is
  skipped by the backfill for ever.

Read in the code, outside of these models:

- The attempt cap counts every pending session in every build, reached or not.
- Overlapping builders can commit an older receipt over a newer one, because the
  currentness test (727) precedes the read of the document (742).
- The local profile commits receipts under `postgres_pgvector_local`, selection
  reads `postgres_pgvector`.
- `lease expired and retry budget exhausted` is not among the errors that
  `requeue_local_dead_letters` accepts by default.
- `pg_backfill.py` 503 passes the connection of `acquire_session_identity_lock`
  by position; pgvector_store.py 2425 takes keywords only.

## Proofs

All proofs hold for any values of the constants that satisfy the named
assumptions of the modules, and use nothing else.

`IngressDeliveryProofs`: `TypeCorrect`, `SuccessIsReal`, `LogIsHonest`,
`PayloadIsRetained`, `NoSilentLoss`, `FateIsFinal`, and `Refinement` (the lane
implements `DeliveryPromise`).  That a removed message is settled depends on
where its handler stood before the ack; that a succeeded job is stored depends
on evidence a driver holds before it records it.  `Inv` adds these: `DataInv`
(tables agree), `DriverInv` (what each program point knows) and `QueueInv`.
Drivers interfere, so the argument is rely/guarantee: each step satisfies
`Monotone` (commands, payloads, fates, stored and poison records only grow), and
`Bystander` shows that `Monotone` keeps the knowledge of a driver that does not
move.

The same module goes on with `LeaseProtects`, `BudgetIsKept`,
`UncertaintyIsKept`, `QuarantineIsReplayable`.  They are about single rows, and
every transaction on a row is a clock tick, a claim, a write of the lease's owner
or the transport cap (`RowMove`).  `BudgetIsKept` assumes `DrainWithinBudget` (no
drain has a higher cap than the worker) and `UncertaintyIsKept` assumes
`DrainSharesBudget` (drains have the worker's cap): a drain takes its cap from
its command line.  `QuarantineIsReplayable` is about a worker without drains.

`SourceRevisionProofs`: `RevisionTypes`, `RevisionResolves`, `RevisionGrows`, and
`RevisionKeepsAccepted`, which assumes `StartPinned`: `lost_first_append` shows
that accepted chunks are not safe without it.  A swap keeps the chunks because
the pointer it replaces is the predecessor the successor was built from.  That is
known at the swap only through the revision read when the activation began
(`BaseOK`) and through the raw chunks, which never change once stored and which
every predecessor and successor agrees with (`ViewOK`, `InputOK`).  `IInv` adds
what is stored at each program point (`StagedOK`, `ChunkOK`), the snapshot
(`SnapOK`), the attempts left and, from the swap on, the place of the chunk in
the active set (`AcceptedOK`).  The argument is rely/guarantee again: `Monotone`
says what a step leaves to others, `Bystander` that they keep what they know.
`StartAssumption` asks that a session with a pointer has a session document.

`SettledSourceIsCovered`, in the same module, is for at least one writer.  The
manifest is written without a condition, so a late writer can put back an older
one; what saves it is that a writer with an older view still has to look again.
`CoverInv` says so for every program point: the manifest names the current
source, or some writer that is not done will write it (`WillCover`), and the same
for the projection mark (`WillMark`).

`LocalEmbeddingOutboxProofs`: `OutboxTypes`, `OutboxSearchIsHonest`,
`OutboxOneActiveJob`, `OutboxBoundedAttempts`, `OutboxFailedHasDeadLetter`.
A vector is honest because a completion checks the incarnation, and that is
enough only if incarnations count lives; a live job is unique only if each one
carries the present incarnation.  `IInv` says so: `TombOK` relates incarnation,
deletion and life, `JobOK` the life of a job to its incarnation, `UniqueLive`
forbids a second live job, `RowOK` relates a row to its parent and vector, and
`CallsOK` the calls to the retries counted so far.

`EmbeddingCacheProofs`: `CacheTypeOK`, `CacheOneFlight`, `CacheOneRequest`,
`CacheFlightHasOwner`, `CacheCallsEndWell`, `CacheIsLeastRecentlyUsed`.  `IInv` ties the three records of a flight together:
`Ownership` (an entry of `inflight`, a pending future and a key in `owned` are
the same thing), `Waiting` (who waits, waits for a flight that was made),
`Errors` (an error future stands for a refused key) and `Accounted` (every key
of a call past the lock is resolved, owned or awaited).  `CacheInv` is about the
contents: the list of uses ends in the cache, and a cached key has no flight.

The builder is proved in three modules over the invariants of
`SessionMemoryBuildInv`.  `SessionMemoryBuildTypes` proves `BuildTypes`, for any
number of builders.  `TypeInv` adds that the lists of a build name no session
twice (`ListsOK`), which for the sessions of a feed window depends on the rows
examined so far and for those of a walk on its cursor, and that no build has a
later policy than the one released.  `SessionMemoryBuildProofs` proves
`NothingIsForgotten` and `ReceiptsAdvance` from the step lemmas of
`SessionMemoryBuildKept`.  Both assume `OneBuilder`: `entrypoint.sh` runs one
build after another, and overlapping builders can put back an older receipt (see
above).

`NothingForgotten` is about the checkpoint alone and is not inductive: between
the read of a checkpoint and the write of the next, what leads to a session is
in the memory of the build.  `IInv` says for each program point where that is
(`Pursued`): in a list, dropped, in a feed row or a place of the walk still
ahead, or announced after the number the build will write.  It also has to find
a session that the policy refuses today, because a release may come before the
checkpoint is written; so `OnDisk` and `Recorded` do not look at the policy in
force, and `NothingForgotten` follows from `OnDisk`.  The rest supports these:
`DocOK` (a document is about revisions there have been, and a rejected attempt is
its terminal failure), `FeedOK` and `RowsOK` (a number names one session),
`SnapshotOK` (the documents a walk read are stale only by a pending mark) and
`ResultOK` (a projection is not older than the receipt it will replace).  TLC
checks `IInv` and `TypeInv` on the instance of `build_recovers` (1,348,894
states).

`ListProofs` has the lemmas on Python's filtered lists (`Lists`) that the proofs
of the cache and of the builder rest on.  What `Within` returns is shown by induction over its prefixes,
in a form that needs no induction theorem with an operator parameter
(`SetInduction`).

Only model-checked: every liveness property (`EverySessionSettles` and the others
under a `FairSpec`), because fairness is out of the prover's reach.

## Not modelled

The repository has about 180,000 lines in 450 files.  The modules cover the code
in which processes race or recover, which is a small share of them.  Most of the
rest has no such behaviour, or none that these tools reach: the vendored
`graphiti_core`, text processing (parsing, redaction, chunking, ranking,
prompts), command-line reports and approvals, evaluation harnesses and tests.
`PROJECT.json` gives the reason for each component.  The larger ones:

- Ingress API (Java): a validation, an in-memory map and a publish.  The delivery
  lane assumes nothing of it.
- Retention, supersession, historical import, temporal repair and backfill:
  operator commands; the activation they end in is modelled.
- Reconcile and replay: scaffolding behind a blocked command, and a command over
  the ledger.
- The older `embedding_outbox` and the graph outbox: the local outbox replaces
  the first, a library makes the state changes of the second.
- Ledger, garbage-collection lanes, memory promotion: surveyed, not read closely
  enough for a faithful translation.
- Builds scoped to a project, dry runs, overlapping builders.
- `renew_local_outbox_lease`, command claims and `apply_retention`, which only
  tests call.
