--------------------------- MODULE EmbeddingCache ---------------------------
(***************************************************************************)
(* CachedEmbedder: a bounded cache in front of the embedding service that  *)
(* sends a text once however many calls ask for it.  The first call that   *)
(* misses a key owns its flight, a Future that later calls wait for.       *)
(* Calls are tasks of several event loops: they meet under one lock, and   *)
(* suspend, or are cancelled, where they await the service or futures.     *)
(*                                                                         *)
(* A call here is create_batch.  create does the same for a single text.   *)
(* A flight is named by its owner, because a call owns a key at most once. *)
(* What is in a vector does not matter, only who has it.                   *)
(***************************************************************************)
EXTENDS Integers, Sequences, Lists

CONSTANTS
    Keys,
    Calls,
    Texts,        \* Texts[c]: the keys of unique_inputs, in the order of the call
    MaxEntries,   \* max_entries
    NoCall        \* no flight

ASSUME CacheAssumption ==
    /\ NoCall \notin Calls
    /\ Texts \in [Calls -> Seq(Keys)]
    /\ \A c \in Calls : Distinct(Texts[c])
    /\ MaxEntries \in Nat \ {0}

VARIABLES
    cache,      \* _cache: its keys, the least recently used first
    inflight,   \* _inflight: the owner of the flight of a key
    flight,     \* flight[c][k]: the Future that c made for k
    pc,
    owned,      \* owned[c]: keys whose flight c has not ended yet
    waiting,    \* waiting[c]: keys c waits for, with the owners of their flights
    resolved,   \* resolved[c]: keys whose vector c has
    recent,     \* keys ever published or found in the cache, the latest use last
    cancelled,  \* calls that were cancelled
    refused     \* keys for which the service failed

vars == <<cache, inflight, flight, pc, owned, waiting, resolved, recent, cancelled, refused>>

Wanted(c) == Range(Texts[c])

Cached == Range(cache)

Init ==
    /\ cache = <<>>
    /\ inflight = [k \in Keys |-> NoCall]
    /\ flight = [c \in Calls |-> [k \in Keys |-> "none"]]
    /\ pc = [c \in Calls |-> "lock"]
    /\ owned = [c \in Calls |-> {}]
    /\ waiting = [c \in Calls |-> {}]
    /\ resolved = [c \in Calls |-> {}]
    /\ recent = <<>>
    /\ cancelled = {}
    /\ refused = {}

Goto(c, label) == pc' = [pc EXCEPT ![c] = label]

-----------------------------------------------------------------------------
(* The order of the cache.                                                 *)

\* Faulty: a key that is found stays where it is.
MovedNever(keys, hits) == IF Range(hits) \subseteq Range(keys) THEN keys ELSE keys \o hits

\* move_to_end for each of the hits, or the insertion of a new key.
Moved(keys, hits) == Within(keys, Keys \ Range(hits)) \o hits

\* Faulty: off by one.
CutLate(keys) == IF Len(keys) > MaxEntries + 1 THEN Tail(keys) ELSE keys

\* popitem(last=False) while there are too many.
Cut(keys) ==
    IF Len(keys) > MaxEntries THEN SubSeq(keys, Len(keys) - MaxEntries + 1, Len(keys)) ELSE keys

\* Keys used one after the other, after all earlier uses.
Used(keys) == Within(recent, Keys \ Range(keys)) \o keys

-----------------------------------------------------------------------------
(* A call.                                                                 *)

Missed(c) == {k \in Wanted(c) : k \notin resolved[c] /\ k \notin Cached}

\* Faulty: flights of other calls are not looked for.
ToOwnAll(c) == Missed(c)

ToOwn(c) == {k \in Missed(c) : inflight[k] = NoCall}

\* The service is called before other flights are awaited.  A call that has
\* nothing to wait for passes through the second await.
AfterLock(own) == IF own # {} THEN "backend" ELSE "wait"

\* The block under the lock: every key is a hit, the flight of another call,
\* or a flight of this one.
Lock(c) ==
    LET hits == Within(Texts[c], Cached \ resolved[c])
        own == ToOwn(c)
        wait == {<<k, inflight[k]>> : k \in Missed(c) \ own}
    IN  /\ pc[c] = "lock"
        /\ cache' = Moved(cache, hits)
        /\ recent' = Used(hits)
        /\ resolved' = [resolved EXCEPT ![c] = @ \cup (Wanted(c) \cap Cached)]
        /\ inflight' = [k \in Keys |-> IF k \in own THEN c ELSE inflight[k]]
        /\ flight' = [flight EXCEPT ![c] =
                        [k \in Keys |-> IF k \in own THEN "pending" ELSE @[k]]]
        /\ owned' = [owned EXCEPT ![c] = own]
        /\ waiting' = [waiting EXCEPT ![c] = wait]
        /\ Goto(c, AfterLock(own))
        /\ UNCHANGED <<cancelled, refused>>

\* The service answers with a valid vector for each of the texts.
Answered(c) ==
    /\ pc[c] = "backend"
    /\ Goto(c, "publish")
    /\ UNCHANGED <<cache, inflight, flight, owned, waiting, resolved, recent, cancelled, refused>>

\* It fails, or answers with too few vectors or an invalid one.
Refused(c) ==
    /\ pc[c] = "backend"
    /\ refused' = refused \cup owned[c]
    /\ Goto(c, "fail")
    /\ UNCHANGED <<cache, inflight, flight, owned, waiting, resolved, recent, cancelled>>

\* The task is cancelled while it awaits.  Futures are shielded: the flights
\* it waits for go on.
Cancel(c) ==
    /\ pc[c] = "backend" \/ (pc[c] = "wait" /\ waiting[c] # {})
    /\ cancelled' = cancelled \cup {c}
    /\ Goto(c, IF pc[c] = "backend" THEN "fail" ELSE "raised")
    /\ UNCHANGED <<cache, inflight, flight, owned, waiting, resolved, recent, refused>>

\* The loops over owned follow the order of the texts, and take the lock for
\* each key anew.
Index(c, k) == CHOOSE i \in DOMAIN Texts[c] : Texts[c][i] = k

First(c) == CHOOSE k \in owned[c] : \A j \in owned[c] : Index(c, k) <= Index(c, j)

\* _cache_inflight.
Publish(c) ==
    LET k == First(c)
    IN  /\ pc[c] = "publish"
        /\ owned[c] # {}
        /\ IF inflight[k] = c
             THEN /\ inflight' = [inflight EXCEPT ![k] = NoCall]
                  /\ cache' = Cut(Moved(cache, <<k>>))
                  /\ recent' = Used(<<k>>)
                  /\ flight' = [flight EXCEPT ![c][k] = "done"]
             ELSE UNCHANGED <<inflight, cache, recent, flight>>
        /\ resolved' = [resolved EXCEPT ![c] = @ \cup {k}]
        /\ owned' = [owned EXCEPT ![c] = @ \ {k}]
        /\ UNCHANGED <<pc, waiting, cancelled, refused>>

Published(c) ==
    /\ pc[c] = "publish"
    /\ owned[c] = {}
    /\ Goto(c, "wait")
    /\ UNCHANGED <<cache, inflight, flight, owned, waiting, resolved, recent, cancelled, refused>>

\* Faulty: a cancellation is handed on like any other exception.
FailureAsIs(c) == "error"

\* What the owner leaves in the futures of its flights.
Failure(c) == IF c \in cancelled THEN "retry" ELSE "error"

\* Faulty: the call raises after the first of its flights.
FailFirst(c) ==
    LET k == First(c)
    IN  /\ pc[c] = "fail"
        /\ owned[c] # {}
        /\ inflight' = [inflight EXCEPT ![k] = NoCall]
        /\ flight' = [flight EXCEPT ![c][k] = Failure(c)]
        /\ owned' = [owned EXCEPT ![c] = {}]
        /\ UNCHANGED <<cache, pc, waiting, resolved, recent, cancelled, refused>>

\* Faulty: the flight ends, but calls still find it.
FailInPlace(c) ==
    LET k == First(c)
    IN  /\ pc[c] = "fail"
        /\ owned[c] # {}
        /\ flight' = [flight EXCEPT ![c][k] = Failure(c)]
        /\ owned' = [owned EXCEPT ![c] = @ \ {k}]
        /\ UNCHANGED <<cache, inflight, pc, waiting, resolved, recent, cancelled, refused>>

\* _fail_inflight.
Fail(c) ==
    LET k == First(c)
    IN  /\ pc[c] = "fail"
        /\ owned[c] # {}
        /\ IF inflight[k] = c
             THEN /\ inflight' = [inflight EXCEPT ![k] = NoCall]
                  /\ flight' = [flight EXCEPT ![c][k] = Failure(c)]
             ELSE UNCHANGED <<inflight, flight>>
        /\ owned' = [owned EXCEPT ![c] = @ \ {k}]
        /\ UNCHANGED <<cache, pc, waiting, resolved, recent, cancelled, refused>>

Failed(c) ==
    /\ pc[c] = "fail"
    /\ owned[c] = {}
    /\ Goto(c, "raised")
    /\ UNCHANGED <<cache, inflight, flight, owned, waiting, resolved, recent, cancelled, refused>>

Flight(w) == flight[w[2]][w[1]]

\* gather returns when every flight has ended.  An error of one of them is
\* raised; a flight whose owner was cancelled sends the call round again.
Gathered(c) ==
    LET ended(result) == {w \in waiting[c] : Flight(w) = result}
    IN  /\ pc[c] = "wait"
        /\ ended("pending") = {}
        /\ resolved' = [resolved EXCEPT ![c] = @ \cup {w[1] : w \in ended("done")}]
        /\ Goto(c, IF ended("error") # {} THEN "raised"
                   ELSE IF ended("retry") # {} THEN "lock" ELSE "returned")
        /\ waiting' = [waiting EXCEPT ![c] = {}]
        /\ UNCHANGED <<cache, inflight, flight, owned, recent, cancelled, refused>>

-----------------------------------------------------------------------------
Step(c) ==
    \/ Lock(c) \/ Answered(c) \/ Refused(c)
    \/ Publish(c) \/ Published(c) \/ Fail(c) \/ Failed(c) \/ Gathered(c)

Next == \E c \in Calls : Step(c) \/ Cancel(c)

Spec == Init /\ [][Next]_vars

\* Event loops run their tasks, and the service answers or its client gives
\* up.
FairSpec == Spec /\ \A c \in Calls : WF_vars(Step(c))

-----------------------------------------------------------------------------
(* Properties.                                                             *)

Labels == {"lock", "backend", "publish", "fail", "wait", "returned", "raised"}

\* Every variable has its type, and the cache holds at most MaxEntries keys,
\* each of them once.
TypeOK ==
    /\ cache \in Seq(Keys) /\ Len(cache) <= MaxEntries
    /\ Distinct(cache)
    /\ inflight \in [Keys -> Calls \cup {NoCall}]
    /\ flight \in [Calls -> [Keys -> {"none", "pending", "done", "retry", "error"}]]
    /\ pc \in [Calls -> Labels]
    /\ owned \in [Calls -> SUBSET Keys]
    /\ waiting \in [Calls -> SUBSET (Keys \X Calls)]
    /\ resolved \in [Calls -> SUBSET Keys]
    /\ recent \in Seq(Keys)
    /\ cancelled \subseteq Calls
    /\ refused \subseteq Keys

\* A text is with the service at most once at a time, and is not sent while
\* its vector is in the cache.
OneRequest ==
    \A c \in Calls : pc[c] = "backend" =>
        \A k \in owned[c] : /\ k \notin Cached
                            /\ \A d \in Calls : pc[d] = "backend" /\ k \in owned[d] => d = c

\* Nobody waits for a flight without a crew: while it is pending its owner
\* still has to end it, and is not itself waiting for anybody.
FlightHasOwner ==
    \A c \in Calls : \A w \in waiting[c] : Flight(w) = "pending" =>
        pc[w[2]] \in {"backend", "publish", "fail"} /\ w[1] \in owned[w[2]]

\* A call returns with all its vectors.  It raises only because it was
\* cancelled itself or because the service refused a text it asked for: the
\* cancellation of another call is never its failure.
CallsEndWell ==
    \A c \in Calls :
        /\ pc[c] = "returned" => Wanted(c) \subseteq resolved[c]
        /\ pc[c] = "raised" => c \in cancelled \/ Wanted(c) \cap refused # {}

\* The cache holds the keys used last, in the order of their last use: what
\* is evicted is what was least recently used.
LeastRecentIsEvicted ==
    /\ Len(cache) <= Len(recent)
    /\ cache = SubSeq(recent, Len(recent) - Len(cache) + 1, Len(recent))

\* Every call ends, although calls wait for each other's flights.
EveryCallEnds == \A c \in Calls : <>(pc[c] \in {"returned", "raised"})
=============================================================================
