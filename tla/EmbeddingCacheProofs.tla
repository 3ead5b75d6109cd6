------------------------ MODULE EmbeddingCacheProofs ------------------------
(***************************************************************************)
(* EmbeddingCache for any calls, texts and capacity.  IInv is about the    *)
(* flights: there is one per key, it is ended by its owner, and a call     *)
(* ends well; it does not ask what is in the cache.  CacheInv, further     *)
(* down, does.                                                             *)
(***************************************************************************)
EXTENDS EmbeddingCache, ListProofs, SequenceTheorems, FiniteSetTheorems, TLAPS

States == {"none", "pending", "done", "retry", "error"}

FlightTypes ==
    /\ inflight \in [Keys -> Calls \cup {NoCall}]
    /\ flight \in [Calls -> [Keys -> States]]
    /\ pc \in [Calls -> Labels]
    /\ owned \in [Calls -> SUBSET Keys]
    /\ waiting \in [Calls -> SUBSET (Keys \X Calls)]
    /\ resolved \in [Calls -> SUBSET Keys]
    /\ cancelled \subseteq Calls
    /\ refused \subseteq Keys

\* A call owns the pending flights that are registered under its name, and
\* only while it has to end them.
Ownership ==
    \A c \in Calls, k \in Keys :
        /\ k \in owned[c] => /\ inflight[k] = c
                             /\ flight[c][k] = "pending"
                             /\ k \in Wanted(c)
                             /\ pc[c] \in {"backend", "publish", "fail"}
        /\ inflight[k] = c => k \in owned[c]
        /\ flight[c][k] = "pending" => k \in owned[c]

\* What a call waits for are flights, of texts it asked for.
Waiting ==
    \A c \in Calls : \A w \in waiting[c] : Flight(w) # "none" /\ w[1] \in Wanted(c)

\* Where an error in a flight comes from.
Errors ==
    /\ \A c \in Calls, k \in Keys : flight[c][k] = "error" => k \in refused
    /\ \A c \in Calls :
        /\ pc[c] = "backend" => owned[c] # {}
        /\ pc[c] = "fail" /\ c \notin cancelled =>
             owned[c] \subseteq refused /\ Wanted(c) \cap refused # {}

\* No text of a call is lost between the lock and the end.
Accounted ==
    \A c \in Calls : pc[c] \in {"backend", "publish", "wait"} =>
        \A k \in Wanted(c) : k \in resolved[c] \/ k \in owned[c] \/ \E w \in waiting[c] : w[1] = k

IInv == FlightTypes /\ Ownership /\ Waiting /\ Errors /\ Accounted /\ CallsEndWell

\* A key has one owner at a time.
OneFlight ==
    \A c, d \in Calls : owned[c] \cap owned[d] # {} => c = d

-----------------------------------------------------------------------------
LEMMA WantedKeys == ASSUME NEW c \in Calls PROVE Wanted(c) \subseteq Keys
BY CacheAssumption DEF Wanted, Range

LEMMA WantedStays == \A c : Wanted(c)' = Wanted(c)
BY DEF Wanted

LEMMA IndexNat ==
    ASSUME NEW c \in Calls, NEW k \in Wanted(c)
    PROVE  Index(c, k) \in Nat
<1>1. \E i \in DOMAIN Texts[c] : Texts[c][i] = k
    BY DEF Wanted, Range
<1>2. Index(c, k) \in DOMAIN Texts[c]
    BY <1>1 DEF Index
<1>3. DOMAIN Texts[c] \subseteq Nat
    BY CacheAssumption
<1> QED
    BY <1>2, <1>3

LEMMA FirstIsOwned ==
    ASSUME NEW c \in Calls, owned[c] # {}, owned[c] \subseteq Wanted(c)
    PROVE  First(c) \in owned[c]
<1> DEFINE T == {Index(c, k) : k \in owned[c]}
<1>1. T \subseteq Nat /\ T # {}
    BY IndexNat
<1>2. PICK m \in T : \A n \in T : ~(<<n, m>> \in OpToRel(<, Nat))
  <2> HIDE DEF T
  <2> QED
    BY <1>1, NatLessThanWellFounded, WFMin, ZenonT(30)
<1>3. \A n \in T : ~(n < m)
    BY <1>1, <1>2, Zenon DEF OpToRel
<1>4. PICK k \in owned[c] : m = Index(c, k)
    BY Zenon
<1>5. \A j \in owned[c] : Index(c, k) <= Index(c, j)
    BY <1>1, <1>3, <1>4
<1> QED
    BY <1>5 DEF First

LEMMA OwnedIsWanted ==
    ASSUME IInv, NEW c \in Calls
    PROVE  owned[c] \subseteq Wanted(c)
BY Zenon DEF IInv, FlightTypes, Ownership

-----------------------------------------------------------------------------
LEMMA InitIInv == Init => IInv
BY CacheAssumption
   DEF Init, IInv, FlightTypes, States, Labels, Ownership, Waiting, Errors, Accounted, CallsEndWell

LEMMA LockIInv ==
    ASSUME IInv, NEW c \in Calls, Lock(c)
    PROVE  IInv'
<1> DEFINE own == ToOwn(c)
           wait == {<<k, inflight[k]>> : k \in Missed(c) \ own}
<1>0. FlightTypes /\ Ownership /\ Waiting /\ Errors /\ Accounted /\ CallsEndWell
    BY DEF IInv
<1>1. /\ pc[c] = "lock"
      /\ resolved' = [resolved EXCEPT ![c] = @ \cup (Wanted(c) \cap Cached)]
      /\ inflight' = [k \in Keys |-> IF k \in own THEN c ELSE inflight[k]]
      /\ flight' = [flight EXCEPT ![c] = [k \in Keys |-> IF k \in own THEN "pending" ELSE @[k]]]
      /\ owned' = [owned EXCEPT ![c] = own]
      /\ waiting' = [waiting EXCEPT ![c] = wait]
      /\ pc' = [pc EXCEPT ![c] = AfterLock(own)]
      /\ UNCHANGED <<cancelled, refused>>
    BY Zenon DEF Lock, Goto
<1>2. own \subseteq Keys /\ own \subseteq Wanted(c) /\ \A k \in own : inflight[k] = NoCall
    BY WantedKeys DEF ToOwn, Missed
<1>3. \A k \in Missed(c) \ own : k \in Wanted(c) /\ k \in Keys /\ inflight[k] \in Calls
    BY <1>0, WantedKeys DEF ToOwn, Missed, FlightTypes
<1>4. \A k \in Wanted(c) : k \in resolved[c] \/ k \in Cached \/ k \in own \/ k \in Missed(c) \ own
    BY DEF Missed
<1>5. owned[c] = {} /\ pc'[c] = IF own # {} THEN "backend" ELSE "wait"
  <2> HIDE DEF own, wait
  <2>1. owned[c] \subseteq Keys /\ \A k \in Keys : k \notin owned[c]
    BY <1>0, <1>1, SMTT(30) DEF Ownership, FlightTypes
  <2>2. pc'[c] = AfterLock(own)
    BY <1>0, <1>1 DEF FlightTypes
  <2> QED
    BY <2>1, <2>2 DEF AfterLock
<1>6. wait \in SUBSET (Keys \X Calls)
    BY <1>3
<1>w. /\ \A w \in wait : w[1] \in Wanted(c) /\ w[1] \in Keys /\ w[2] \in Calls /\ inflight[w[1]] = w[2]
      /\ \A k \in Missed(c) \ own : \E w \in wait : w[1] = k
  <2>1. ASSUME NEW w \in wait
        PROVE  w[1] \in Wanted(c) /\ w[1] \in Keys /\ w[2] \in Calls /\ inflight[w[1]] = w[2]
    <3>1. PICK k \in Missed(c) \ own : w = <<k, inflight[k]>>
      BY <2>1
    <3> HIDE DEF own, wait
    <3> QED
      BY <3>1, <1>3
  <2>2. ASSUME NEW k \in Missed(c) \ own
        PROVE  \E w \in wait : w[1] = k
    <3>1. <<k, inflight[k]>> \in wait
      BY <2>2
    <3> HIDE DEF own, wait
    <3> QED
      BY <3>1
  <2> QED
    BY <2>1, <2>2
<1> HIDE DEF own, wait
<1>7. FlightTypes'
    BY <1>0, <1>1, <1>2, <1>5, <1>6, WantedKeys DEF FlightTypes, States, Labels
<1>f. /\ \A k \in Keys : flight'[c][k] = IF k \in own THEN "pending" ELSE flight[c][k]
      /\ \A d \in Calls \ {c} : flight'[d] = flight[d] /\ pc'[d] = pc[d] /\ owned'[d] = owned[d]
                                /\ waiting'[d] = waiting[d] /\ resolved'[d] = resolved[d]
      /\ owned'[c] = own /\ waiting'[c] = wait /\ resolved'[c] = resolved[c] \cup (Wanted(c) \cap Cached)
    BY <1>0, <1>1 DEF FlightTypes
<1>8. Ownership'
  <2> SUFFICES ASSUME NEW d \in Calls, NEW k \in Keys
               PROVE  /\ k \in owned'[d] => /\ inflight'[k] = d
                                            /\ flight'[d][k] = "pending"
                                            /\ k \in Wanted(d)
                                            /\ pc'[d] \in {"backend", "publish", "fail"}
                      /\ inflight'[k] = d => k \in owned'[d]
                      /\ flight'[d][k] = "pending" => k \in owned'[d]
    BY WantedStays DEF Ownership
  <2>1. CASE d = c
    BY <2>1, <1>0, <1>1, <1>2, <1>5, <1>f, CacheAssumption DEF Ownership
  <2>2. CASE d # c
    BY <2>2, <1>0, <1>1, <1>2, <1>f, CacheAssumption DEF Ownership
  <2> QED
    BY <2>1, <2>2
<1>9. Waiting'
  <2>0. \A d \in Calls, k \in Keys : flight[d][k] # "none" => flight'[d][k] # "none"
    BY <1>f
  <2> SUFFICES ASSUME NEW d \in Calls, NEW w \in waiting'[d]
               PROVE  flight'[w[2]][w[1]] # "none" /\ w[1] \in Wanted(d)
    BY WantedStays DEF Waiting, Flight
  <2>1. CASE d = c
    <3>1. w \in wait
      BY <2>1, <1>f
    <3>2. w[1] \in owned[w[2]] /\ flight[w[2]][w[1]] = "pending"
      BY <3>1, <1>w, <1>0 DEF Ownership
    <3> QED
      BY <3>1, <3>2, <2>0, <2>1, <1>w
  <2>2. CASE d # c
    <3>1. w \in waiting[d] /\ w[1] \in Keys /\ w[2] \in Calls
      BY <2>2, <1>f, <1>0 DEF FlightTypes
    <3> QED
      BY <3>1, <2>0, <1>0, Zenon DEF Waiting, Flight
  <2> QED
    BY <2>1, <2>2
<1>10. Errors'
    BY <1>0, <1>1, <1>5, <1>f, WantedStays DEF Errors
<1>11. Accounted'
  <2> SUFFICES ASSUME NEW d \in Calls, pc'[d] \in {"backend", "publish", "wait"}, NEW k \in Wanted(d)
               PROVE  k \in resolved'[d] \/ k \in owned'[d] \/ \E w \in waiting'[d] : w[1] = k
    BY WantedStays DEF Accounted
  <2>1. CASE d = c
    BY <2>1, <1>4, <1>f, <1>w
  <2>2. CASE d # c
    BY <2>2, <1>0, <1>f DEF Accounted
  <2> QED
    BY <2>1, <2>2, Zenon
<1>12. CallsEndWell'
    BY <1>0, <1>1, <1>5, <1>f, WantedStays DEF CallsEndWell
<1> QED
    BY <1>7, <1>8, <1>9, <1>10, <1>11, <1>12 DEF IInv

-----------------------------------------------------------------------------
\* Steps that move a call on, and end no flight.
LEMMA AnsweredIInv ==
    ASSUME IInv, NEW c \in Calls, Answered(c)
    PROVE  IInv'
<1>0. FlightTypes /\ Ownership /\ Waiting /\ Errors /\ Accounted /\ CallsEndWell
    BY Zenon DEF IInv
<1>1. FlightTypes'
    BY <1>0 DEF Answered, Goto, FlightTypes, Labels
<1>2. Ownership'
    BY <1>0, WantedStays DEF Answered, Goto, FlightTypes, Ownership
<1>3. Waiting' /\ Errors'
    BY <1>0, WantedStays, Zenon DEF Answered, Goto, FlightTypes, Waiting, Flight, Errors
<1>4. Accounted' /\ CallsEndWell'
    BY <1>0, WantedStays DEF Answered, Goto, FlightTypes, Accounted, CallsEndWell
<1> QED
    BY <1>1, <1>2, <1>3, <1>4, Zenon DEF IInv

LEMMA RefusedIInv ==
    ASSUME IInv, NEW c \in Calls, Refused(c)
    PROVE  IInv'
<1>0. FlightTypes /\ Ownership /\ Waiting /\ Errors /\ Accounted /\ CallsEndWell
    BY Zenon DEF IInv
<1>1. Wanted(c) \cap refused' # {} /\ owned[c] \subseteq refused'
    BY <1>0, OwnedIsWanted DEF Refused, Errors
<1>2. FlightTypes'
    BY <1>0 DEF Refused, Goto, FlightTypes, Labels
<1>3. Ownership'
    BY <1>0, WantedStays DEF Refused, Goto, FlightTypes, Ownership
<1>4. Waiting' /\ Errors'
    BY <1>0, <1>1, WantedStays DEF Refused, Goto, FlightTypes, Waiting, Flight, Errors
<1>5. Accounted' /\ CallsEndWell'
    BY <1>0, WantedStays DEF Refused, Goto, FlightTypes, Accounted, CallsEndWell
<1> QED
    BY <1>2, <1>3, <1>4, <1>5 DEF IInv

LEMMA CancelIInv ==
    ASSUME IInv, NEW c \in Calls, Cancel(c)
    PROVE  IInv'
<1>0. FlightTypes /\ Ownership /\ Waiting /\ Errors /\ Accounted /\ CallsEndWell
    BY Zenon DEF IInv
<1>1. pc' = [pc EXCEPT ![c] = IF pc[c] = "backend" THEN "fail" ELSE "raised"]
    BY Zenon DEF Cancel, Goto
<1>2. /\ cancelled' = cancelled \cup {c} /\ pc[c] \in {"backend", "wait"}
      /\ UNCHANGED <<cache, inflight, flight, owned, waiting, resolved, recent, refused>>
    BY Zenon DEF Cancel
<1>3. FlightTypes'
    BY <1>0, <1>1, <1>2, Zenon DEF FlightTypes, Labels
<1>4. Ownership'
    BY <1>0, <1>1, <1>2, WantedStays DEF FlightTypes, Ownership
<1>5. Waiting' /\ Errors' /\ Accounted' /\ CallsEndWell'
    BY <1>0, <1>1, <1>2, WantedStays DEF FlightTypes, Waiting, Flight, Errors, Accounted, CallsEndWell
<1> QED
    BY <1>3, <1>4, <1>5, Zenon DEF IInv

LEMMA PublishedIInv ==
    ASSUME IInv, NEW c \in Calls, Published(c)
    PROVE  IInv'
<1>0. FlightTypes /\ Ownership /\ Waiting /\ Errors /\ Accounted /\ CallsEndWell
    BY Zenon DEF IInv
<1>1. FlightTypes'
    BY <1>0 DEF Published, Goto, FlightTypes, Labels
<1>2. Ownership'
    BY <1>0, WantedStays DEF Published, Goto, FlightTypes, Ownership
<1>3. Waiting' /\ Errors'
    BY <1>0, WantedStays, Zenon DEF Published, Goto, FlightTypes, Waiting, Flight, Errors
<1>4. Accounted' /\ CallsEndWell'
    BY <1>0, WantedStays DEF Published, Goto, FlightTypes, Accounted, CallsEndWell
<1> QED
    BY <1>1, <1>2, <1>3, <1>4 DEF IInv

LEMMA FailedIInv ==
    ASSUME IInv, NEW c \in Calls, Failed(c)
    PROVE  IInv'
<1>0. FlightTypes /\ Ownership /\ Waiting /\ Errors /\ Accounted /\ CallsEndWell
    BY Zenon DEF IInv
<1>1. FlightTypes'
    BY <1>0 DEF Failed, Goto, FlightTypes, Labels
<1>2. Ownership'
    BY <1>0, WantedStays DEF Failed, Goto, FlightTypes, Ownership
<1>3. Waiting' /\ Errors'
    BY <1>0, WantedStays, Zenon DEF Failed, Goto, FlightTypes, Waiting, Flight, Errors
<1>4. Accounted' /\ CallsEndWell'
    BY <1>0, WantedStays DEF Failed, Goto, FlightTypes, Errors, Accounted, CallsEndWell
<1> QED
    BY <1>1, <1>2, <1>3, <1>4, Zenon DEF IInv

-----------------------------------------------------------------------------
\* A flight ends: its key leaves owned and inflight together.
LEMMA PublishIInv ==
    ASSUME IInv, NEW c \in Calls, Publish(c)
    PROVE  IInv'
<1> DEFINE k == First(c)
<1>0. FlightTypes /\ Ownership /\ Waiting /\ Errors /\ Accounted /\ CallsEndWell
    BY Zenon DEF IInv
<1>1. k \in owned[c] /\ k \in Keys /\ inflight[k] = c /\ flight[c][k] = "pending"
    BY <1>0, OwnedIsWanted, FirstIsOwned DEF Publish, FlightTypes, Ownership
<1>2. /\ inflight' = [inflight EXCEPT ![k] = NoCall]
      /\ flight' = [flight EXCEPT ![c][k] = "done"]
      /\ resolved' = [resolved EXCEPT ![c] = @ \cup {k}]
      /\ owned' = [owned EXCEPT ![c] = @ \ {k}]
      /\ pc[c] = "publish"
      /\ UNCHANGED <<pc, waiting, cancelled, refused>>
    BY <1>1 DEF Publish
<1> HIDE DEF k
<1>3. FlightTypes'
    BY <1>0, <1>1, <1>2 DEF FlightTypes, States
<1>4. Ownership'
    BY <1>0, <1>1, <1>2, CacheAssumption, WantedStays DEF FlightTypes, Ownership
<1>5. Waiting'
  <2>1. \A d \in Calls, j \in Keys : flight[d][j] # "none" => flight'[d][j] # "none"
    BY <1>0, <1>1, <1>2 DEF FlightTypes
  <2> QED
    BY <2>1, <1>0, <1>2, WantedStays DEF Waiting, Flight, FlightTypes
<1>6. Errors'
    BY <1>0, <1>1, <1>2, WantedStays DEF FlightTypes, Errors
<1>7. Accounted' /\ CallsEndWell'
    BY <1>0, <1>1, <1>2, WantedStays DEF FlightTypes, Accounted, CallsEndWell
<1> QED
    BY <1>3, <1>4, <1>5, <1>6, <1>7, Zenon DEF IInv

LEMMA FailIInv ==
    ASSUME IInv, NEW c \in Calls, Fail(c)
    PROVE  IInv'
<1> DEFINE k == First(c)
<1>0. FlightTypes /\ Ownership /\ Waiting /\ Errors /\ Accounted /\ CallsEndWell
    BY Zenon DEF IInv
<1>1. k \in owned[c] /\ k \in Keys /\ inflight[k] = c /\ flight[c][k] = "pending"
    BY <1>0, OwnedIsWanted, FirstIsOwned DEF Fail, FlightTypes, Ownership
<1>2. /\ inflight' = [inflight EXCEPT ![k] = NoCall]
      /\ flight' = [flight EXCEPT ![c][k] = Failure(c)]
      /\ owned' = [owned EXCEPT ![c] = @ \ {k}]
      /\ pc[c] = "fail"
      /\ UNCHANGED <<pc, waiting, resolved, cancelled, refused>>
    BY <1>1 DEF Fail
<1>e. Failure(c) \in {"retry", "error"} /\ (Failure(c) = "error" => k \in refused)
    BY <1>0, <1>1, <1>2 DEF Failure, Errors
<1> HIDE DEF k
<1>3. FlightTypes'
    BY <1>0, <1>1, <1>2, <1>e DEF FlightTypes, States
<1>4. Ownership'
    BY <1>0, <1>1, <1>2, <1>e, CacheAssumption, WantedStays DEF FlightTypes, Ownership
<1>5. Waiting'
  <2>1. \A d \in Calls, j \in Keys : flight[d][j] # "none" => flight'[d][j] # "none"
    BY <1>0, <1>1, <1>2, <1>e, Zenon DEF FlightTypes
  <2> QED
    BY <2>1, <1>0, <1>2, WantedStays DEF Waiting, Flight, FlightTypes
<1>6. Errors'
    BY <1>0, <1>1, <1>2, <1>e, WantedStays DEF FlightTypes, Errors
<1>7. Accounted' /\ CallsEndWell'
    BY <1>0, <1>1, <1>2, WantedStays DEF FlightTypes, Accounted, CallsEndWell
<1> QED
    BY <1>3, <1>4, <1>5, <1>6, <1>7, Zenon DEF IInv

\* The end of a call: every flight it waited for brought a vector, an error
\* the service caused, or a retry.
LEMMA GatheredIInv ==
    ASSUME IInv, NEW c \in Calls, Gathered(c)
    PROVE  IInv'
<1> DEFINE ended(result) == {w \in waiting[c] : Flight(w) = result}
           label == IF ended("error") # {} THEN "raised"
                    ELSE IF ended("retry") # {} THEN "lock" ELSE "returned"
           got == {w[1] : w \in ended("done")}
<1>0. FlightTypes /\ Ownership /\ Waiting /\ Errors /\ Accounted /\ CallsEndWell
    BY Zenon DEF IInv
<1>1. /\ pc[c] = "wait" /\ ended("pending") = {}
      /\ resolved' = [resolved EXCEPT ![c] = @ \cup got]
      /\ pc' = [pc EXCEPT ![c] = label]
      /\ waiting' = [waiting EXCEPT ![c] = {}]
      /\ UNCHANGED <<inflight, flight, owned, cancelled, refused>>
    BY Zenon DEF Gathered, Goto
<1>2. /\ label \in {"raised", "lock", "returned"} /\ got \subseteq Keys
      /\ owned[c] = {}
  <2>1. label \in {"raised", "lock", "returned"}
    OBVIOUS
  <2>2. \A w \in ended("done") : w[1] \in Keys
    BY <1>0 DEF FlightTypes
  <2>3. owned[c] \subseteq Keys /\ \A k \in Keys : k \notin owned[c]
    BY <1>0, <1>1 DEF FlightTypes, Ownership
  <2> QED
    BY <2>1, <2>2, <2>3, Zenon
<1>3. label = "returned" => Wanted(c) \subseteq resolved[c] \cup got
  <2> SUFFICES ASSUME label = "returned", NEW k \in Wanted(c), k \notin resolved[c]
               PROVE  k \in got
    BY Zenon
  <2>1. PICK w \in waiting[c] : w[1] = k
    BY <1>0, <1>1, <1>2, Zenon DEF Accounted
  <2>2. w[1] \in Keys /\ w[2] \in Calls /\ Flight(w) # "none"
    BY <1>0 DEF FlightTypes, Waiting
  <2>3. Flight(w) \in States
    BY <1>0, <2>2 DEF FlightTypes, Flight
  <2>4. Flight(w) = "done"
    BY <1>1, <2>1, <2>2, <2>3, Zenon DEF States
  <2> QED
    BY <2>1, <2>4
<1>4. label = "raised" => Wanted(c) \cap refused # {}
  <2> SUFFICES ASSUME label = "raised"
               PROVE  Wanted(c) \cap refused # {}
    BY Zenon
  <2>1. PICK w \in waiting[c] : Flight(w) = "error"
    BY Zenon
  <2>2. w[1] \in Keys /\ w[2] \in Calls /\ w[1] \in Wanted(c)
    BY <1>0 DEF FlightTypes, Waiting
  <2> QED
    BY <1>0, <2>1, <2>2, Zenon DEF Errors, Flight
<1> HIDE DEF label, got
<1>5. FlightTypes'
    BY <1>0, <1>1, <1>2, Zenon DEF FlightTypes, Labels
<1>6. Ownership'
    BY <1>0, <1>1, <1>2, WantedStays DEF FlightTypes, Ownership
<1>7. Waiting' /\ Errors'
    BY <1>0, <1>1, <1>2, WantedStays DEF FlightTypes, Waiting, Flight, Errors
<1>8. Accounted'
    BY <1>0, <1>1, <1>2, WantedStays DEF FlightTypes, Accounted
<1>9. CallsEndWell'
    BY <1>0, <1>1, <1>2, <1>3, <1>4, WantedStays, Zenon DEF FlightTypes, CallsEndWell
<1> QED
    BY <1>5, <1>6, <1>7, <1>8, <1>9, Zenon DEF IInv

-----------------------------------------------------------------------------
LEMMA NextIInv == IInv /\ [Next]_vars => IInv'
<1> SUFFICES ASSUME IInv, [Next]_vars
             PROVE  IInv'
    OBVIOUS
<1>1. CASE UNCHANGED vars
    BY <1>1, WantedStays DEF vars, IInv, FlightTypes, Ownership, Waiting, Flight, Errors, Accounted,
       CallsEndWell
<1>2. CASE Next
  <2>1. PICK c \in Calls : Step(c) \/ Cancel(c)
    BY <1>2 DEF Next
  <2> QED
    BY <2>1, LockIInv, AnsweredIInv, RefusedIInv, CancelIInv, PublishIInv, PublishedIInv, FailIInv,
       FailedIInv, GatheredIInv DEF Step
<1> QED
    BY <1>1, <1>2, Zenon

LEMMA CacheInvariant == Spec => []IInv
BY InitIInv, NextIInv, PTL DEF Spec

\* Whatever the calls and the capacity, a key has at most one owner: no text
\* is sent to the service by two calls at once.
THEOREM CacheOneFlight == Spec => []OneFlight
<1>1. IInv => OneFlight
    BY DEF IInv, FlightTypes, Ownership, OneFlight
<1> QED
    BY <1>1, CacheInvariant, PTL

\* Whatever the calls and the capacity, a flight somebody waits for is in the
\* hands of a call that does not wait: calls cannot deadlock on each other.
THEOREM CacheFlightHasOwner == Spec => []FlightHasOwner
<1>1. IInv => FlightHasOwner
  <2> SUFFICES ASSUME IInv, NEW c \in Calls, NEW w \in waiting[c], Flight(w) = "pending"
               PROVE  pc[w[2]] \in {"backend", "publish", "fail"} /\ w[1] \in owned[w[2]]
    BY DEF FlightHasOwner
  <2>1. w[1] \in Keys /\ w[2] \in Calls
    BY DEF IInv, FlightTypes
  <2> QED
    BY <2>1 DEF IInv, Ownership, Flight
<1> QED
    BY <1>1, CacheInvariant, PTL

\* Whatever the calls and the capacity, a call that returns has all of its
\* vectors, and one that raises was cancelled itself or was refused.
THEOREM CacheCallsEndWell == Spec => []CallsEndWell
<1>1. IInv => CallsEndWell
    BY Zenon DEF IInv
<1> QED
    BY <1>1, CacheInvariant, PTL

-----------------------------------------------------------------------------
(* What is in the cache.  A list of keys ends in the cache: recent is      *)
(* older uses, followed by the cache in its order.                         *)

EndsIn(keys, last) == \E older \in Seq(Keys) : keys = older \o last

\* Publishing a key ends its flight, so a key is never both.
CacheInv ==
    /\ cache \in Seq(Keys) /\ recent \in Seq(Keys)
    /\ Len(cache) <= MaxEntries
    /\ Distinct(cache)
    /\ EndsIn(recent, cache)
    /\ \A k \in Cached : inflight[k] = NoCall

\* A name for the concatenation keeps the provers from unfolding it when they
\* use the next lemma.
Chained(s, t) == s \o t

\* Filtering goes through a concatenation.
LEMMA WithinChained ==
    ASSUME NEW S, NEW s \in Seq(S), NEW t \in Seq(S), NEW set
    PROVE  Within(Chained(s, t), set) = Chained(Within(s, set), Within(t, set))
<1> DEFINE u == s \o t
<1>1. /\ u \in Seq(S) /\ Len(s) \in Nat /\ Len(t) \in Nat /\ Len(u) = Len(s) + Len(t)
      /\ \A i \in Nat : i < Len(s) => u[i + 1] = s[i + 1]
      /\ \A i \in Nat : i < Len(t) => u[Len(s) + i + 1] = t[i + 1] /\ t[i + 1] \in S
  OBVIOUS
<1> HIDE DEF u
<1>2. PICK f : Filters(f, s, set, S)
  BY Prefixes, Zenon
<1>3. PICK g : Filters(g, t, set, S)
  BY Prefixes, Zenon
<1>4. PICK h : Filters(h, u, set, S)
  BY <1>1, Prefixes, Zenon
<1> DEFINE A == {n \in Nat : n <= Len(s) => h[n] = f[n]}
           B == {n \in Nat : n <= Len(t) => h[Len(s) + n] = f[Len(s)] \o g[n]}
<1>5. 0 \in A
  BY <1>2, <1>4, Zenon DEF Filters
<1>6. ASSUME NEW n \in Nat, n \in A
      PROVE  n + 1 \in A
  <2>0. n + 1 \in Nat
    OBVIOUS
  <2>1. CASE n + 1 <= Len(s)
    <3>1. n < Len(s) /\ n <= Len(s) /\ n < Len(u)
      BY <1>1, <2>1
    <3>2. h[n] = f[n] /\ u[n + 1] = s[n + 1]
      BY <1>1, <1>6, <3>1, Zenon
    <3>3. CASE s[n + 1] \in set
      <4>1. h[n + 1] = Append(h[n], u[n + 1]) /\ f[n + 1] = Append(f[n], s[n + 1])
        BY <1>2, <1>4, <3>1, <3>2, <3>3, Zenon DEF Filters
      <4> QED
        BY <2>0, <3>2, <4>1, Zenon
    <3>4. CASE s[n + 1] \notin set
      <4>1. h[n + 1] = h[n] /\ f[n + 1] = f[n]
        BY <1>2, <1>4, <3>1, <3>2, <3>4, Zenon DEF Filters
      <4> QED
        BY <2>0, <3>2, <4>1, Zenon
    <3> QED
      BY <3>3, <3>4, Zenon
  <2> QED
    BY <2>0, <2>1, Zenon
<1>7. h[Len(s)] = f[Len(s)]
  <2>1. Len(s) <= Len(s)
    BY <1>1
  <2> HIDE DEF A
  <2>2. Len(s) \in A
    BY <1>1, <1>5, <1>6, SetInduction, Zenon
  <2> QED
    BY <2>1, <2>2, Zenon DEF A
<1> HIDE DEF A
<1>8. f[Len(s)] \in Seq(S) /\ \A n \in Nat : n <= Len(t) => g[n] \in Seq(S)
  <2>1. Len(s) \in 0..Len(s) /\ \A n \in Nat : n <= Len(t) => n \in 0..Len(t)
    BY <1>1
  <2> QED
    BY <1>2, <1>3, <2>1, Zenon DEF Filters
<1>9. 0 \in B
  <2>1. f[Len(s)] \o <<>> = f[Len(s)] /\ Len(s) + 0 = Len(s)
    BY <1>1, <1>8, ConcatEmptySeq
  <2> QED
    BY <1>3, <1>7, <2>1, Zenon DEF Filters
<1>10. ASSUME NEW n \in Nat, n \in B
       PROVE  n + 1 \in B
  <2>0. n + 1 \in Nat
    OBVIOUS
  <2>1. CASE n + 1 <= Len(t)
    <3>1. /\ n < Len(t) /\ n <= Len(t) /\ Len(s) + n < Len(u)
          /\ Len(s) + n \in Nat /\ Len(s) + (n + 1) = Len(s) + n + 1
      BY <1>1, <2>1
    <3>2. /\ h[Len(s) + n] = f[Len(s)] \o g[n] /\ u[Len(s) + n + 1] = t[n + 1]
          /\ t[n + 1] \in S /\ g[n] \in Seq(S)
      BY <1>1, <1>8, <1>10, <3>1, Zenon
    <3>3. CASE t[n + 1] \in set
      <4>1. h[Len(s) + n + 1] = Append(h[Len(s) + n], u[Len(s) + n + 1]) /\ g[n + 1] = Append(g[n], t[n + 1])
        BY <1>3, <1>4, <3>1, <3>2, <3>3, Zenon DEF Filters
      <4>2. Append(f[Len(s)] \o g[n], t[n + 1]) = f[Len(s)] \o Append(g[n], t[n + 1])
        <5> DEFINE a == f[Len(s)]
                   b == g[n]
                   x == t[n + 1]
        <5>1. a \in Seq(S) /\ b \in Seq(S) /\ x \in S
          BY <1>8, <3>2, Zenon
        <5> HIDE DEF a, b, x
        <5>2. <<x>> \in Seq(S) /\ a \o b \in Seq(S)
          BY <5>1
        <5>3. Append(a \o b, x) = (a \o b) \o <<x>> /\ Append(b, x) = b \o <<x>>
          BY <5>1, <5>2, AppendIsConcat
        <5>4. (a \o b) \o <<x>> = a \o (b \o <<x>>)
          BY <5>1, <5>2, ConcatAssociative, SMTT(20)
        <5> QED
          BY <5>3, <5>4, Zenon DEF a, b, x
      <4>3. h[Len(s) + (n + 1)] = f[Len(s)] \o g[n + 1]
        BY <3>1, <3>2, <4>1, <4>2, Zenon
      <4> QED
        BY <2>0, <4>3, Zenon
    <3>4. CASE t[n + 1] \notin set
      <4>1. h[Len(s) + n + 1] = h[Len(s) + n] /\ g[n + 1] = g[n]
        BY <1>3, <1>4, <3>1, <3>2, <3>4, Zenon DEF Filters
      <4>2. h[Len(s) + (n + 1)] = f[Len(s)] \o g[n + 1]
        BY <3>1, <3>2, <4>1, Zenon
      <4> QED
        BY <2>0, <4>2, Zenon
    <3> QED
      BY <3>3, <3>4, Zenon
  <2> QED
    BY <2>0, <2>1, Zenon
<1>11. h[Len(u)] = f[Len(s)] \o g[Len(t)]
  <2>1. Len(t) <= Len(t)
    BY <1>1
  <2> HIDE DEF B
  <2>2. Len(t) \in B
    BY <1>1, <1>9, <1>10, SetInduction, Zenon
  <2>3. h[Len(s) + Len(t)] = f[Len(s)] \o g[Len(t)]
    BY <1>1, <2>1, <2>2, Zenon DEF B
  <2> QED
    BY <1>1, <2>3, Zenon
<1> QED
  BY <1>2, <1>3, <1>4, <1>11, Zenon DEF u, Chained, Filters

\* Two lists of the same elements, each of them once, are equally long.
LEMMA SameLength ==
    ASSUME NEW S, NEW s \in Seq(S), NEW t \in Seq(S), Distinct(s), Distinct(t), Range(s) = Range(t)
    PROVE  Len(s) = Len(t)
<1>1. ASSUME NEW u \in Seq(S), Distinct(u)
      PROVE  Cardinality(Range(u)) = Len(u)
  <2>1. Len(u) \in Nat /\ u \in [1..Len(u) -> S] /\ DOMAIN u = 1..Len(u)
    OBVIOUS
  <2>2. u \in [1..Len(u) -> Range(u)]
    BY <2>1, Zenon DEF Range
  <2>3. u \in Bijection(1..Len(u), Range(u))
    BY <1>1, <2>1, <2>2, Zenon DEF Bijection, Injection, IsInjective, Surjection, Distinct, Range
  <2>4. ExistsBijection(1..Len(u), Range(u))
    BY <2>3, Zenon DEF ExistsBijection
  <2> QED
    BY <2>1, <2>4, FS_CountingElements, Zenon
<1> QED
  BY <1>1, Zenon

\* What is appended is the last part.
LEMMA Suffix ==
    ASSUME NEW S, NEW s \in Seq(S), NEW t \in Seq(S), NEW u, u = s \o t
    PROVE  /\ Len(t) <= Len(u)
           /\ t = SubSeq(u, Len(u) - Len(t) + 1, Len(u))
<1>1. /\ u \in Seq(S) /\ Len(u) = Len(s) + Len(t) /\ Len(s) \in Nat /\ Len(t) \in Nat
      /\ Len(u) - Len(t) + 1 = Len(s) + 1
    OBVIOUS
<1>2. \A i \in 1..Len(t) : u[Len(s) + i] = t[i]
    OBVIOUS
<1> DEFINE v == SubSeq(u, Len(s) + 1, Len(u))
<1>3. /\ v \in Seq(S) /\ Len(v) = Len(t)
      /\ \A i \in 1..Len(t) : v[i] = u[Len(s) + i]
    BY <1>1
<1> HIDE DEF v
<1>4. v = t
    BY <1>1, <1>2, <1>3, SeqEqual
<1> QED
    BY <1>1, <1>4 DEF v

LEMMA MovedKeys ==
    ASSUME cache \in Seq(Keys), recent \in Seq(Keys), Distinct(cache), EndsIn(recent, cache),
           NEW hits \in Seq(Keys), Distinct(hits)
    PROVE  /\ Moved(cache, hits) \in Seq(Keys)
           /\ Distinct(Moved(cache, hits))
           /\ Range(Moved(cache, hits)) = Cached \cup Range(hits)
           /\ Used(hits) \in Seq(Keys)
           /\ EndsIn(Used(hits), Moved(cache, hits))
<1> DEFINE others == Keys \ Range(hits)
           kept == Within(cache, others)
<1>1. /\ kept \in Seq(Keys) /\ Range(kept) = Cached \cap others /\ Distinct(kept)
    BY WithinKeeps, Zenon DEF Cached
<1>2. /\ Range(hits) \subseteq Keys /\ Cached \subseteq Keys
    BY Elements, Zenon DEF Cached
<1>3. Range(kept) \cap Range(hits) = {} /\ Range(kept) \cup Range(hits) = Cached \cup Range(hits)
    BY <1>1, <1>2, Zenon
<1>4. PICK older \in Seq(Keys) : recent = older \o cache
    BY Zenon DEF EndsIn
<1> DEFINE before == Within(older, others)
<1>5. before \in Seq(Keys)
    BY <1>4, WithinKeeps, Zenon
<1>6. Within(recent, others) = before \o kept
  <2> HIDE DEF others
  <2>1. Within(Chained(older, cache), others) = Chained(Within(older, others), Within(cache, others))
    BY <1>4, WithinChained
  <2> QED
    BY <1>4, <2>1, Zenon DEF Chained
<1> HIDE DEF kept, before
<1>7. /\ kept \o hits \in Seq(Keys) /\ Distinct(kept \o hits)
      /\ Range(kept \o hits) = Cached \cup Range(hits)
    BY <1>1, <1>3, Concatenated
<1>8. /\ (before \o kept) \o hits = before \o (kept \o hits)
      /\ before \o (kept \o hits) \in Seq(Keys)
  <2>0. before \in Seq(Keys) /\ kept \in Seq(Keys)
    BY <1>1, <1>5, Zenon
  <2>1. (before \o kept) \o hits = before \o (kept \o hits)
    BY <2>0
  <2>2. before \o (kept \o hits) \in Seq(Keys)
    BY <1>5, <1>7
  <2> QED
    BY <2>1, <2>2, Zenon
<1>9. Moved(cache, hits) = kept \o hits /\ Used(hits) = before \o (kept \o hits)
    BY <1>6, <1>8, Zenon DEF Moved, Used, kept
<1> QED
    BY <1>5, <1>7, <1>8, <1>9, Zenon DEF EndsIn

LEMMA CutKeys ==
    ASSUME NEW keys \in Seq(Keys), Distinct(keys)
    PROVE  /\ Cut(keys) \in Seq(Keys)
           /\ Len(Cut(keys)) <= MaxEntries
           /\ Distinct(Cut(keys))
           /\ Range(Cut(keys)) \subseteq Range(keys)
           /\ EndsIn(keys, Cut(keys))
<1>1. MaxEntries \in Nat /\ Len(keys) \in Nat
    BY CacheAssumption
<1>2. CASE Len(keys) > MaxEntries
  <2> DEFINE n == Len(keys) - MaxEntries
             end == SubSeq(keys, n + 1, Len(keys))
  <2>1. /\ n \in 0..Len(keys) /\ n + 1 \in 1..(Len(keys) + 1) /\ Len(keys) \in 0..Len(keys)
        /\ Len(keys) - n = MaxEntries
    BY <1>1, <1>2
  <2>2. Cut(keys) = end
    BY <1>2 DEF Cut
  <2> HIDE DEF n
  <2>3. /\ end \in Seq(Keys) /\ Len(end) = Len(keys) - n
        /\ SubSeq(keys, 1, n) \in Seq(Keys) /\ keys = SubSeq(keys, 1, n) \o end
    BY <2>1, SplitAt, Zenon
  <2>4. Distinct(end)
    BY <2>1, Sliced, Zenon
  <2>5. EndsIn(keys, end)
    BY <2>3, Zenon DEF EndsIn
  <2>6. Range(end) \subseteq Range(keys)
    <3> HIDE DEF end
    <3>1. Range(keys) = Range(SubSeq(keys, 1, n)) \cup Range(end)
      BY <2>3, Concatenated, Zenon
    <3> QED
      BY <3>1, Zenon
  <2> HIDE DEF end
  <2> QED
    BY <1>1, <2>1, <2>2, <2>3, <2>4, <2>5, <2>6
<1>3. CASE ~(Len(keys) > MaxEntries)
  <2>1. Cut(keys) = keys
    BY <1>3, Zenon DEF Cut
  <2>2. <<>> \in Seq(Keys) /\ keys = <<>> \o keys
    BY ConcatEmptySeq
  <2>3. EndsIn(keys, keys)
    BY <2>2, Zenon DEF EndsIn
  <2> QED
    BY <1>1, <1>3, <2>1, <2>3
<1> QED
    BY <1>2, <1>3, Zenon

LEMMA LockCache ==
    ASSUME IInv, CacheInv, NEW c \in Calls, Lock(c)
    PROVE  CacheInv'
<1> DEFINE hits == Within(Texts[c], Cached \ resolved[c])
           moved == Moved(cache, hits)
<1>0. /\ cache \in Seq(Keys) /\ recent \in Seq(Keys) /\ Len(cache) <= MaxEntries /\ Distinct(cache)
      /\ EndsIn(recent, cache) /\ \A k \in Cached : inflight[k] = NoCall
    BY Zenon DEF CacheInv
<1>1. /\ cache' = moved /\ recent' = Used(hits)
      /\ inflight' = [k \in Keys |-> IF k \in ToOwn(c) THEN c ELSE inflight[k]]
    BY Zenon DEF Lock
<1>2. Texts[c] \in Seq(Keys) /\ Distinct(Texts[c])
    BY CacheAssumption, Zenon
<1>3. hits \in Seq(Keys) /\ Distinct(hits) /\ Range(hits) \subseteq Cached
  <2>1. Range(hits) = Range(Texts[c]) \cap (Cached \ resolved[c]) /\ hits \in Seq(Keys) /\ Distinct(hits)
    BY <1>2, WithinKeeps, Zenon
  <2> QED
    BY <2>1, Zenon
<1> HIDE DEF hits
<1>4. /\ moved \in Seq(Keys) /\ Distinct(moved) /\ Range(moved) = Cached \cup Range(hits)
      /\ Used(hits) \in Seq(Keys) /\ EndsIn(Used(hits), moved)
    BY <1>0, <1>3, MovedKeys, Zenon
<1> HIDE DEF moved
<1>5. Range(moved) = Cached
    BY <1>3, <1>4, Zenon
<1>6. Len(moved) = Len(cache)
    BY <1>0, <1>4, <1>5, SameLength, Zenon DEF Cached
<1>7. Cached' = Cached /\ Cached \subseteq Keys
    BY <1>0, <1>1, <1>5, Elements, Zenon DEF Cached
<1>8. \A k \in Cached : inflight'[k] = NoCall
  <2>1. \A k \in Cached : k \notin ToOwn(c)
    BY Zenon DEF ToOwn, Missed
  <2> QED
    BY <1>0, <1>1, <1>7, <2>1, Zenon
<1>9. EndsIn(recent, cache)'
    BY <1>1, <1>4, Zenon DEF EndsIn
<1>10. Len(moved) <= MaxEntries
    BY <1>0, <1>6, Zenon
<1> QED
    BY <1>1, <1>4, <1>7, <1>8, <1>9, <1>10, Zenon DEF CacheInv

LEMMA PublishCache ==
    ASSUME IInv, CacheInv, NEW c \in Calls, Publish(c)
    PROVE  CacheInv'
<1> DEFINE k == First(c)
           moved == Moved(cache, <<k>>)
<1>0. /\ cache \in Seq(Keys) /\ recent \in Seq(Keys) /\ Len(cache) <= MaxEntries /\ Distinct(cache)
      /\ EndsIn(recent, cache) /\ \A j \in Cached : inflight[j] = NoCall
    BY Zenon DEF CacheInv
<1>1. k \in Keys /\ inflight \in [Keys -> Calls \cup {NoCall}]
  <2>1. k \in owned[c]
    BY OwnedIsWanted, FirstIsOwned, Zenon DEF Publish
  <2> QED
    BY <2>1, Zenon DEF IInv, FlightTypes
<1>2. CASE inflight[k] = c
  <2>1. /\ inflight' = [inflight EXCEPT ![k] = NoCall]
        /\ cache' = Cut(moved) /\ recent' = Used(<<k>>)
    BY <1>2, Zenon DEF Publish
  <2> HIDE DEF k
  <2>2. /\ <<k>> \in Seq(Keys) /\ Distinct(<<k>>) /\ Range(<<k>>) = {k}
    BY <1>1 DEF Distinct, Range
  <2>3. /\ moved \in Seq(Keys) /\ Distinct(moved) /\ Range(moved) = Cached \cup {k}
        /\ Used(<<k>>) \in Seq(Keys) /\ EndsIn(Used(<<k>>), moved)
    BY <1>0, <2>2, MovedKeys, Zenon
  <2> HIDE DEF moved
  <2>4. /\ Cut(moved) \in Seq(Keys) /\ Len(Cut(moved)) <= MaxEntries /\ Distinct(Cut(moved))
        /\ Range(Cut(moved)) \subseteq Range(moved) /\ EndsIn(moved, Cut(moved))
    BY <2>3, CutKeys, Zenon
  <2>5. EndsIn(Used(<<k>>), Cut(moved))
    <3> DEFINE cut == Cut(moved)
    <3>1. PICK older \in Seq(Keys) : Used(<<k>>) = older \o moved
      BY <2>3, Zenon DEF EndsIn
    <3>2. PICK dropped \in Seq(Keys) : moved = dropped \o cut
      BY <2>4, Zenon DEF EndsIn
    <3>3. cut \in Seq(Keys)
      BY <2>4, Zenon
    <3> HIDE DEF cut
    <3>4. older \o (dropped \o cut) = (older \o dropped) \o cut /\ older \o dropped \in Seq(Keys)
      BY <3>1, <3>2, <3>3
    <3>5. Used(<<k>>) = (older \o dropped) \o cut
      BY <3>1, <3>2, <3>4, Zenon
    <3> QED
      BY <3>4, <3>5, Zenon DEF cut, EndsIn
  <2>6. Cached' \subseteq Cached \cup {k} /\ Cached \subseteq Keys
    BY <1>0, <2>1, <2>3, <2>4, Elements, Zenon DEF Cached
  <2>7. \A j \in Cached' : inflight'[j] = NoCall
    BY <1>0, <1>1, <2>1, <2>6, Zenon
  <2>8. EndsIn(recent, cache)'
    BY <2>1, <2>5, Zenon DEF EndsIn
  <2> QED
    BY <2>1, <2>3, <2>4, <2>7, <2>8, Zenon DEF CacheInv
<1>3. CASE inflight[k] # c
  <2>1. UNCHANGED <<inflight, cache, recent>>
    BY <1>3, Zenon DEF Publish
  <2> QED
    BY <1>0, <2>1 DEF CacheInv, Cached, EndsIn
<1> QED
    BY <1>2, <1>3, Zenon

LEMMA FailCache ==
    ASSUME IInv, CacheInv, NEW c \in Calls, Fail(c)
    PROVE  CacheInv'
<1>1. inflight \in [Keys -> Calls \cup {NoCall}]
    BY Zenon DEF IInv, FlightTypes
<1>2. /\ cache' = cache /\ recent' = recent
      /\ inflight' = inflight \/ inflight' = [inflight EXCEPT ![First(c)] = NoCall]
    BY Zenon DEF Fail
<1>3. Cached \subseteq Keys /\ Cached' = Cached
    BY <1>2, Elements, Zenon DEF CacheInv, Cached
<1>4. \A k \in Cached : inflight'[k] = NoCall
    BY <1>1, <1>2, <1>3, Zenon DEF CacheInv
<1> QED
    BY <1>2, <1>3, <1>4, Zenon DEF CacheInv, EndsIn

LEMMA InitCache == Init => CacheInv
<1> SUFFICES ASSUME Init PROVE CacheInv
    OBVIOUS
<1>1. /\ <<>> \in Seq(Keys) /\ Len(<<>>) = 0 /\ Distinct(<<>>) /\ Range(<<>>) = {}
      /\ <<>> = <<>> \o <<>>
    BY DEF Distinct, Range
<1>2. 0 <= MaxEntries
    BY CacheAssumption
<1> QED
    BY <1>1, <1>2, Zenon DEF Init, CacheInv, Cached, EndsIn

LEMMA NextCache == IInv /\ CacheInv /\ [Next]_vars => CacheInv'
<1> SUFFICES ASSUME IInv, CacheInv, [Next]_vars
             PROVE  CacheInv'
    OBVIOUS
<1>1. ASSUME UNCHANGED <<cache, recent, inflight>>
      PROVE  CacheInv'
    BY <1>1 DEF CacheInv, Cached, EndsIn
<1>2. CASE UNCHANGED vars
    BY <1>1, <1>2 DEF vars
<1>3. CASE Next
  <2>1. PICK c \in Calls : Step(c) \/ Cancel(c)
    BY <1>3, Zenon DEF Next
  <2>2. \/ Lock(c) \/ Publish(c) \/ Fail(c)
        \/ UNCHANGED <<cache, recent, inflight>>
    BY <2>1, Zenon DEF Step, Answered, Refused, Published, Failed, Gathered, Cancel
  <2> QED
    BY <1>1, <2>2, LockCache, PublishCache, FailCache, Zenon
<1> QED
    BY <1>2, <1>3, Zenon

LEMMA CacheContents == Spec => []CacheInv
BY InitCache, NextCache, CacheInvariant, PTL DEF Spec

\* Whatever the calls and the capacity, every variable keeps its type, and
\* _cache never holds more than max_entries keys, nor a key twice.
THEOREM CacheTypeOK == Spec => []TypeOK
<1>1. IInv /\ CacheInv => TypeOK
    BY Zenon DEF IInv, FlightTypes, States, CacheInv, TypeOK
<1> QED
    BY <1>1, CacheInvariant, CacheContents, PTL

\* Whatever the calls and the capacity, create_batch sends a text to the
\* service only while no other call has it there and the cache does not hold
\* its vector.
THEOREM CacheOneRequest == Spec => []OneRequest
<1>1. IInv /\ CacheInv => OneRequest
  <2> SUFFICES ASSUME IInv, CacheInv, NEW c \in Calls, NEW k \in owned[c]
               PROVE  /\ k \notin Cached
                      /\ \A d \in Calls : k \in owned[d] => d = c
    BY Zenon DEF OneRequest
  <2>1. k \in Keys
    BY Zenon DEF IInv, FlightTypes
  <2>2. inflight[k] = c /\ \A d \in Calls : k \in owned[d] => inflight[k] = d
    BY <2>1, Zenon DEF IInv, Ownership
  <2> QED
    BY <2>2, CacheAssumption, Zenon DEF CacheInv
<1> QED
    BY <1>1, CacheInvariant, CacheContents, PTL

\* Whatever the calls and the capacity, the cache is what was used last, in
\* that order: move_to_end and popitem(last=False) evict the least recently
\* used key, although the lock is given up between the keys of a call.
THEOREM CacheIsLeastRecentlyUsed == Spec => []LeastRecentIsEvicted
<1>1. CacheInv => LeastRecentIsEvicted
    BY Suffix DEF CacheInv, EndsIn, LeastRecentIsEvicted
<1> QED
    BY <1>1, CacheContents, PTL
=============================================================================
