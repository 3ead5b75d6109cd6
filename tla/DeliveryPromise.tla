--------------------------- MODULE DeliveryPromise ---------------------------
(***************************************************************************)
(* What the ingress delivery lane promises, without handlers, leases,      *)
(* attempts or retries: a key is accepted once, with one content; it       *)
(* succeeds only after that content is in the source store; its fate is    *)
(* final; and a message leaves the queue only when the fate of its content *)
(* is final or the message is excused, by a poison record or a refusal     *)
(* that does not touch the canonical state.                                *)
(***************************************************************************)
CONSTANTS Keys, Hashes, NoHash, Msgs,
          KeyOf, HashOf   \* key and content hash of each message

VARIABLES
    content,    \* content[k]: the accepted content of k, or NoHash
    fate,       \* fate[k]: "open", "succeeded" or "quarantined"
    stored,     \* contents in the source store
    excused,    \* messages excused from having a canonical fate
    gone        \* messages removed from the queue

promiseVars == <<content, fate, stored, excused, gone>>

Init ==
    /\ content = [k \in Keys |-> NoHash]
    /\ fate = [k \in Keys |-> "open"]
    /\ stored = {}
    /\ excused \in SUBSET Msgs
    /\ gone = {}

Accept(k, h) ==
    /\ content[k] = NoHash
    /\ content' = [content EXCEPT ![k] = h]
    /\ UNCHANGED <<fate, stored, excused, gone>>

Write(k) ==
    /\ content[k] # NoHash
    /\ stored' = stored \cup {<<k, content[k]>>}
    /\ UNCHANGED <<content, fate, excused, gone>>

Succeed(k) ==
    /\ fate[k] = "open" /\ <<k, content[k]>> \in stored
    /\ fate' = [fate EXCEPT ![k] = "succeeded"]
    /\ UNCHANGED <<content, stored, excused, gone>>

Quarantine(k) ==
    /\ fate[k] = "open" /\ content[k] # NoHash
    /\ fate' = [fate EXCEPT ![k] = "quarantined"]
    /\ UNCHANGED <<content, stored, excused, gone>>

Excuse(m) ==
    /\ excused' = excused \cup {m}
    /\ UNCHANGED <<content, fate, stored, gone>>

Remove(m) ==
    /\ \/ m \in excused
       \/ fate[KeyOf[m]] # "open" /\ content[KeyOf[m]] = HashOf[m]
    /\ gone' = gone \cup {m}
    /\ UNCHANGED <<content, fate, stored, excused>>

Next ==
    \/ \E k \in Keys : Write(k) \/ Succeed(k) \/ Quarantine(k)
    \/ \E k \in Keys, h \in Hashes : Accept(k, h)
    \/ \E m \in Msgs : Excuse(m) \/ Remove(m)

Spec == Init /\ [][Next]_promiseVars
=============================================================================
