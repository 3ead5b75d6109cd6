-------------------------- MODULE MCIngressDelivery --------------------------
(***************************************************************************)
(* Instances of IngressDelivery for TLC.  Messages and drains are model    *)
(* values, keys and hashes strings.                                        *)
(***************************************************************************)
EXTENDS IngressDelivery, TLC

CONSTANTS m1, m2, m3, m4

Message(k, h, shape, class) == [key |-> k, hash |-> h, shape |-> shape, class |-> class]

\* One direct enqueue payload.
OneWire == m1 :> Message("k1", "h1", "nested", "ok")

\* Two messages that use one key for different contents, the second flat as
\* the ingress API publishes it.
ClashWire ==
    m1 :> Message("k1", "h1", "nested", "ok") @@ m2 :> Message("k1", "h2", "flat", "ok")

\* A message of the ingress API, one that the wire gate refuses, and one that
\* is not JSON.
SettlesWire ==
    m1 :> Message("k1", "h1", "flat", "ok") @@ m3 :> Message("k2", "h2", "flat", "unredacted")
    @@ m4 :> Message("k2", "h1", "flat", "undecodable")
=============================================================================
