-------------------------- MODULE MCEmbeddingCache --------------------------
(***************************************************************************)
(* An instance of EmbeddingCache for TLC: two batches that ask for the     *)
(* same texts in opposite orders, and a third that overlaps both.          *)
(***************************************************************************)
EXTENDS EmbeddingCache, TLC

CONSTANTS k1, k2, k3, c1, c2, c3

Overlapping == c1 :> <<k1, k2>> @@ c2 :> <<k2, k1>> @@ c3 :> <<k2, k3>>
=============================================================================
