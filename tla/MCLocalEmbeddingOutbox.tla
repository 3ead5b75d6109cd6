----------------------- MODULE MCLocalEmbeddingOutbox -----------------------
(***************************************************************************)
(* Instances of LocalEmbeddingOutbox for TLC.                              *)
(***************************************************************************)
EXTENDS LocalEmbeddingOutbox

CONSTANTS t1, a, b, w1, w2
=============================================================================
