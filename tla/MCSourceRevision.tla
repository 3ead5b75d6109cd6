-------------------------- MODULE MCSourceRevision --------------------------
(***************************************************************************)
(* Instances of SourceRevision for TLC.  Writers are model values;         *)
(* chunks, contents and generations are strings.                           *)
(***************************************************************************)
EXTENDS SourceRevision, TLC

CONSTANTS d1, d2, e1, e2

\* Two deliveries of different chunks, and of one chunk.
TwoChunks == d1 :> "c1" @@ d2 :> "c2"
OneChunk == d1 :> "c1" @@ d2 :> "c1"
JustC1 == d1 :> "c1"

SameBody == d1 :> "b1" @@ d2 :> "b1"
TwoBodies == d1 :> "b1" @@ d2 :> "b2"
JustB1 == d1 :> "b1"

\* An extraction that finds new evidence, and none at all.
NewEvidence == e1 :> "g2"
NoExtraction == [e \in {} |-> None]

\* A session with one chunk.
Seeded == [c \in {"c0", "c1", "c2"} |-> IF c = "c0" THEN "b1" ELSE None]
=============================================================================
