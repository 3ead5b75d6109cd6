------------------------ MODULE MCSessionMemoryBuild ------------------------
(***************************************************************************)
(* Instances of SessionMemoryBuild for TLC.  Sessions and builders are     *)
(* model values; a walk meets the sessions in the order of their numbers.  *)
(***************************************************************************)
EXTENDS SessionMemoryBuild

CONSTANTS s1, s2, b1

WalkOne == <<s1>>
WalkTwo == <<s1, s2>>

\* Bodies that one build embeds, and one that needs several builds.
SmallBodies == [s \in Sessions |-> 1]
LargeFirst == [s \in Sessions |-> IF s = s1 THEN 2 ELSE 1]
Huge == [s \in Sessions |-> 3]

\* Sessions that are delivered once, and one that is delivered twice.
DeliveredOnce == [s \in Sessions |-> 1]
FirstTwice == [s \in Sessions |-> IF s = s1 THEN 2 ELSE 1]

\* The first policy refuses the first revision of s2, the second does not.
RefusedOnce == {<<s2, 1, 1>>}
=============================================================================
