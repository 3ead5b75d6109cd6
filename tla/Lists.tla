-------------------------------- MODULE Lists --------------------------------
(***************************************************************************)
(* Python's filtered lists.                                                *)
(***************************************************************************)
EXTENDS Integers, Sequences, Functions

\* [x for x in s if x in set].
Within(s, set) ==
    LET kept[i \in 0..Len(s)] ==
            IF i = 0 THEN <<>>
            ELSE IF s[i] \in set THEN Append(kept[i - 1], s[i]) ELSE kept[i - 1]
    IN  kept[Len(s)]

\* No element twice.
Distinct(s) == \A i, j \in DOMAIN s : s[i] = s[j] => i = j
=============================================================================
