----------------------------- MODULE ListProofs -----------------------------
(***************************************************************************)
(* What filtering and joining keeps of a list, for lists of any length.    *)
(***************************************************************************)
EXTENDS Lists, Integers, Sequences, WellFoundedInduction, TLAPS

\* Induction over the numbers of a set.
LEMMA SetInduction ==
    ASSUME NEW T, 0 \in T, \A n \in Nat : n \in T => n + 1 \in T
    PROVE  \A n \in Nat : n \in T
<1> SUFFICES ASSUME ~(\A n \in Nat : n \in T)
             PROVE  FALSE
  OBVIOUS
<1> DEFINE U == {n \in Nat : n \notin T}
<1>1. U \subseteq Nat /\ U # {}
  OBVIOUS
<1>2. PICK m \in U : \A n \in U : ~(<<n, m>> \in OpToRel(<, Nat))
  <2> HIDE DEF U
  <2> QED
    BY <1>1, NatLessThanWellFounded, WFMin, ZenonT(30)
<1>3. \A n \in U : ~(n < m)
  BY <1>1, <1>2, Zenon DEF OpToRel
<1>4. m \in Nat /\ m # 0
  BY <1>1
<1>5. m - 1 \in Nat /\ m - 1 < m /\ m - 1 + 1 = m
  BY <1>4
<1>6. m - 1 \in T
  BY <1>3, <1>5
<1> QED
  BY <1>5, <1>6

\* The prefixes of a filtered list.
PrefixStep(s, set, f, i) ==
    IF i = 0 THEN <<>>
    ELSE IF s[i] \in set THEN Append(f[i - 1], s[i]) ELSE f[i - 1]

LEMMA PrefixesExist ==
    ASSUME NEW S, NEW s \in Seq(S), NEW set
    PROVE  \E f : f = [i \in 0..Len(s) |-> PrefixStep(s, set, f, i)]
<1> DEFINE Good(n) == \E f : f = [i \in 0..n |-> PrefixStep(s, set, f, i)]
           T == {n \in Nat : Good(n)}
<1>1. 0 \in T
  <2> DEFINE f == [i \in 0..0 |-> <<>>]
  <2>1. f = [i \in 0..0 |-> PrefixStep(s, set, f, i)]
    BY DEF PrefixStep
  <2> HIDE DEF f
  <2> QED
    BY <2>1
<1>2. ASSUME NEW n \in Nat, n \in T
      PROVE  n + 1 \in T
  <2>1. PICK f : f = [i \in 0..n |-> PrefixStep(s, set, f, i)]
    BY <1>2
  <2> DEFINE g == [i \in 0..(n + 1) |-> IF i = n + 1 THEN PrefixStep(s, set, f, i) ELSE f[i]]
  <2>2. \A i \in 0..n : g[i] = f[i] /\ f[i] = PrefixStep(s, set, f, i)
    <3>1. \A i \in 0..n : i \in 0..(n + 1) /\ i # n + 1
      OBVIOUS
    <3>2. \A i \in 0..n : g[i] = f[i]
      BY <3>1, Zenon
    <3>3. \A i \in 0..n : f[i] = PrefixStep(s, set, f, i)
      BY <2>1, Zenon
    <3> QED
      BY <3>2, <3>3, Zenon
  <2>3. g[n + 1] = PrefixStep(s, set, f, n + 1)
    OBVIOUS
  <2>4. g = [i \in 0..(n + 1) |-> IF i = n + 1 THEN PrefixStep(s, set, f, i) ELSE f[i]]
    BY Zenon
  <2> HIDE DEF g
  <2>5. \A i \in 0..(n + 1) : PrefixStep(s, set, g, i) = PrefixStep(s, set, f, i)
    BY <2>2 DEF PrefixStep
  <2>6. \A i \in 0..(n + 1) : PrefixStep(s, set, g, i) = IF i = n + 1 THEN PrefixStep(s, set, f, i) ELSE f[i]
    BY <2>2, <2>3, <2>5
  <2>7. g = [i \in 0..(n + 1) |-> PrefixStep(s, set, g, i)]
    BY <2>4, <2>6, Zenon
  <2> QED
    BY <2>7
<1> HIDE DEF T
<1>3. \A n \in Nat : n \in T
  BY <1>1, <1>2, SetInduction
<1>4. Len(s) \in T
  BY <1>3
<1> QED
  BY <1>4 DEF T

Filters(f, s, set, S) ==
    /\ f \in [0..Len(s) -> Seq(S)]
    /\ f[0] = <<>>
    /\ \A i \in Nat : i < Len(s) =>
          f[i + 1] = IF s[i + 1] \in set THEN Append(f[i], s[i + 1]) ELSE f[i]
    /\ Within(s, set) = f[Len(s)]

LEMMA Prefixes ==
    ASSUME NEW S, NEW s \in Seq(S), NEW set
    PROVE  \E f : Filters(f, s, set, S)
<1> DEFINE kept == CHOOSE f : f = [i \in 0..Len(s) |->
                       IF i = 0 THEN <<>>
                       ELSE IF s[i] \in set THEN Append(f[i - 1], s[i]) ELSE f[i - 1]]
<1>1. kept = [i \in 0..Len(s) |->
                IF i = 0 THEN <<>>
                ELSE IF s[i] \in set THEN Append(kept[i - 1], s[i]) ELSE kept[i - 1]]
  <2>1. \E f : f = [i \in 0..Len(s) |->
              IF i = 0 THEN <<>>
              ELSE IF s[i] \in set THEN Append(f[i - 1], s[i]) ELSE f[i - 1]]
    <3>1. PICK f : f = [i \in 0..Len(s) |-> PrefixStep(s, set, f, i)]
      BY PrefixesExist, Zenon
    <3> QED
      BY <3>1, Zenon DEF PrefixStep
  <2> QED
    BY <2>1, Zenon
<1>2. Within(s, set) = kept[Len(s)]
  BY Zenon DEF Within
<1>k. PICK k : k = kept
  BY Zenon
<1> HIDE DEF kept
<1>3. /\ k[0] = <<>>
      /\ \A i \in Nat : i < Len(s) =>
            k[i + 1] = IF s[i + 1] \in set THEN Append(k[i], s[i + 1]) ELSE k[i]
  <2>1. 0 \in 0..Len(s)
    OBVIOUS
  <2>2. \A i \in 0..Len(s) : k[i] = IF i = 0 THEN <<>>
                ELSE IF s[i] \in set THEN Append(k[i - 1], s[i]) ELSE k[i - 1]
    BY <1>1, <1>k, Zenon
  <2>3. ASSUME NEW i \in Nat, i < Len(s)
        PROVE  k[i + 1] = IF s[i + 1] \in set THEN Append(k[i], s[i + 1]) ELSE k[i]
    <3>1. PICK m \in 0..Len(s) : m = i + 1 /\ m # 0 /\ m - 1 = i
      BY <2>3
    <3> QED
      BY <2>2, <3>1, Zenon
  <2> QED
    BY <2>1, <2>2, <2>3, Zenon
<1> DEFINE T == {n \in Nat : n <= Len(s) => k[n] \in Seq(S)}
<1>4. 0 \in T
  <2>1. k[0] = <<>>
    BY <1>3, Zenon
  <2>2. <<>> \in Seq(S)
    OBVIOUS
  <2>3. k[0] \in Seq(S)
    BY <2>1, <2>2, Zenon
  <2> QED
    BY <2>3, Zenon
<1>5. ASSUME NEW n \in Nat, n \in T
      PROVE  n + 1 \in T
  <2>1. CASE n + 1 <= Len(s)
    <3>1. n < Len(s) /\ s[n + 1] \in S /\ k[n] \in Seq(S)
      BY <1>5, <2>1
    <3>2. k[n + 1] = IF s[n + 1] \in set THEN Append(k[n], s[n + 1]) ELSE k[n]
      BY <1>3, <3>1, Zenon
    <3>3. Append(k[n], s[n + 1]) \in Seq(S)
      BY <3>1
    <3>4. k[n + 1] \in Seq(S) /\ n + 1 \in Nat
      BY <3>1, <3>2, <3>3
    <3> QED
      BY <3>4, Zenon
  <2> QED
    BY <2>1
<1> HIDE DEF T
<1>6. \A n \in Nat : n \in T
  BY <1>4, <1>5, SetInduction
<1>7. \A i \in 0..Len(s) : k[i] \in Seq(S)
  BY <1>6 DEF T
<1>8. k \in [0..Len(s) -> Seq(S)]
  BY <1>1, <1>k, <1>7, Zenon
<1> QED
  BY <1>2, <1>k, <1>3, <1>8, Zenon DEF Filters
-----------------------------------------------------------------------------
LEMMA Elements ==
    ASSUME NEW S, NEW s \in Seq(S)
    PROVE  /\ Range(s) \subseteq S
           /\ \A x : x \in Range(s) <=> \E i \in 1..Len(s) : s[i] = x
  BY DEF Range

LEMMA Appended ==
    ASSUME NEW S, NEW s \in Seq(S), NEW x \in S
    PROVE  /\ Append(s, x) \in Seq(S)
           /\ Len(Append(s, x)) = Len(s) + 1
           /\ Range(Append(s, x)) = Range(s) \cup {x}
           /\ Distinct(s) /\ x \notin Range(s) => Distinct(Append(s, x))
<1> DEFINE t == Append(s, x)
<1>1. /\ t \in Seq(S) /\ Len(t) = Len(s) + 1 /\ t[Len(s) + 1] = x
      /\ \A i \in 1..Len(s) : t[i] = s[i]
      /\ DOMAIN t = 1..(Len(s) + 1) /\ DOMAIN s = 1..Len(s)
  OBVIOUS
<1> HIDE DEF t
<1>2. Range(t) = Range(s) \cup {x}
  <2>1. \A i \in 1..(Len(s) + 1) : i \in 1..Len(s) \/ i = Len(s) + 1
    OBVIOUS
  <2>2. \A i \in 1..Len(s) : i \in 1..(Len(s) + 1)
    OBVIOUS
  <2>3. Len(s) + 1 \in 1..(Len(s) + 1)
    OBVIOUS
  <2> QED
    BY <1>1, <2>1, <2>2, <2>3, Zenon DEF Range
<1>3. ASSUME Distinct(s), x \notin Range(s), NEW i \in DOMAIN t, NEW j \in DOMAIN t, t[i] = t[j]
      PROVE  i = j
  <2>1. \A n \in 1..(Len(s) + 1) : n \in 1..Len(s) \/ n = Len(s) + 1
    OBVIOUS
  <2>2. \A n \in 1..Len(s) : s[n] # x
    BY <1>1, <1>3, Zenon DEF Range
  <2> QED
    BY <1>1, <1>3, <2>1, <2>2, Zenon DEF Distinct
<1> QED
  BY <1>1, <1>2, <1>3, Zenon DEF Distinct, t

LEMMA Concatenated ==
    ASSUME NEW S, NEW s \in Seq(S), NEW t \in Seq(S)
    PROVE  /\ s \o t \in Seq(S)
           /\ Len(s \o t) = Len(s) + Len(t)
           /\ Range(s \o t) = Range(s) \cup Range(t)
           /\ Distinct(s) /\ Distinct(t) /\ Range(s) \cap Range(t) = {} => Distinct(s \o t)
<1> DEFINE u == s \o t
<1>1. /\ u \in Seq(S) /\ Len(u) = Len(s) + Len(t)
      /\ \A i \in 1..Len(s) : i \in 1..Len(u) /\ u[i] = s[i]
      /\ \A i \in 1..Len(t) : Len(s) + i \in 1..Len(u) /\ u[Len(s) + i] = t[i]
      /\ \A i \in 1..Len(u) : i \in 1..Len(s) \/ (i - Len(s) \in 1..Len(t) /\ i = Len(s) + (i - Len(s)))
      /\ DOMAIN u = 1..Len(u) /\ DOMAIN s = 1..Len(s) /\ DOMAIN t = 1..Len(t)
  <2>1. /\ u \in Seq(S) /\ Len(u) = Len(s) + Len(t) /\ Len(s) \in Nat /\ Len(t) \in Nat
        /\ DOMAIN u = 1..Len(u) /\ DOMAIN s = 1..Len(s) /\ DOMAIN t = 1..Len(t)
    OBVIOUS
  <2>2. \A i \in 1..Len(s) : u[i] = s[i]
    OBVIOUS
  <2>3. \A i \in 1..Len(t) : u[Len(s) + i] = t[i]
    OBVIOUS
  <2> HIDE DEF u
  <2>4. /\ \A i \in 1..Len(s) : i \in 1..Len(u)
        /\ \A i \in 1..Len(t) : Len(s) + i \in 1..Len(u)
        /\ \A i \in 1..Len(u) : i \in 1..Len(s) \/ (i - Len(s) \in 1..Len(t) /\ i = Len(s) + (i - Len(s)))
    BY <2>1
  <2> QED
    BY <2>1, <2>2, <2>3, <2>4, Zenon
<1> HIDE DEF u
<1>2. \A i \in 1..Len(u) : \/ i \in 1..Len(s) /\ u[i] = s[i]
                           \/ \E j \in 1..Len(t) : i = Len(s) + j /\ u[i] = t[j]
  BY <1>1, Zenon
<1>3. Range(u) = Range(s) \cup Range(t)
  <2>1. ASSUME NEW x \in Range(u)
        PROVE  x \in Range(s) \cup Range(t)
    <3>1. PICK i \in 1..Len(u) : u[i] = x
      BY <1>1, <2>1, Zenon DEF Range
    <3> QED
      BY <1>1, <1>2, <3>1, Zenon DEF Range
  <2>2. Range(s) \subseteq Range(u)
    BY <1>1, Zenon DEF Range
  <2>3. ASSUME NEW i \in 1..Len(t)
        PROVE  t[i] \in Range(u)
    BY <1>1, Zenon DEF Range
  <2>4. Range(t) \subseteq Range(u)
    BY <1>1, <2>3, Zenon DEF Range
  <2> QED
    BY <2>1, <2>2, <2>4, Zenon
<1>4. ASSUME Distinct(s), Distinct(t), Range(s) \cap Range(t) = {},
             NEW i \in DOMAIN u, NEW j \in DOMAIN u, u[i] = u[j]
      PROVE  i = j
  <2>1. \A m \in 1..Len(s), n \in 1..Len(t) : s[m] # t[n]
    BY <1>1, <1>4, Zenon DEF Range
  <2>2. /\ \A m, n \in 1..Len(s) : s[m] = s[n] => m = n
        /\ \A m, n \in 1..Len(t) : t[m] = t[n] => m = n
    BY <1>1, <1>4, Zenon DEF Distinct
  <2>3. i \in 1..Len(u) /\ j \in 1..Len(u)
    BY <1>1, <1>4, Zenon
  <2>4. CASE i \in 1..Len(s) /\ u[i] = s[i]
    <3>1. j \in 1..Len(s) /\ u[j] = s[j]
      BY <1>2, <1>4, <2>1, <2>3, <2>4, Zenon
    <3> QED
      BY <1>4, <2>2, <2>4, <3>1, Zenon
  <2>5. ASSUME NEW m \in 1..Len(t), i = Len(s) + m, u[i] = t[m]
        PROVE  i = j
    <3>1. PICK n \in 1..Len(t) : j = Len(s) + n /\ u[j] = t[n]
      BY <1>2, <1>4, <2>1, <2>3, <2>5, Zenon
    <3>2. m = n
      BY <1>4, <2>2, <2>5, <3>1, Zenon
    <3> QED
      BY <2>5, <3>1, <3>2, Zenon
  <2> QED
    BY <1>2, <2>3, <2>4, <2>5, Zenon
<1> QED
  BY <1>1, <1>3, <1>4, Zenon DEF Distinct, u

\* A filter keeps the elements in the set, in order and without repeating any.
LEMMA WithinKeeps ==
    ASSUME NEW S, NEW s \in Seq(S), NEW set
    PROVE  /\ Within(s, set) \in Seq(S)
           /\ Len(Within(s, set)) <= Len(s)
           /\ Range(Within(s, set)) = Range(s) \cap set
           /\ Distinct(s) => Distinct(Within(s, set))
<1>0. PICK f : Filters(f, s, set, S)
  BY Prefixes, Zenon
<1>1. /\ f[0] = <<>>
      /\ \A i \in Nat : i < Len(s) =>
            f[i + 1] = IF s[i + 1] \in set THEN Append(f[i], s[i + 1]) ELSE f[i]
      /\ Within(s, set) = f[Len(s)]
  BY <1>0, Zenon DEF Filters
<1> DEFINE Seen(n) == {s[i] : i \in 1..n}
           Good(n) == /\ f[n] \in Seq(S)
                      /\ Len(f[n]) <= n
                      /\ Range(f[n]) = Seen(n) \cap set
                      /\ Distinct(s) => Distinct(f[n])
           T == {n \in Nat : n <= Len(s) => Good(n)}
<1>2. 0 \in T
  <2>1. <<>> \in Seq(S) /\ Len(<<>>) <= 0 /\ Range(<<>>) = {} /\ Distinct(<<>>)
    BY DEF Range, Distinct
  <2>2. Seen(0) = {}
    OBVIOUS
  <2>3. Good(0)
    BY <1>1, <2>1, <2>2, Zenon
  <2> QED
    BY <2>3, Zenon
<1>3. ASSUME NEW n \in Nat, n \in T, n + 1 <= Len(s)
      PROVE  Good(n + 1)
  <2>1. /\ n < Len(s) /\ n <= Len(s) /\ s[n + 1] \in S /\ n + 1 \in Nat
        /\ n <= n + 1 /\ \A m \in Nat : m <= n => m <= n + 1 /\ m + 1 <= n + 1
    BY <1>3
  <2>2. Good(n)
    BY <1>3, <2>1, Zenon
  <2>3. Seen(n + 1) = Seen(n) \cup {s[n + 1]}
    <3>1. \A i \in 1..(n + 1) : i \in 1..n \/ i = n + 1
      OBVIOUS
    <3>2. (\A i \in 1..n : i \in 1..(n + 1)) /\ n + 1 \in 1..(n + 1)
      OBVIOUS
    <3> QED
      BY <3>1, <3>2, Zenon
  <2>4. Distinct(s) => s[n + 1] \notin Seen(n)
    <3>1. \A i \in 1..n : i \in DOMAIN s /\ n + 1 \in DOMAIN s /\ i # n + 1
      BY <2>1
    <3> QED
      BY <3>1, Zenon DEF Distinct
  <2>5. CASE s[n + 1] \in set
    <3>1. f[n + 1] = Append(f[n], s[n + 1])
      BY <1>1, <2>1, <2>5, Zenon
    <3>2. Len(f[n]) \in Nat
      BY <2>2
    <3> HIDE DEF Seen
    <3>3. /\ f[n + 1] \in Seq(S) /\ Len(f[n + 1]) = Len(f[n]) + 1
          /\ Range(f[n + 1]) = Range(f[n]) \cup {s[n + 1]}
          /\ Distinct(f[n]) /\ s[n + 1] \notin Range(f[n]) => Distinct(f[n + 1])
      BY <2>1, <2>2, <3>1, Appended
    <3> QED
      BY <2>1, <2>2, <2>3, <2>4, <2>5, <3>2, <3>3, Zenon
  <2>6. CASE s[n + 1] \notin set
    <3>1. f[n + 1] = f[n]
      BY <1>1, <2>1, <2>6, Zenon
    <3>2. Len(f[n]) <= n + 1
      BY <2>2
    <3> HIDE DEF Seen
    <3> QED
      BY <2>2, <2>3, <2>6, <3>1, <3>2, Zenon
  <2> QED
    BY <2>5, <2>6, Zenon
<1>4. \A n \in Nat : n \in T => n + 1 \in T
  <2> HIDE DEF Good
  <2> QED
    BY <1>3
<1>5. Len(s) \in Nat /\ Len(s) <= Len(s) /\ Seen(Len(s)) = Range(s)
  BY DEF Range
<1> HIDE DEF Good
<1>6. Len(s) \in T
  <2> HIDE DEF T
  <2> QED
    BY <1>2, <1>4, <1>5, SetInduction, Zenon
<1>7. Good(Len(s))
  BY <1>5, <1>6, Zenon
<1> QED
  BY <1>1, <1>5, <1>7, Zenon DEF Good

\* A slice of a list.
LEMMA Sliced ==
    ASSUME NEW S, NEW s \in Seq(S), NEW m \in 1..(Len(s) + 1), NEW n \in 0..Len(s)
    PROVE  /\ SubSeq(s, m, n) \in Seq(S)
           /\ Range(SubSeq(s, m, n)) = {s[i] : i \in m..n}
           /\ Distinct(s) => Distinct(SubSeq(s, m, n))
<1> DEFINE t == SubSeq(s, m, n)
<1>0. m \in Int /\ n \in Int /\ Len(s) \in Nat /\ DOMAIN s = 1..Len(s) /\ \A i \in m..n : i \in 1..Len(s) /\ s[i] \in S
  OBVIOUS
<1>1. /\ t \in Seq(S) /\ Len(t) = (IF m <= n THEN n - m + 1 ELSE 0)
      /\ \A i \in 1..Len(t) : t[i] = s[m + i - 1]
      /\ DOMAIN t = 1..Len(t)
  OBVIOUS
<1> HIDE DEF t
<1>2. Len(t) = n - m + 1 \/ (m > n /\ Len(t) = 0)
  BY <1>0, <1>1
<1>3. /\ \A i \in 1..Len(t) : m + i - 1 \in m..n
      /\ \A i \in m..n : i - m + 1 \in 1..Len(t) /\ m + (i - m + 1) - 1 = i
  BY <1>0, <1>2
<1>4. Range(t) = {s[i] : i \in m..n}
  <2>1. \A i \in m..n : s[i] = t[i - m + 1]
    BY <1>1, <1>3
  <2>2. ASSUME NEW x \in Range(t)
        PROVE  x \in {s[i] : i \in m..n}
    <3>1. PICK i \in 1..Len(t) : t[i] = x
      BY <1>1, <2>2, Zenon DEF Range
    <3> QED
      BY <1>1, <1>3, <3>1, Zenon
  <2>3. ASSUME NEW i \in m..n
        PROVE  s[i] \in Range(t)
    <3>1. i - m + 1 \in DOMAIN t /\ t[i - m + 1] = s[i]
      BY <1>1, <1>3, <2>1, <2>3, Zenon
    <3> QED
      BY <3>1, Zenon DEF Range
  <2> QED
    BY <2>2, <2>3, Zenon
<1>5. ASSUME Distinct(s), NEW i \in DOMAIN t, NEW j \in DOMAIN t, t[i] = t[j]
      PROVE  i = j
  <2>1. m + i - 1 = m + j - 1
    BY <1>0, <1>1, <1>3, <1>5, ZenonT(30) DEF Distinct
  <2> QED
    BY <1>0, <1>1, <1>5, <2>1
<1> QED
  BY <1>1, <1>4, <1>5, Zenon DEF Distinct, t

\* A list is its length and its elements.
LEMMA SameList ==
    ASSUME NEW S, NEW s \in Seq(S), NEW t \in Seq(S), Len(s) = Len(t),
           \A i \in 1..Len(s) : s[i] = t[i]
    PROVE  s = t
<1>1. /\ DOMAIN s = 1..Len(s) /\ DOMAIN t = 1..Len(s)
      /\ s = [i \in DOMAIN s |-> s[i]] /\ t = [i \in DOMAIN t |-> t[i]]
    OBVIOUS
<1> QED
    BY <1>1, Zenon

\* A list is the part up to a place and the part after it.
LEMMA SplitAt ==
    ASSUME NEW S, NEW s \in Seq(S), NEW n \in 0..Len(s)
    PROVE  /\ SubSeq(s, 1, n) \in Seq(S)
           /\ SubSeq(s, n + 1, Len(s)) \in Seq(S)
           /\ Len(SubSeq(s, n + 1, Len(s))) = Len(s) - n
           /\ s = SubSeq(s, 1, n) \o SubSeq(s, n + 1, Len(s))
<1> DEFINE t == SubSeq(s, 1, n)
           u == SubSeq(s, n + 1, Len(s))
<1>1. n \in Nat /\ Len(s) \in Nat /\ n <= Len(s)
    OBVIOUS
<1>2. /\ t \in Seq(S) /\ Len(t) = n
      /\ \A i \in 1..n : t[i] = s[i]
    BY <1>1
<1>3. /\ u \in Seq(S) /\ Len(u) = Len(s) - n
      /\ \A i \in 1..(Len(s) - n) : u[i] = s[n + i]
    BY <1>1
<1> HIDE DEF t, u
<1>4. t \o u \in Seq(S) /\ Len(t \o u) = Len(s)
    BY <1>1, <1>2, <1>3
<1>5. ASSUME NEW i \in 1..Len(s)
      PROVE  (t \o u)[i] = s[i]
  <2>1. CASE i <= n
    <3>1. i \in 1..Len(t)
      BY <1>1, <1>2, <2>1
    <3>2. (t \o u)[i] = t[i]
      BY <1>2, <1>3, <3>1
    <3> QED
      BY <1>2, <3>1, <3>2, Zenon
  <2>2. CASE i > n
    <3>1. i - n \in 1..(Len(s) - n) /\ i = n + (i - n)
      BY <1>1, <2>2
    <3>2. (t \o u)[i] = u[i - n]
      BY <1>1, <1>2, <1>3, <2>2
    <3> QED
      BY <1>3, <3>1, <3>2
  <2>3. i \in Int /\ n \in Int
    BY <1>1
  <2>4. i <= n \/ i > n
    BY <2>3
  <2> QED
    BY <2>1, <2>2, <2>4, Zenon
<1>6. s = t \o u
    BY <1>4, <1>5, SameList
<1> QED
    BY <1>2, <1>3, <1>6, Zenon DEF t, u

=============================================================================
