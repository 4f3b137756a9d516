--------------------------- MODULE SequenceLemmas ---------------------------
(***************************************************************************)
(* The elements of a sequence, and how appending to it and taking its head *)
(* change them.                                                            *)
(***************************************************************************)
EXTENDS SequencesExt, SequenceTheorems, TLAPS

LEMMA ToSetEmpty == ToSet(<<>>) = {}
  BY DEF ToSet

LEMMA ToSetOne == ASSUME NEW m PROVE ToSet(<<m>>) = {m}
<1>1. DOMAIN <<m>> = {1} /\ <<m>>[1] = m
  OBVIOUS
<1> QED BY <1>1 DEF ToSet

LEMMA ToSetAppend ==
  ASSUME NEW S, NEW q \in Seq(S), NEW m \in S
  PROVE  ToSet(Append(q, m)) = ToSet(q) \cup {m}
<1> DEFINE r == Append(q, m)
<1>1. /\ r \in Seq(S) /\ Len(r) = Len(q) + 1
      /\ \A i \in 1..Len(q) : r[i] = q[i]
      /\ r[Len(q) + 1] = m
  BY AppendProperties
<1>2. DOMAIN q = 1..Len(q) /\ DOMAIN r = 1..Len(q) + 1 /\ Len(q) \in Nat
  BY <1>1, LenProperties
<1> HIDE DEF r
<1>3. 1..Len(q) + 1 = (1..Len(q)) \cup {Len(q) + 1}
  BY <1>2
<1>4. \A x \in ToSet(r) : x \in ToSet(q) \cup {m}
  BY <1>1, <1>2, <1>3 DEF ToSet
<1>5. \A x \in ToSet(q) : x \in ToSet(r)
  BY <1>1, <1>2, <1>3 DEF ToSet
<1>6. m \in ToSet(r)
  BY <1>1, <1>2, <1>3 DEF ToSet
<1> QED
  BY <1>4, <1>5, <1>6 DEF r

LEMMA ToSetTail ==
  ASSUME NEW S, NEW q \in Seq(S), q # <<>>
  PROVE  /\ Head(q) \in S /\ Tail(q) \in Seq(S)
         /\ ToSet(q) = {Head(q)} \cup ToSet(Tail(q))
<1> DEFINE r == Tail(q)
<1>1. /\ Head(q) \in S /\ r \in Seq(S) /\ Len(r) = Len(q) - 1
      /\ \A i \in 1..Len(r) : r[i] = q[i + 1]
      /\ Head(q) = q[1]
  BY HeadTailProperties
<1>2. DOMAIN q = 1..Len(q) /\ DOMAIN r = 1..Len(q) - 1 /\ Len(q) \in Nat \ {0}
  BY <1>1, LenProperties, EmptySeq
<1> HIDE DEF r
<1>3. \A i \in 1..Len(q) : i = 1 \/ i - 1 \in 1..Len(r)
  BY <1>1, <1>2
<1>4. ASSUME NEW x \in ToSet(q) PROVE x \in {Head(q)} \cup ToSet(r)
  <2>1. PICK i \in 1..Len(q) : x = q[i]
    BY <1>2 DEF ToSet
  <2>2. CASE i = 1
    BY <2>1, <2>2, <1>1
  <2>3. CASE i - 1 \in 1..Len(r)
    <3>1. r[i - 1] = x
      BY <2>1, <2>3, <1>1, <1>2
    <3> QED BY <3>1, <2>3, <1>1, <1>2 DEF ToSet
  <2> QED BY <2>2, <2>3, <1>3
<1>5. ASSUME NEW x \in ToSet(r) PROVE x \in ToSet(q)
  <2>1. PICK i \in 1..Len(r) : x = r[i]
    BY <1>1, <1>2 DEF ToSet
  <2>2. i + 1 \in 1..Len(q)
    BY <1>1, <1>2
  <2> QED BY <2>1, <2>2, <1>1, <1>2 DEF ToSet
<1>6. Head(q) \in ToSet(q)
  BY <1>1, <1>2 DEF ToSet
<1> QED
  BY <1>1, <1>4, <1>5, <1>6 DEF r

LEMMA Appended ==
  ASSUME NEW S, NEW q \in Seq(S), NEW m \in S
  PROVE  /\ Append(q, m) \in Seq(S) /\ Append(q, m) # <<>>
         /\ Len(q) \in Nat /\ Len(Append(q, m)) = Len(q) + 1
         /\ \A i \in 1..Len(q) : Append(q, m)[i] = q[i]
         /\ Append(q, m)[Len(q) + 1] = m
  BY AppendProperties, LenProperties

LEMMA Shortened ==
  ASSUME NEW S, NEW q \in Seq(S), q # <<>>
  PROVE  /\ Head(q) \in S /\ Head(q) = q[1]
         /\ Tail(q) \in Seq(S)
         /\ Len(q) \in Nat \ {0} /\ Len(Tail(q)) = Len(q) - 1
         /\ \A i \in 1..Len(Tail(q)) : Tail(q)[i] = q[i + 1]
         /\ Tail(q) = <<>> <=> Len(q) = 1
<1>1. /\ Head(q) \in S /\ Tail(q) \in Seq(S)
      /\ Len(Tail(q)) = Len(q) - 1
      /\ \A i \in 1..Len(Tail(q)) : Tail(q)[i] = q[i + 1]
      /\ Len(q) \in Nat \ {0}
  BY HeadTailProperties, EmptySeq
<1>2. Head(q) = q[1]
  OBVIOUS
<1>3. Tail(q) = <<>> <=> Len(q) = 1
  <2>1. Tail(q) # <<>> => Len(Tail(q)) \in Nat \ {0}
    BY <1>1, EmptySeq
  <2>2. Tail(q) = <<>> => Len(Tail(q)) = 0
    BY EmptySeq
  <2> QED BY <1>1, <2>1, <2>2
<1> QED
  BY <1>1, <1>2, <1>3

LEMMA InToSet ==
  ASSUME NEW S, NEW q \in Seq(S)
  PROVE  \A x : x \in ToSet(q) <=> \E i \in 1..Len(q) : q[i] = x
<1>1. DOMAIN q = 1..Len(q)
  BY LenProperties
<1> QED
  BY <1>1 DEF ToSet

LEMMA ToSetConcat ==
  ASSUME NEW S, NEW q \in Seq(S), NEW r \in Seq(S)
  PROVE  /\ q \o r \in Seq(S) /\ Len(q \o r) = Len(q) + Len(r)
         /\ ToSet(q \o r) = ToSet(q) \cup ToSet(r)
<1> DEFINE s == q \o r  m == Len(q)  n == Len(r)
<1>1. /\ s \in Seq(S) /\ m \in Nat /\ n \in Nat /\ Len(s) = m + n
      /\ \A i \in 1..m : s[i] = q[i]
      /\ \A i \in 1..n : s[m + i] = r[i]
  OBVIOUS
<1> HIDE DEF s, m, n
<1>2. /\ \A x : x \in ToSet(s) <=> \E i \in 1..m + n : s[i] = x
      /\ \A x : x \in ToSet(q) <=> \E i \in 1..m : q[i] = x
      /\ \A x : x \in ToSet(r) <=> \E i \in 1..n : r[i] = x
  <2>1. \A x : x \in ToSet(s) <=> \E i \in 1..m + n : s[i] = x
    BY <1>1, InToSet
  <2>2. \A x : x \in ToSet(q) <=> \E i \in 1..m : q[i] = x
    BY InToSet DEF m
  <2>3. \A x : x \in ToSet(r) <=> \E i \in 1..n : r[i] = x
    BY InToSet DEF n
  <2> QED BY <2>1, <2>2, <2>3
<1>3. ASSUME NEW x \in ToSet(s) PROVE x \in ToSet(q) \cup ToSet(r)
  <2>1. PICK i \in 1..m + n : s[i] = x
    BY <1>2
  <2>2. CASE i \in 1..m
    BY <2>1, <2>2, <1>1, <1>2
  <2>3. CASE i \notin 1..m
    <3>1. i - m \in 1..n /\ m + (i - m) = i
      BY <2>3, <1>1
    <3>2. r[i - m] = s[m + (i - m)]
      BY <3>1, <1>1
    <3> QED BY <2>1, <3>1, <3>2, <1>2
  <2> QED BY <2>2, <2>3
<1>4. ASSUME NEW x \in ToSet(q) PROVE x \in ToSet(s)
  <2>1. PICK i \in 1..m : q[i] = x
    BY <1>2
  <2>2. i \in 1..m + n /\ s[i] = x
    BY <2>1, <1>1
  <2> QED BY <2>2, <1>2
<1>5. ASSUME NEW x \in ToSet(r) PROVE x \in ToSet(s)
  <2>1. PICK i \in 1..n : r[i] = x
    BY <1>2
  <2>2. m + i \in 1..m + n /\ s[m + i] = x
    BY <2>1, <1>1
  <2> QED BY <2>2, <1>2
<1> QED
  BY <1>1, <1>3, <1>4, <1>5 DEF s, m, n

\* A sequence in which no element occurs twice.
LEMMA InjectiveEmpty == IsInjective(<<>>)
  BY DEF IsInjective

LEMMA InjectiveAppend ==
  ASSUME NEW S, NEW q \in Seq(S), NEW m \in S, IsInjective(q), m \notin ToSet(q)
  PROVE  IsInjective(Append(q, m))
<1> DEFINE r == Append(q, m)  n == Len(q)
<1>1. /\ n \in Nat /\ DOMAIN q = 1..n /\ DOMAIN r = 1..n + 1
      /\ \A i \in 1..n : r[i] = q[i]
      /\ r[n + 1] = m
  BY Appended, LenProperties
<1>2. \A i \in 1..n : q[i] # m
  BY <1>1 DEF ToSet
<1> HIDE DEF r, n
<1>3. ASSUME NEW i \in 1..n + 1, NEW j \in 1..n + 1, r[i] = r[j] PROVE i = j
  <2>1. CASE i \in 1..n /\ j \in 1..n
    BY <1>1, <1>3, <2>1 DEF IsInjective
  <2>2. CASE i = n + 1
    BY <1>1, <1>2, <1>3, <2>2
  <2>3. CASE j = n + 1
    BY <1>1, <1>2, <1>3, <2>3
  <2> QED BY <1>1, <2>1, <2>2, <2>3
<1> QED
  BY <1>1, <1>3 DEF IsInjective, r

LEMMA InjectiveTail ==
  ASSUME NEW S, NEW q \in Seq(S), q # <<>>, IsInjective(q)
  PROVE  IsInjective(Tail(q)) /\ Head(q) \notin ToSet(Tail(q))
<1> DEFINE r == Tail(q)  n == Len(q)
<1>1. /\ n \in Nat \ {0} /\ DOMAIN q = 1..n /\ DOMAIN r = 1..n - 1
      /\ \A i \in 1..n - 1 : r[i] = q[i + 1]
      /\ Head(q) = q[1]
  BY Shortened, LenProperties
<1> HIDE DEF r, n
<1>2. ASSUME NEW i \in 1..n - 1, NEW j \in 1..n - 1, r[i] = r[j] PROVE i = j
  <2>1. i + 1 \in 1..n /\ j + 1 \in 1..n /\ q[i + 1] = q[j + 1]
    BY <1>1, <1>2
  <2>2. i + 1 = j + 1
    BY <1>1, <2>1 DEF IsInjective
  <2> QED BY <1>1, <2>2
<1>3. IsInjective(r)
  BY <1>1, <1>2 DEF IsInjective
<1>4. ASSUME NEW i \in 1..n - 1 PROVE r[i] # q[1]
  <2>1. i + 1 \in 1..n /\ 1 \in 1..n /\ i + 1 # 1
    BY <1>1
  <2>2. q[i + 1] # q[1]
    BY <1>1, <2>1 DEF IsInjective
  <2> QED BY <1>1, <2>2
<1>5. Head(q) \notin ToSet(r)
  BY <1>1, <1>4 DEF ToSet
<1> QED
  BY <1>3, <1>5 DEF r

LEMMA InjectiveConcat ==
  ASSUME NEW S, NEW q \in Seq(S), NEW r \in Seq(S),
         IsInjective(q), IsInjective(r), ToSet(q) \cap ToSet(r) = {}
  PROVE  IsInjective(q \o r)
<1> DEFINE s == q \o r  m == Len(q)  n == Len(r)
<1>1. /\ m \in Nat /\ n \in Nat /\ DOMAIN s = 1..m + n
      /\ DOMAIN q = 1..m /\ DOMAIN r = 1..n
      /\ \A i \in 1..m : s[i] = q[i]
      /\ \A i \in m + 1..m + n : s[i] = r[i - m]
  BY ConcatProperties, LenProperties
<1>2. \A i \in 1..m, j \in 1..n : q[i] # r[j]
  BY <1>1 DEF ToSet
<1>3. /\ \A i, j \in 1..m : q[i] = q[j] => i = j
      /\ \A i, j \in 1..n : r[i] = r[j] => i = j
  BY <1>1 DEF IsInjective
<1> HIDE DEF s, m, n
<1>4. ASSUME NEW i \in 1..m + n, NEW j \in 1..m + n, s[i] = s[j] PROVE i = j
  <2>1. CASE i <= m /\ j <= m
    BY <1>1, <1>3, <1>4, <2>1
  <2>2. CASE i > m /\ j > m
    <3>1. i - m \in 1..n /\ j - m \in 1..n /\ i \in m + 1..m + n /\ j \in m + 1..m + n
      BY <1>1, <2>2
    <3>2. i - m = j - m
      BY <1>1, <1>3, <1>4, <3>1
    <3> QED BY <1>1, <3>2
  <2>3. CASE i <= m /\ j > m
    <3>1. i \in 1..m /\ j - m \in 1..n /\ j \in m + 1..m + n
      BY <1>1, <2>3
    <3> QED BY <1>1, <1>2, <1>4, <3>1
  <2>4. CASE i > m /\ j <= m
    <3>1. j \in 1..m /\ i - m \in 1..n /\ i \in m + 1..m + n
      BY <1>1, <2>4
    <3> QED BY <1>1, <1>2, <1>4, <3>1
  <2> QED BY <1>1, <2>1, <2>2, <2>3, <2>4
<1>5. IsInjective(s)
  BY <1>1, <1>4 DEF IsInjective
<1> QED
  BY <1>5 DEF s

=============================================================================
