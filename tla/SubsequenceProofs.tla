------------------------- MODULE SubsequenceProofs -------------------------
(***************************************************************************)
(* What stays of a Map is what is meant to stay, for any map.              *)
(***************************************************************************)
EXTENDS Subsequence, WellFoundedInduction, SequenceTheorems, TLAPS

\* A set of natural numbers has a least one.
LEMMA LeastOne ==
    ASSUME NEW F, F \subseteq Nat, F # {}
    PROVE  \E n \in F : \A k \in F : n <= k
<1> DEFINE R == {ss \in Nat \X Nat : ss[1] < ss[2]}
<1>1. \A x, y \in Nat : x < y => <<x, y>> \in R
  OBVIOUS
<1>2. IsWellFoundedOn(R, Nat)
  BY NatLessThanWellFounded DEF OpToRel
<1> HIDE DEF R
<1>3. PICK n \in F : \A k \in F : <<k, n>> \notin R
  BY <1>2, WFMin
<1>4. \A k \in F : n <= k
  <2> SUFFICES ASSUME NEW k \in F PROVE n <= k
    OBVIOUS
  <2>1. n \in Nat /\ k \in Nat /\ ~(k < n)
    BY <1>1, <1>3
  <2> QED
    BY <2>1
<1> QED
  BY <1>4

\* What Keeping computes from, up to i.
KeptUpTo(f, s, Stay, i) ==
    IF i = 0 THEN <<>> ELSE IF s[i] \in Stay THEN Append(f[i - 1], s[i]) ELSE f[i - 1]

IsKept(f, s, Stay) == f = [i \in 0..Len(s) |-> KeptUpTo(f, s, Stay, i)]

LEMMA KeptExists ==
    ASSUME NEW s, Len(s) \in Nat, NEW Stay
    PROVE  \E f : IsKept(f, s, Stay)
<1> DEFINE Upto(n, f) == \A i \in 0..Len(s) : i <= n => f[i] = KeptUpTo(f, s, Stay, i)
           F == {n \in Nat : ~ \E f : Upto(n, f)}
<1>1. F = {}
  <2> SUFFICES ASSUME F # {} PROVE FALSE
    OBVIOUS
  <2>1. PICK n \in F : \A k \in F : n <= k
    <3>1. F \subseteq Nat
      OBVIOUS
    <3> HIDE DEF F
    <3> QED
      BY <3>1, LeastOne
  <2>2. CASE n = 0
    <3> DEFINE f == [i \in {0} |-> <<>>]
    <3>1. \A i \in 0..Len(s) : i <= 0 => i = 0
      OBVIOUS
    <3>2. f[0] = <<>> /\ KeptUpTo(f, s, Stay, 0) = <<>>
      BY DEF KeptUpTo
    <3> HIDE DEF f
    <3>3. Upto(0, f)
      BY <3>1, <3>2
    <3> QED
      BY <2>1, <2>2, <3>3
  <2>3. CASE n # 0
    <3>1. n \in Nat /\ n - 1 \in Nat /\ n - 1 \notin F
      <4>1. n \in Nat
        OBVIOUS
      <4> HIDE DEF F
      <4> QED
        BY <2>1, <2>3, <4>1
    <3>2. PICK f : Upto(n - 1, f)
      BY <3>1
    <3> DEFINE g == [i \in 0..Len(s) |-> KeptUpTo(f, s, Stay, i)]
    <3>3. ASSUME NEW i \in 0..Len(s), i <= n
          PROVE  g[i] = KeptUpTo(g, s, Stay, i)
      <4>1. CASE i = 0
        BY <4>1 DEF KeptUpTo
      <4>2. CASE i # 0
        <5>1. i - 1 \in 0..Len(s) /\ i - 1 <= n - 1
          BY <3>1, <3>3, <4>2
        <5>2. g[i - 1] = f[i - 1]
          BY <3>2, <5>1
        <5> QED
          BY <4>2, <5>2 DEF KeptUpTo
      <4> QED
        BY <4>1, <4>2
    <3>4. Upto(n, g)
      BY <3>3
    <3> QED
      BY <2>1, <3>4
  <2> QED
    BY <2>2, <2>3
<1>2. PICK f : Upto(Len(s), f)
  BY <1>1
<1> DEFINE g == [i \in 0..Len(s) |-> f[i]]
<1>3. \A i \in 0..Len(s) : f[i] = KeptUpTo(f, s, Stay, i)
  BY <1>2
<1>4. \A i \in 0..Len(s) : KeptUpTo(g, s, Stay, i) = KeptUpTo(f, s, Stay, i)
  BY DEF KeptUpTo
<1>5. IsKept(g, s, Stay)
  BY <1>3, <1>4 DEF IsKept
<1> QED
  BY <1>5

LEMMA KeepingIsKept ==
    ASSUME NEW s, Len(s) \in Nat, NEW Stay
    PROVE  \E f : IsKept(f, s, Stay) /\ Keeping(s, Stay) = f[Len(s)]
<1> DEFINE h == CHOOSE f : f = [i \in 0..Len(s) |->
                    IF i = 0 THEN <<>> ELSE IF s[i] \in Stay THEN Append(f[i - 1], s[i]) ELSE f[i - 1]]
<1>1. Keeping(s, Stay) = h[Len(s)]
  BY DEF Keeping
<1>2. \E f : f = [i \in 0..Len(s) |->
                    IF i = 0 THEN <<>> ELSE IF s[i] \in Stay THEN Append(f[i - 1], s[i]) ELSE f[i - 1]]
  BY KeptExists DEF IsKept, KeptUpTo
<1>3. IsKept(h, s, Stay)
  BY <1>2 DEF IsKept, KeptUpTo
<1> HIDE DEF h
<1> QED
  BY <1>1, <1>3

LEMMA RangeOfAppend ==
    ASSUME NEW S, NEW r \in Seq(S), NEW e \in S
    PROVE  Append(r, e) \in Seq(S) /\ Range(Append(r, e)) = Range(r) \cup {e}
<1>1. /\ Append(r, e) \in Seq(S) /\ Len(Append(r, e)) = Len(r) + 1 /\ Len(r) \in Nat
      /\ \A k \in 1..Len(r) + 1 : Append(r, e)[k] = IF k = Len(r) + 1 THEN e ELSE r[k]
  OBVIOUS
<1>2. DOMAIN Append(r, e) = 1..Len(r) + 1 /\ DOMAIN r = 1..Len(r)
  OBVIOUS
<1>3. \A x : (\E k \in 1..Len(r) + 1 : Append(r, e)[k] = x) <=> x = e \/ \E k \in 1..Len(r) : r[k] = x
  <2>1. \A k \in 1..Len(r) : k \in 1..Len(r) + 1 /\ k # Len(r) + 1
    BY <1>1
  <2>2. Len(r) + 1 \in 1..Len(r) + 1 /\ \A k \in 1..Len(r) + 1 : k = Len(r) + 1 \/ k \in 1..Len(r)
    BY <1>1
  <2> QED
    BY <1>1, <2>1, <2>2
<1> QED
  BY <1>1, <1>2, <1>3 DEF Range

\* What stays of the beginning of a map.
KeptOf(r, S, s, Stay, i) ==
    r \in Seq(S) /\ Range(r) = {s[k] : k \in 1..i} \cap Stay

LEMMA KeptSoFar ==
    ASSUME NEW S, NEW s \in Seq(S), NEW Stay, NEW f, IsKept(f, s, Stay)
    PROVE  KeptOf(f[Len(s)], S, s, Stay, Len(s))
<1> DEFINE F == {i \in 0..Len(s) : ~KeptOf(f[i], S, s, Stay, i)}
<1>1. Len(s) \in Nat /\ DOMAIN s = 1..Len(s)
  OBVIOUS
<1>2. SUFFICES ASSUME F # {} PROVE FALSE
  BY <1>1
<1>3. PICK i \in F : \A k \in F : i <= k
  <2>1. F \subseteq Nat
    BY <1>1
  <2> HIDE DEF F
  <2> QED
    BY <1>2, <2>1, LeastOne
<1>4. f[i] = KeptUpTo(f, s, Stay, i) /\ i \in 0..Len(s)
  BY <1>3 DEF IsKept
<1>5. i # 0
  <2> SUFFICES ASSUME i = 0 PROVE FALSE
    OBVIOUS
  <2>1. f[i] = <<>>
    BY <1>4 DEF KeptUpTo
  <2>2. KeptOf(f[i], S, s, Stay, i)
    BY <2>1 DEF KeptOf, Range
  <2> QED
    BY <1>3, <2>2
<1>6. i - 1 \in 0..Len(s) /\ i \in 1..Len(s)
  BY <1>1, <1>4, <1>5
<1>7. KeptOf(f[i - 1], S, s, Stay, i - 1)
  BY <1>3, <1>6
<1>8. {s[k] : k \in 1..i} = {s[k] : k \in 1..i - 1} \cup {s[i]}
  BY <1>6
<1>9. CASE s[i] \in Stay
  <2>1. f[i] = Append(f[i - 1], s[i]) /\ s[i] \in S
    BY <1>4, <1>5, <1>6, <1>9 DEF KeptUpTo
  <2> DEFINE r == f[i - 1]
  <2>2. r \in Seq(S) /\ Range(r) = {s[k] : k \in 1..i - 1} \cap Stay
    BY <1>7 DEF KeptOf
  <2> HIDE DEF r
  <2>3. f[i] \in Seq(S) /\ Range(f[i]) = Range(r) \cup {s[i]}
    BY <2>1, <2>2, RangeOfAppend DEF r
  <2> QED
    BY <1>3, <1>8, <1>9, <2>2, <2>3 DEF KeptOf
<1>10. CASE s[i] \notin Stay
  <2>1. f[i] = f[i - 1]
    BY <1>4, <1>5, <1>10 DEF KeptUpTo
  <2> QED
    BY <1>3, <1>7, <1>8, <1>10, <2>1 DEF KeptOf
<1> QED
  BY <1>9, <1>10

\* Deleting from a map leaves the entries that stay, and no others.
LEMMA KeepingMembers ==
    ASSUME NEW S, NEW s \in Seq(S), NEW Stay
    PROVE  Keeping(s, Stay) \in Seq(S) /\ Range(Keeping(s, Stay)) = Range(s) \cap Stay
<1>1. Len(s) \in Nat /\ DOMAIN s = 1..Len(s)
  OBVIOUS
<1>2. PICK f : IsKept(f, s, Stay) /\ Keeping(s, Stay) = f[Len(s)]
  BY <1>1, KeepingIsKept
<1>3. KeptOf(Keeping(s, Stay), S, s, Stay, Len(s))
  BY <1>2, KeptSoFar
<1>4. Range(s) = {s[k] : k \in 1..Len(s)}
  BY <1>1 DEF Range
<1> QED
  BY <1>3, <1>4 DEF KeptOf

\* One element is taken out.
LEMMA TakenOut ==
    ASSUME NEW S, NEW t \in Seq(S), NEW i \in 1..Len(t)
    PROVE  LET r == SubSeq(t, 1, i - 1) \o SubSeq(t, i + 1, Len(t)) IN
           /\ r \in Seq(S) /\ Len(r) = Len(t) - 1
           /\ \A k \in 1..Len(t) - 1 : r[k] = IF k < i THEN t[k] ELSE t[k + 1]
<1> DEFINE n == Len(t)
           a == SubSeq(t, 1, i - 1)
           b == SubSeq(t, i + 1, n)
           r == a \o b
<1>1. n \in Nat /\ i \in 1..n /\ \A k \in 1..n : t[k] \in S
  OBVIOUS
<1> HIDE DEF n
<1>2. a \in Seq(S) /\ Len(a) = i - 1 /\ \A k \in 1..i - 1 : a[k] = t[k]
  <2>1. 1 \in Int /\ i - 1 \in Int /\ \A k \in 1..i - 1 : t[k] \in S
    BY <1>1
  <2>2. /\ a \in Seq(S) /\ Len(a) = IF 1 <= i - 1 THEN i - 1 - 1 + 1 ELSE 0
        /\ \A k \in 1..i - 1 - 1 + 1 : a[k] = t[1 + k - 1]
    BY <2>1, SubSeqProperties
  <2> QED
    BY <1>1, <2>2
<1>3. b \in Seq(S) /\ Len(b) = n - i /\ \A k \in 1..n - i : b[k] = t[i + k]
  <2>1. i + 1 \in Int /\ n \in Int /\ \A k \in i + 1..n : t[k] \in S
    BY <1>1
  <2>2. /\ b \in Seq(S) /\ Len(b) = IF i + 1 <= n THEN n - (i + 1) + 1 ELSE 0
        /\ \A k \in 1..n - (i + 1) + 1 : b[k] = t[i + 1 + k - 1]
    BY <2>1, SubSeqProperties
  <2> QED
    BY <1>1, <2>2
<1> HIDE DEF a, b
<1>4. /\ r \in Seq(S) /\ Len(r) = Len(a) + Len(b)
      /\ \A k \in 1..Len(a) + Len(b) : r[k] = IF k <= Len(a) THEN a[k] ELSE b[k - Len(a)]
  BY <1>2, <1>3, ConcatProperties
<1> HIDE DEF r
<1>5. Len(r) = n - 1
  BY <1>1, <1>2, <1>3, <1>4
<1>6. ASSUME NEW k \in 1..n - 1
      PROVE  r[k] = IF k < i THEN t[k] ELSE t[k + 1]
  <2>1. CASE k < i
    BY <1>1, <1>2, <1>3, <1>4, <2>1
  <2>2. CASE ~(k < i)
    <3>1. k - (i - 1) \in 1..n - i /\ i + (k - (i - 1)) = k + 1
      BY <1>1, <2>2
    <3>2. r[k] = b[k - (i - 1)]
      BY <1>1, <1>2, <1>3, <1>4, <2>2
    <3> QED
      BY <1>3, <2>2, <3>1, <3>2
  <2> QED
    BY <2>1, <2>2
<1> QED
  BY <1>4, <1>5, <1>6 DEF r, a, b, n
=============================================================================
