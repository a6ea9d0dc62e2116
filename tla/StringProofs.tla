---------------------------- MODULE StringProofs -----------------------------
(*****************************************************************************)
(* Strings, keys and encoders: the facts about data that the proofs about    *)
(* queries rest on. Nothing here is about a state.                           *)
(*                                                                           *)
(* The provers have no induction over data, but a set of numbers that has 0  *)
(* and the successor of each member is the set of the numbers                *)
(* (InductionOn): what holds of a key of any length, or of a number of any   *)
(* width, is proved of the set of the lengths or widths it holds for.        *)
(*****************************************************************************)
EXTENDS TypedQueries, SequenceTheorems, WellFoundedInduction, TLAPS

Str == Seq(Int)

\* s and t differ at a place that both have, and s is less there.
Splits(s, t) ==
  \E i \in 1 .. Len(s) : /\ i <= Len(t) /\ s[i] < t[i]
                         /\ \A j \in 1 .. i - 1 : s[j] = t[j]

\* A set of numbers has a least one.
LEMMA LeastOfNat ==
  ASSUME NEW S, S \subseteq Nat, S # {}
  PROVE  \E i \in S : \A j \in S : i <= j
<1>1. PICK i \in S : \A j \in S : ~(<<j, i>> \in OpToRel(<, Nat))
  BY NatLessThanWellFounded, WFMin
<1>2. \A j \in S : ~(j < i)
  BY <1>1 DEF OpToRel
<1> QED
  BY <1>2

\* Induction, as a fact about sets.
LEMMA InductionOn ==
  ASSUME NEW S, S \subseteq Nat, 0 \in S, \A n \in S : n + 1 \in S
  PROVE  S = Nat
<1> SUFFICES ASSUME Nat \ S # {} PROVE FALSE
  OBVIOUS
<1>1. PICK i \in Nat \ S : \A j \in Nat \ S : i <= j
  BY LeastOfNat
<1>2. i # 0 /\ i - 1 \in Nat
  BY <1>1
<1>3. i - 1 \in S
  BY <1>1, <1>2
<1> QED
  BY <1>1, <1>3

\* Facts about concatenation, by places.
LEMMA Concat ==
  ASSUME NEW s \in Str, NEW t \in Str
  PROVE  /\ s \o t \in Str
         /\ Len(s \o t) = Len(s) + Len(t)
         /\ \A i \in 1 .. Len(s) : (s \o t)[i] = s[i]
         /\ \A i \in 1 .. Len(t) : (s \o t)[Len(s) + i] = t[i]
  BY DEF Str

\* Two strings are the same if they are so place by place.
LEMMA SameString ==
  ASSUME NEW s \in Str, NEW t \in Str, Len(s) = Len(t), \A i \in 1 .. Len(s) : s[i] = t[i]
  PROVE  s = t
  BY SeqEqual DEF Str

\* What a prefix is, place by place.
LEMMA PrefixPlaces ==
  ASSUME NEW s \in Str, NEW t \in Str
  PROVE  IsPrefix(s, t) <=> Len(s) <= Len(t) /\ \A i \in 1 .. Len(s) : s[i] = t[i]
<1>1. ASSUME Len(s) <= Len(t)
      PROVE  SubSeq(s, 1, Len(s)) = SubSeq(t, 1, Len(s)) <=> \A i \in 1 .. Len(s) : s[i] = t[i]
  <2>1. SubSeq(s, 1, Len(s)) = [i \in 1 .. Len(s) |-> s[i]]
    BY DEF Str
  <2>2. SubSeq(t, 1, Len(s)) = [i \in 1 .. Len(s) |-> t[i]]
    BY <1>1 DEF Str
  <2> QED
    BY <2>1, <2>2
<1> QED
  BY <1>1 DEF IsPrefix

\* A string is its prefix and a rest.
LEMMA PrefixSplit ==
  ASSUME NEW s \in Str, NEW t \in Str, IsPrefix(s, t)
  PROVE  \E r \in Str : t = s \o r
<1> DEFINE r == [i \in 1 .. Len(t) - Len(s) |-> t[Len(s) + i]]
<1>1. Len(s) \in Nat /\ Len(t) \in Nat /\ Len(s) <= Len(t) /\ \A i \in 1 .. Len(s) : s[i] = t[i]
  BY PrefixPlaces DEF Str
<1>2. r \in Str /\ Len(r) = Len(t) - Len(s)
  <2>1. r \in [1 .. Len(t) - Len(s) -> Int]
    BY <1>1 DEF Str
  <2> QED
    BY <1>1, <2>1 DEF Str
<1>3. t = s \o r
  <2>1. s \o r \in Str /\ Len(s \o r) = Len(t)
    BY <1>1, <1>2, Concat
  <2>2. ASSUME NEW i \in 1 .. Len(t) PROVE (s \o r)[i] = t[i]
    <3>1. CASE i <= Len(s)
      BY <1>1, <1>2, <3>1, Concat
    <3>2. CASE i > Len(s)
      <4>1. i - Len(s) \in 1 .. Len(r) /\ Len(s) + (i - Len(s)) = i
        BY <1>1, <1>2, <3>2
      <4>2. (s \o r)[Len(s) + (i - Len(s))] = r[i - Len(s)]
        BY <1>2, <4>1, Concat
      <4> QED
        BY <4>1, <4>2, <1>2
    <3> QED
      BY <1>1, <3>1, <3>2
  <2> QED
    BY <2>1, <2>2, SameString
<1> QED
  BY <1>2, <1>3

LEMMA PrefixOfConcat ==
  ASSUME NEW s \in Str, NEW r \in Str
  PROVE  IsPrefix(s, s \o r)
<1>1. Len(s) \in Nat /\ Len(r) \in Nat
  BY DEF Str
<1>2. s \o r \in Str /\ Len(s) <= Len(s \o r) /\ \A i \in 1 .. Len(s) : s[i] = (s \o r)[i]
  BY <1>1, Concat
<1> QED
  BY <1>2, PrefixPlaces

\* A string is less than another that it splits below, or begins.
LEMMA LessIff ==
  ASSUME NEW s \in Str, NEW t \in Str
  PROVE  Less(s, t) <=> Splits(s, t) \/ (IsPrefix(s, t) /\ s # t)
<1>1. Len(s) \in Nat /\ Len(t) \in Nat
  BY DEF Str
<1>2. ASSUME NEW i \in 1 .. Len(t), i <= Len(s) + 1
      PROVE  SubSeq(s, 1, i - 1) = SubSeq(t, 1, i - 1) <=> \A j \in 1 .. i - 1 : s[j] = t[j]
  <2>1. SubSeq(s, 1, i - 1) = [j \in 1 .. i - 1 |-> s[j]]
    BY <1>1, <1>2 DEF Str
  <2>2. SubSeq(t, 1, i - 1) = [j \in 1 .. i - 1 |-> t[j]]
    BY <1>1, <1>2 DEF Str
  <2> QED
    BY <2>1, <2>2
<1>3. ASSUME Less(s, t) PROVE Splits(s, t) \/ (IsPrefix(s, t) /\ s # t)
  <2>1. PICK i \in 1 .. Len(t) : /\ i <= Len(s) + 1 /\ SubSeq(s, 1, i - 1) = SubSeq(t, 1, i - 1)
                                 /\ i = Len(s) + 1 \/ s[i] < t[i]
    BY <1>3 DEF Less
  <2>2. \A j \in 1 .. i - 1 : s[j] = t[j]
    BY <1>2, <2>1
  <2>3. CASE i = Len(s) + 1
    BY <1>1, <2>2, <2>3, PrefixPlaces
  <2>4. CASE i # Len(s) + 1
    BY <1>1, <2>1, <2>2, <2>4 DEF Splits
  <2> QED
    BY <2>3, <2>4
<1>4. ASSUME Splits(s, t) PROVE Less(s, t)
  <2>1. PICK i \in 1 .. Len(s) : i <= Len(t) /\ s[i] < t[i] /\ \A j \in 1 .. i - 1 : s[j] = t[j]
    BY <1>4 DEF Splits
  <2> QED
    BY <1>1, <1>2, <2>1 DEF Less
<1>5. ASSUME IsPrefix(s, t), s # t PROVE Less(s, t)
  <2>1. Len(s) <= Len(t) /\ \A i \in 1 .. Len(s) : s[i] = t[i]
    BY <1>5, PrefixPlaces
  <2>2. Len(s) # Len(t)
    BY <1>5, <2>1, SameString
  <2>3. Len(s) + 1 \in 1 .. Len(t)
    BY <1>1, <2>1, <2>2
  <2> QED
    BY <1>1, <1>2, <2>1, <2>3 DEF Less
<1> QED
  BY <1>3, <1>4, <1>5

LEMMA SplitsOfConcat ==
  ASSUME NEW s \in Str, NEW t \in Str, NEW x \in Str, NEW y \in Str, Splits(s, t)
  PROVE  Splits(s \o x, t \o y)
<1>1. PICK i \in 1 .. Len(s) : i <= Len(t) /\ s[i] < t[i] /\ \A j \in 1 .. i - 1 : s[j] = t[j]
  BY DEF Splits
<1>2. Len(s) \in Nat /\ Len(t) \in Nat /\ Len(x) \in Nat /\ Len(y) \in Nat
  BY DEF Str
<1>3. \A j \in 1 .. i : (s \o x)[j] = s[j] /\ (t \o y)[j] = t[j]
  BY <1>1, <1>2, Concat
<1>4. i \in 1 .. Len(s \o x) /\ i <= Len(t \o y) /\ i \in 1 .. i
  BY <1>1, <1>2, Concat
<1>5. (s \o x)[i] < (t \o y)[i] /\ \A j \in 1 .. i - 1 : (s \o x)[j] = (t \o y)[j]
  BY <1>1, <1>3, <1>4
<1> QED
  BY <1>4, <1>5 DEF Splits

LEMMA SplitsOneWay ==
  ASSUME NEW s \in Str, NEW t \in Str, Splits(s, t)
  PROVE  ~Splits(t, s) /\ ~IsPrefix(s, t) /\ ~IsPrefix(t, s)
<1>1. PICK i \in 1 .. Len(s) : i <= Len(t) /\ s[i] < t[i] /\ \A j \in 1 .. i - 1 : s[j] = t[j]
  BY DEF Splits
<1>2. Len(s) \in Nat /\ Len(t) \in Nat /\ i \in 1 .. Len(t) /\ s[i] \in Int /\ t[i] \in Int
  BY <1>1 DEF Str
<1>3. ~IsPrefix(s, t) /\ ~IsPrefix(t, s)
  BY <1>1, <1>2, PrefixPlaces
<1>4. ASSUME Splits(t, s) PROVE FALSE
  <2>1. PICK k \in 1 .. Len(t) : k <= Len(s) /\ t[k] < s[k] /\ \A j \in 1 .. k - 1 : t[j] = s[j]
    BY <1>4 DEF Splits
  <2>2. s[k] \in Int /\ t[k] \in Int
    BY <2>1, <1>2 DEF Str
  <2>3. k < i \/ k = i \/ i < k
    BY <1>2
  <2> QED
    BY <1>1, <1>2, <2>1, <2>2, <2>3
<1> QED
  BY <1>3, <1>4

\* Of two strings one begins the other or splits below it.
LEMMA Compare ==
  ASSUME NEW s \in Str, NEW t \in Str
  PROVE  IsPrefix(s, t) \/ IsPrefix(t, s) \/ Splits(s, t) \/ Splits(t, s)
<1>1. Len(s) \in Nat /\ Len(t) \in Nat
  BY DEF Str
<1> DEFINE D == {i \in Nat : i \in 1 .. Len(s) /\ i \in 1 .. Len(t) /\ s[i] # t[i]}
<1>2. CASE D = {}
  BY <1>1, <1>2, PrefixPlaces
<1>3. CASE D # {}
  <2>1. PICK i \in D : \A j \in D : i <= j
    <3> HIDE DEF D
    <3>1. D \subseteq Nat BY DEF D
    <3> QED BY <3>1, <1>3, LeastOfNat
  <2>2. s[i] \in Int /\ t[i] \in Int /\ i \in 1 .. Len(s) /\ i \in 1 .. Len(t) /\ s[i] # t[i]
    BY <2>1 DEF Str
  <2>3. \A j \in 1 .. i - 1 : s[j] = t[j]
    <3> SUFFICES ASSUME NEW j \in 1 .. i - 1, s[j] # t[j] PROVE FALSE
      OBVIOUS
    <3>1. j \in D /\ j < i
      BY <1>1, <2>2
    <3> QED BY <2>1, <2>2, <3>1
  <2>4. s[i] < t[i] \/ t[i] < s[i]
    BY <2>2
  <2> QED
    BY <1>1, <2>2, <2>3, <2>4 DEF Splits
<1> QED
  BY <1>2, <1>3

LEMMA PrefixBothWays ==
  ASSUME NEW s \in Str, NEW t \in Str, IsPrefix(s, t), IsPrefix(t, s)
  PROVE  s = t
<1>1. Len(s) \in Nat /\ Len(t) \in Nat
  BY DEF Str
<1> QED
  BY <1>1, PrefixPlaces, SameString

LEMMA PrefixSelf ==
  ASSUME NEW s \in Str
  PROVE  IsPrefix(s, s)
<1>1. Len(s) \in Nat
  BY DEF Str
<1> QED
  BY <1>1, PrefixPlaces

\* The order is total.
LEMMA AtMostIff ==
  ASSUME NEW s \in Str, NEW t \in Str
  PROVE  AtMost(s, t) <=> ~Less(t, s)
<1>1. CASE s = t
  BY <1>1, LessIff, SplitsOneWay, PrefixSelf DEF AtMost
<1>2. CASE s # t
  BY <1>2, LessIff, SplitsOneWay, Compare, PrefixBothWays DEF AtMost
<1> QED
  BY <1>1, <1>2

LEMMA Assoc ==
  ASSUME NEW s \in Str, NEW t \in Str, NEW r \in Str
  PROVE  (s \o t) \o r = s \o (t \o r)
  BY ConcatAssociative, SMTT(60) DEF Str

LEMMA CancelSplits ==
  ASSUME NEW p \in Str, NEW s \in Str, NEW t \in Str, Splits(s, t)
  PROVE  Splits(p \o s, p \o t)
<1>1. PICK i \in 1 .. Len(s) : i <= Len(t) /\ s[i] < t[i] /\ \A j \in 1 .. i - 1 : s[j] = t[j]
  BY DEF Splits
<1>2. Len(s) \in Nat /\ Len(t) \in Nat /\ Len(p) \in Nat /\ i \in 1 .. Len(t)
  BY <1>1 DEF Str
<1> DEFINE k == Len(p) + i
<1>3. k \in 1 .. Len(p \o s) /\ k <= Len(p \o t)
  BY <1>2, Concat
<1>4. (p \o s)[k] < (p \o t)[k]
  BY <1>1, <1>2, Concat
<1>5. ASSUME NEW j \in 1 .. k - 1 PROVE (p \o s)[j] = (p \o t)[j]
  <2>1. CASE j <= Len(p)
    BY <1>2, <2>1, Concat
  <2>2. CASE j > Len(p)
    <3>1. j - Len(p) \in 1 .. i - 1 /\ Len(p) + (j - Len(p)) = j
      BY <1>2, <2>2
    <3>2. (p \o s)[Len(p) + (j - Len(p))] = s[j - Len(p)]
      BY <1>2, <3>1, Concat
    <3>3. (p \o t)[Len(p) + (j - Len(p))] = t[j - Len(p)]
      BY <1>2, <3>1, Concat
    <3> QED
      BY <1>1, <3>1, <3>2, <3>3
  <2> QED
    BY <1>2, <2>1, <2>2
<1> HIDE DEF k
<1> QED
  BY <1>3, <1>4, <1>5 DEF Splits

\* What two strings begin with alike decides nothing.
LEMMA CancelEqual ==
  ASSUME NEW p \in Str, NEW s \in Str, NEW t \in Str
  PROVE  p \o s = p \o t <=> s = t
<1>1. ASSUME p \o s = p \o t PROVE s = t
  <2>1. Len(s) \in Nat /\ Len(t) \in Nat /\ Len(p) \in Nat
    BY DEF Str
  <2>2. Len(s) = Len(t)
    BY <1>1, <2>1, Concat
  <2>3. ASSUME NEW i \in 1 .. Len(s) PROVE s[i] = t[i]
    <3>1. (p \o s)[Len(p) + i] = s[i]
      BY Concat
    <3>2. (p \o t)[Len(p) + i] = t[i]
      BY <2>2, Concat
    <3> QED
      BY <1>1, <3>1, <3>2
  <2> QED
    BY <2>2, <2>3, SameString
<1> QED
  BY <1>1

LEMMA CancelPrefix ==
  ASSUME NEW p \in Str, NEW s \in Str, NEW t \in Str
  PROVE  /\ IsPrefix(p \o s, p \o t) <=> IsPrefix(s, t)
         /\ Less(p \o s, p \o t) <=> Less(s, t)
<1>1. p \o s \in Str /\ p \o t \in Str
  BY Concat
<1>2. ASSUME IsPrefix(s, t) PROVE IsPrefix(p \o s, p \o t)
  <2>1. PICK r \in Str : t = s \o r
    BY <1>2, PrefixSplit
  <2>2. p \o t = (p \o s) \o r
    BY <2>1, Assoc, ZenonT(60)
  <2> QED
    BY <1>1, <2>2, PrefixOfConcat
<1>3. ASSUME IsPrefix(p \o s, p \o t) PROVE IsPrefix(s, t)
  <2>1. PICK r \in Str : p \o t = (p \o s) \o r
    BY <1>1, <1>3, PrefixSplit
  <2> DEFINE q == s \o r
  <2>2. q \in Str /\ IsPrefix(s, q)
    BY Concat, PrefixOfConcat
  <2>3. p \o t = p \o q
    BY <2>1, Assoc
  <2> HIDE DEF q
  <2>4. t = q
    BY <2>2, <2>3, CancelEqual
  <2> QED
    BY <2>2, <2>4
<1>4. ASSUME Splits(p \o s, p \o t) PROVE Splits(s, t)
  <2>1. ~Splits(p \o t, p \o s) /\ ~IsPrefix(p \o s, p \o t) /\ ~IsPrefix(p \o t, p \o s)
    BY <1>1, <1>4, SplitsOneWay
  <2>2. ~IsPrefix(s, t)
    BY <1>2, <2>1
  <2>3. ~IsPrefix(t, s)
    <3> SUFFICES ASSUME IsPrefix(t, s) PROVE IsPrefix(p \o t, p \o s)
      BY <2>1
    <3>1. PICK r \in Str : s = t \o r
      BY PrefixSplit
    <3>2. p \o s = (p \o t) \o r
      BY <3>1, Assoc
    <3> QED
      BY <1>1, <3>2, PrefixOfConcat
  <2>4. ~Splits(t, s)
    BY <2>1, CancelSplits
  <2> QED
    BY <2>2, <2>3, <2>4, Compare
<1>5. Splits(p \o s, p \o t) <=> Splits(s, t)
  BY <1>4, CancelSplits
<1>6. IsPrefix(p \o s, p \o t) <=> IsPrefix(s, t)
  BY <1>2, <1>3
<1>7. p \o s = p \o t <=> s = t
  BY CancelEqual
<1>8. Less(s, t) <=> Splits(s, t) \/ (IsPrefix(s, t) /\ s # t)
  BY LessIff
<1>9. Less(p \o s, p \o t) <=> Splits(p \o s, p \o t) \/ (IsPrefix(p \o s, p \o t) /\ p \o s # p \o t)
  BY <1>1, LessIff
<1> QED
  BY <1>5, <1>6, <1>7, <1>8, <1>9

\* What lies between two strings with one beginning has that beginning.
LEMMA PrefixBetween ==
  ASSUME NEW p \in Str, NEW a \in Str, NEW b \in Str, NEW s \in Str,
         AtMost(p \o a, s), AtMost(s, p \o b)
  PROVE  IsPrefix(p, s)
<1>1. p \o a \in Str /\ p \o b \in Str
  BY Concat
<1>2. ~Less(s, p \o a) /\ ~Less(p \o b, s)
  BY <1>1, AtMostIff
<1>3. s \o <<>> = s /\ <<>> \in Str
  BY DEF Str
<1>4. ~Splits(p, s)
  BY <1>1, <1>2, <1>3, SplitsOfConcat, LessIff
<1>5. ~Splits(s, p)
  BY <1>1, <1>2, <1>3, SplitsOfConcat, LessIff
<1>6. CASE IsPrefix(s, p)
  <2>1. PICK r \in Str : p = s \o r
    BY <1>6, PrefixSplit
  <2>2. r \o a \in Str
    BY Concat
  <2>0. p \o a = s \o (r \o a)
    BY <2>1, Assoc, SMTT(60)
  <2>3. IsPrefix(s, p \o a)
    BY <2>0, <2>2, PrefixOfConcat
  <2>4. s = p \o a
    BY <1>1, <1>2, <2>3, LessIff
  <2> QED
    BY <2>4, PrefixOfConcat
<1> QED
  BY <1>4, <1>5, <1>6, Compare

\* Neither string is the other with something behind it.
Decided(h, v) == h = v \/ Splits(h, v) \/ Splits(v, h)

\* What may follow a head: nothing, or a character below the suffix.
BelowSuffix(r) == r = <<>> \/ r[1] < MaxKeySuffix[1]

\* What follows a head is below the suffix.
LEMMA Suffix ==
  ASSUME NEW r \in Str, BelowSuffix(r)
  PROVE  MaxKeySuffix \in Str /\ Less(r, MaxKeySuffix) /\ ~Less(MaxKeySuffix, r)
<1>1. MaxKeySuffix \in Str /\ Len(MaxKeySuffix) = 1 /\ MaxKeySuffix[1] = 65535 /\ MaxKeySuffix # <<>>
  BY DEF MaxKeySuffix, Str
<1>2. CASE r = <<>>
  <2>1. IsPrefix(r, MaxKeySuffix)
    BY <1>1, <1>2, PrefixPlaces
  <2> QED
    BY <1>1, <1>2, <2>1, LessIff, AtMostIff DEF AtMost
<1>3. CASE r # <<>>
  <2>1. Len(r) \in Nat /\ Len(r) >= 1
    BY <1>3, EmptySeq DEF Str
  <2>2. Splits(r, MaxKeySuffix)
    BY <1>1, <1>3, <2>1 DEF Splits, BelowSuffix
  <2> QED
    BY <1>1, <2>2, LessIff, AtMostIff DEF AtMost
<1> QED
  BY <1>2, <1>3

\* Of a key that goes on behind its head, the head tells on which side of a
\* bound it is, once the suffix has been added where the bound is an upper one.
LEMMA HeadsCompare ==
  ASSUME NEW h \in Str, NEW v \in Str, NEW r \in Str, Decided(h, v), BelowSuffix(r)
  PROVE  /\ Less(v \o MaxKeySuffix, h \o r) <=> Less(v, h)
         /\ AtMost(v, h \o r) <=> ~Less(h, v)
         /\ Less(h \o r, v) <=> Less(h, v)
         /\ AtMost(h \o r, v \o MaxKeySuffix) <=> ~Less(v, h)
<1>1. MaxKeySuffix \in Str /\ Less(r, MaxKeySuffix) /\ ~Less(MaxKeySuffix, r)
  BY Suffix
<1>2. h \o r \in Str /\ v \o MaxKeySuffix \in Str /\ v \o <<>> = v /\ <<>> \in Str
  <2>1. v \o <<>> = v /\ <<>> \in Str
    BY DEF Str
  <2> QED
    BY <1>1, <2>1, Concat
<1>3. CASE h = v
  <2>1. ~Less(v \o MaxKeySuffix, v \o r)
    BY <1>1, CancelPrefix
  <2>2. ~Less(v, v) /\ ~Less(v \o r, v)
    BY <1>2, <1>3, LessIff, AtMostIff, PrefixOfConcat, PrefixSelf, SplitsOneWay, PrefixBothWays DEF AtMost
  <2> QED
    BY <1>2, <1>3, <2>1, <2>2, AtMostIff
<1>4. CASE Splits(h, v)
  <2>1. Splits(h \o r, v \o MaxKeySuffix) /\ Splits(h \o r, v)
    BY <1>1, <1>2, <1>4, SplitsOfConcat
  <2>2. Less(h, v) /\ ~Less(v, h)
    BY <1>4, LessIff, SplitsOneWay
  <2>3. Less(h \o r, v) /\ ~Less(v \o MaxKeySuffix, h \o r)
    BY <1>2, <2>1, LessIff, SplitsOneWay
  <2> QED
    BY <1>2, <2>2, <2>3, AtMostIff
<1>5. CASE Splits(v, h)
  <2>1. Splits(v \o MaxKeySuffix, h \o r) /\ Splits(v, h \o r)
    BY <1>1, <1>2, <1>5, SplitsOfConcat
  <2>2. Less(v, h) /\ ~Less(h, v)
    BY <1>5, LessIff, SplitsOneWay
  <2>3. ~Less(h \o r, v) /\ Less(v \o MaxKeySuffix, h \o r)
    BY <1>2, <2>1, LessIff, SplitsOneWay
  <2> QED
    BY <1>2, <2>2, <2>3, AtMostIff
<1> QED
  BY <1>3, <1>4, <1>5 DEF Decided

\* Strings of one length are ordered by the first place they differ in.
LEMMA SameLengthLess ==
  ASSUME NEW s \in Str, NEW t \in Str, Len(s) = Len(t)
  PROVE  /\ Less(s, t) <=> Splits(s, t)
         /\ Less(s, t) \/ Less(t, s) \/ s = t
         /\ ~(Less(s, t) /\ Less(t, s)) /\ (s = t => ~Less(s, t))
<1>1. IsPrefix(s, t) => s = t
  BY PrefixPlaces, SameString
<1>2. IsPrefix(t, s) => s = t
  BY PrefixPlaces, SameString
<1>3. Less(s, t) <=> Splits(s, t)
  BY <1>1, LessIff
<1>4. Less(t, s) <=> Splits(t, s)
  BY <1>2, LessIff
<1>5. Splits(s, t) => ~Splits(t, s) /\ ~IsPrefix(s, t)
  BY SplitsOneWay
<1>6. s = t => ~Splits(s, t)
  BY <1>5, PrefixSelf
<1>7. IsPrefix(s, t) \/ IsPrefix(t, s) \/ Splits(s, t) \/ Splits(t, s)
  BY Compare
<1> QED
  BY <1>1, <1>2, <1>3, <1>4, <1>5, <1>6, <1>7

LEMMA SplitsTransitive ==
  ASSUME NEW s \in Str, NEW t \in Str, NEW u \in Str, Len(s) = Len(t), Len(t) = Len(u),
         Splits(s, t), Splits(t, u)
  PROVE  Splits(s, u)
<1> DEFINE n == Len(s)
<1>0. n \in Nat /\ n = Len(s) /\ n = Len(t) /\ n = Len(u)
      /\ \A j \in 1 .. n : s[j] \in Int /\ t[j] \in Int /\ u[j] \in Int
  <2>1. n \in Nat /\ \A j \in 1 .. Len(s) : s[j] \in Int
    BY DEF Str
  <2>2. \A j \in 1 .. Len(t) : t[j] \in Int
    BY DEF Str
  <2>3. \A j \in 1 .. Len(u) : u[j] \in Int
    BY DEF Str
  <2> QED
    BY <2>1, <2>2, <2>3
<1> HIDE DEF n
<1>1. PICK i \in 1 .. n : s[i] < t[i] /\ \A j \in 1 .. i - 1 : s[j] = t[j]
  BY <1>0 DEF Splits
<1>2. PICK k \in 1 .. n : t[k] < u[k] /\ \A j \in 1 .. k - 1 : t[j] = u[j]
  BY <1>0 DEF Splits
<1>4. CASE i <= k
  <2>1. s[i] < u[i]
    <3>1. CASE i = k
      BY <1>1, <1>2, <1>0, <3>1
    <3>2. CASE i < k
      <4>1. i \in 1 .. k - 1
        BY <3>2
      <4> QED
        BY <1>1, <1>2, <4>1
    <3> QED
      BY <1>4, <3>1, <3>2
  <2>2. \A j \in 1 .. i - 1 : s[j] = u[j]
    <3>1. \A j \in 1 .. i - 1 : j \in 1 .. k - 1
      BY <1>4
    <3> QED
      BY <1>1, <1>2, <3>1
  <2>3. i \in 1 .. Len(s) /\ i <= Len(u)
    BY <1>0
  <2> QED
    BY <2>1, <2>2, <2>3 DEF Splits
<1>5. CASE k < i
  <2>1. k \in 1 .. i - 1 /\ \A j \in 1 .. k - 1 : j \in 1 .. i - 1
    BY <1>5
  <2>2. s[k] < u[k] /\ \A j \in 1 .. k - 1 : s[j] = u[j]
    BY <1>1, <1>2, <2>1
  <2>3. k \in 1 .. Len(s) /\ k <= Len(u)
    BY <1>0
  <2> QED
    BY <2>2, <2>3 DEF Splits
<1> QED
  BY <1>4, <1>5

\* Strings of one length are decided.
LEMMA SameLengthDecided ==
  ASSUME NEW s \in Str, NEW t \in Str, Len(s) = Len(t)
  PROVE  Decided(s, t)
<1>1. Len(s) \in Nat
  BY DEF Str
<1>2. IsPrefix(s, t) \/ IsPrefix(t, s) => s = t
  BY <1>1, PrefixPlaces, SameString
<1> QED
  BY <1>2, Compare DEF Decided

\* f is the running concatenation of the first n strings of q.
Running(f, q, n) ==
  /\ f \in [1 .. n -> Str]
  /\ \A i \in 1 .. n : f[i] = IF i = 1 THEN q[1] ELSE f[i - 1] \o q[i]

\* The strings so far exist, and only once.
LEMMA RunningExists ==
  ASSUME NEW n \in Nat, NEW q, \A i \in 1 .. n : q[i] \in Str
  PROVE  \E f : Running(f, q, n)
<1> DEFINE Good == {k \in Nat : k <= n => \E f : Running(f, q, k)}
<1>1. 0 \in Good
  <2>1. Running([i \in 1 .. 0 |-> <<>>], q, 0)
    BY DEF Running
  <2> QED
    BY <2>1
<1>2. ASSUME NEW k \in Good PROVE k + 1 \in Good
  <2> SUFFICES ASSUME k + 1 <= n PROVE \E f : Running(f, q, k + 1)
    OBVIOUS
  <2>1. PICK f : Running(f, q, k)
    OBVIOUS
  <2> DEFINE s == IF k = 0 THEN q[1] ELSE f[k] \o q[k + 1]
             g == [i \in 1 .. k + 1 |-> IF i <= k THEN f[i] ELSE s]
  <2>2. k \in Nat /\ n \in Nat /\ \A i \in 1 .. k : f[i] \in Str
    BY <2>1 DEF Running
  <2>3. s \in Str
    <3>1. CASE k = 0
      BY <3>1, <2>2
    <3>2. CASE k # 0
      <4>1. f[k] \in Str /\ q[k + 1] \in Str
        BY <2>2, <3>2
      <4> QED
        BY <3>2, <4>1, Concat
    <3> QED
      BY <3>1, <3>2
  <2> HIDE DEF s
  <2>4. g \in [1 .. k + 1 -> Str]
    BY <2>2, <2>3
  <2>5. ASSUME NEW i \in 1 .. k + 1
        PROVE  g[i] = IF i = 1 THEN q[1] ELSE g[i - 1] \o q[i]
    <3>1. CASE i <= k
      <4>1. i \in 1 .. k /\ (i # 1 => i - 1 \in 1 .. k)
        BY <2>2, <3>1
      <4>2. g[i] = f[i] /\ (i # 1 => g[i - 1] = f[i - 1])
        BY <2>2, <4>1
      <4> HIDE DEF g
      <4> QED
        BY <2>1, <4>1, <4>2 DEF Running
    <3>2. CASE i = k + 1
      BY <2>2, <3>2 DEF s
    <3> QED
      BY <2>2, <3>1, <3>2
  <2> HIDE DEF g
  <2> QED
    BY <2>4, <2>5 DEF Running
<1>3. Good = Nat
  <2> HIDE DEF Good
  <2>1. Good \subseteq Nat
    BY DEF Good
  <2> QED
    BY <1>1, <1>2, <2>1, InductionOn
<1> QED
  BY <1>3

LEMMA RunningUnique ==
  ASSUME NEW n, NEW m, NEW q, NEW r, NEW f, NEW g, n \in Nat, m \in Nat,
         m <= n, \A i \in 1 .. m : q[i] = r[i], Running(f, q, n), Running(g, r, m)
  PROVE  \A i \in 1 .. m : f[i] = g[i]
<1> DEFINE Good == {k \in Nat : k + 1 <= m => f[k + 1] = g[k + 1]}
<1>1. 0 \in Good
  <2> SUFFICES ASSUME 1 <= m PROVE f[1] = g[1]
    OBVIOUS
  <2>0. 1 \in 1 .. m /\ 1 \in 1 .. n
    OBVIOUS
  <2>1. f[1] = q[1] /\ g[1] = r[1] /\ q[1] = r[1]
    BY <2>0 DEF Running
  <2> QED
    BY <2>1
<1>2. ASSUME NEW k \in Good PROVE k + 1 \in Good
  <2> SUFFICES ASSUME (k + 1) + 1 <= m PROVE f[(k + 1) + 1] = g[(k + 1) + 1]
    OBVIOUS
  <2>1. k \in Nat /\ k + 1 <= m /\ (k + 1) + 1 = k + 2 /\ k + 2 \in 1 .. m /\ k + 2 \in 1 .. n /\ k + 2 # 1 /\ (k + 2) - 1 = k + 1
    OBVIOUS
  <2>2. f[k + 1] = g[k + 1]
    BY <2>1
  <2>3. f[k + 2] = f[k + 1] \o q[k + 2] /\ g[k + 2] = g[k + 1] \o r[k + 2]
    BY <2>1 DEF Running
  <2> QED
    BY <2>1, <2>2, <2>3
<1>3. Good = Nat
  <2> HIDE DEF Good
  <2>1. Good \subseteq Nat
    BY DEF Good
  <2> QED
    BY <1>1, <1>2, <2>1, InductionOn
<1>4. ASSUME NEW i \in 1 .. m PROVE f[i] = g[i]
  <2>1. i - 1 \in Nat /\ (i - 1) + 1 = i /\ i <= m
    OBVIOUS
  <2>2. i - 1 \in Good
    BY <1>3, <2>1
  <2> QED
    BY <2>1, <2>2
<1> QED
  BY <1>4

\* FlattenSeq is the last of them.
LEMMA FlattenIs ==
  ASSUME NEW q \in Seq(Str), NEW n \in Nat, Len(q) = n, n # 0
  PROVE  \E f : Running(f, q, n) /\ FlattenSeq(q) = f[n]
<1> DEFINE F == CHOOSE f : f = [i \in 1 .. n |-> IF i = 1 THEN q[i] ELSE f[i - 1] \o q[i]]
<1>1. FlattenSeq(q) = F[n]
  BY DEF FlattenSeq
<1>2. PICK g : Running(g, q, n)
  BY RunningExists
<1>3. g = [i \in 1 .. n |-> IF i = 1 THEN q[i] ELSE g[i - 1] \o q[i]]
  BY <1>2 DEF Running
<1>4. F = [i \in 1 .. n |-> IF i = 1 THEN q[i] ELSE F[i - 1] \o q[i]]
  BY <1>3
<1> HIDE DEF F
<1>5. \A i \in 1 .. n : F[i] = IF i = 1 THEN q[1] ELSE F[i - 1] \o q[i]
  BY <1>4
<1> DEFINE Good == {k \in Nat : k + 1 <= n => F[k + 1] \in Str}
<1>6. 0 \in Good
  BY <1>5
<1>7. ASSUME NEW k \in Good PROVE k + 1 \in Good
  <2> SUFFICES ASSUME (k + 1) + 1 <= n PROVE F[(k + 1) + 1] \in Str
    OBVIOUS
  <2>1. k \in Nat /\ k + 1 <= n /\ (k + 1) + 1 = k + 2 /\ k + 2 \in 1 .. n /\ k + 2 # 1 /\ (k + 2) - 1 = k + 1
    OBVIOUS
  <2>2. F[k + 1] \in Str /\ q[k + 2] \in Str
    BY <2>1
  <2>3. F[k + 2] = F[k + 1] \o q[k + 2]
    BY <1>5, <2>1
  <2> QED
    BY <2>1, <2>2, <2>3, Concat
<1>8. Good = Nat
  <2> HIDE DEF Good
  <2>1. Good \subseteq Nat
    BY DEF Good
  <2> QED
    BY <1>6, <1>7, <2>1, InductionOn
<1>9. ASSUME NEW i \in 1 .. n PROVE F[i] \in Str
  <2>1. i - 1 \in Nat /\ (i - 1) + 1 = i /\ i <= n
    OBVIOUS
  <2>2. i - 1 \in Good
    BY <1>8, <2>1
  <2> QED
    BY <2>1, <2>2
<1>10. F \in [1 .. n -> Str]
  BY <1>4, <1>9
<1> QED
  BY <1>1, <1>5, <1>10 DEF Running

\* Segments, whose characters are not the delimiter; and parts of a sequence.
HashFree == {s \in Str : \A i \in 1 .. Len(s) : s[i] # Hash}
FirstOf(u, n) == [i \in 1 .. n |-> u[i]]
RestOf(u, n) == [i \in 1 .. Len(u) - n |-> u[n + i]]

\* s, a delimiter and x.
Then(s, x) == s \o (<<Hash>> \o x)

LEMMA HashString == <<Hash>> \in Str /\ Len(<<Hash>>) = 1 /\ <<Hash>>[1] = Hash
  BY DEF Hash, Str

\* Delimiters may be put between strings in any order.
LEMMA ThenString ==
  ASSUME NEW s \in Str, NEW t \in Str, NEW x \in Str
  PROVE  /\ Then(s, x) \in Str
         /\ Then(Then(s, t), x) = Then(s, Then(t, x))
         /\ Then(s, t) \o x = Then(s, t \o x)
<1> DEFINE h == <<Hash>>
           k == h \o t
           y == h \o x
<1>1. h \in Str
  BY HashString
<1> HIDE DEF h
<1>2. k \in Str /\ y \in Str /\ t \o x \in Str
  BY <1>1, Concat
<1>3. k \o y = h \o (t \o y) /\ k \o x = h \o (t \o x)
  BY <1>1, <1>2, Assoc, ZenonT(60)
<1> HIDE DEF k, y
<1>4. s \o y \in Str
  BY <1>2 DEF Str
<1>5. (s \o k) \o y = s \o (k \o y)
  BY <1>2, Assoc, ZenonT(60)
<1>6. (s \o k) \o x = s \o (k \o x)
  BY <1>2, Assoc, SMTT(60)
<1> QED
  BY <1>3, <1>4, <1>5, <1>6 DEF h, k, y, Then

LEMMA Taken ==
  ASSUME NEW S, NEW u \in Seq(S), NEW n \in 0 .. Len(u)
  PROVE  /\ FirstOf(u, n) \in Seq(S) /\ Len(FirstOf(u, n)) = n /\ \A i \in 1 .. n : FirstOf(u, n)[i] = u[i]
         /\ RestOf(u, n) \in Seq(S) /\ Len(RestOf(u, n)) = Len(u) - n
         /\ \A i \in 1 .. Len(u) - n : RestOf(u, n)[i] = u[n + i]
<1>1. n \in Nat /\ Len(u) \in Nat /\ n <= Len(u) /\ \A i \in 1 .. Len(u) : u[i] \in S
  OBVIOUS
<1>2. FirstOf(u, n) \in [1 .. n -> S] /\ RestOf(u, n) \in [1 .. Len(u) - n -> S]
  BY <1>1 DEF FirstOf, RestOf
<1>3. FirstOf(u, n) \in Seq(S) /\ Len(FirstOf(u, n)) = n
  BY <1>1, <1>2
<1>4. RestOf(u, n) \in Seq(S) /\ Len(RestOf(u, n)) = Len(u) - n
  BY <1>1, <1>2
<1> QED
  BY <1>3, <1>4 DEF FirstOf, RestOf

LEMMA TailOfConcat ==
  ASSUME NEW s \in Str, NEW t \in Str, Len(s) >= 1
  PROVE  Tail(s) \in Str /\ Tail(s \o t) = Tail(s) \o t
<1>1. Len(s) \in Nat /\ Len(t) \in Nat /\ s \o t \in Str /\ Len(s \o t) = Len(s) + Len(t)
  BY Concat DEF Str
<1>2. Tail(s) \in Str /\ Len(Tail(s)) = Len(s) - 1 /\ \A i \in 1 .. Len(s) - 1 : Tail(s)[i] = s[i + 1]
  BY <1>1 DEF Str
<1>3. Tail(s \o t) \in Str /\ Len(Tail(s \o t)) = (Len(s) + Len(t)) - 1
      /\ \A i \in 1 .. (Len(s) + Len(t)) - 1 : Tail(s \o t)[i] = (s \o t)[i + 1]
  BY <1>1 DEF Str
<1>4. Tail(s) \o t \in Str /\ Len(Tail(s) \o t) = (Len(s) - 1) + Len(t)
  BY <1>1, <1>2, Concat
<1>5. ASSUME NEW i \in 1 .. (Len(s) + Len(t)) - 1
      PROVE  Tail(s \o t)[i] = (Tail(s) \o t)[i]
  <2>1. Tail(s \o t)[i] = (s \o t)[i + 1]
    BY <1>3
  <2>2. CASE i <= Len(s) - 1
    <3>1. i \in 1 .. Len(Tail(s)) /\ i \in 1 .. Len(s) - 1 /\ i + 1 \in 1 .. Len(s)
      BY <1>1, <1>2, <2>2
    <3>2. (s \o t)[i + 1] = s[i + 1]
      BY <3>1, Concat
    <3>3. (Tail(s) \o t)[i] = Tail(s)[i]
      BY <1>2, <3>1, Concat
    <3> QED
      BY <1>2, <2>1, <3>1, <3>2, <3>3
  <2>3. CASE i > Len(s) - 1
    <3> DEFINE j == i - (Len(s) - 1)
    <3>0. j \in 1 .. Len(t) /\ i + 1 = Len(s) + j /\ i = (Len(s) - 1) + j
      BY <1>1, <2>3
    <3>1. j \in 1 .. Len(t) /\ i + 1 = Len(s) + j /\ i = Len(Tail(s)) + j
      BY <1>2, <3>0
    <3> HIDE DEF j
    <3>2. (s \o t)[Len(s) + j] = t[j]
      BY <3>1, Concat
    <3>3. (Tail(s) \o t)[Len(Tail(s)) + j] = t[j]
      BY <1>2, <3>1, Concat
    <3> QED
      BY <2>1, <3>1, <3>2, <3>3
  <2> QED
    BY <1>1, <2>2, <2>3
<1> QED
  BY <1>1, <1>2, <1>3, <1>4, <1>5, SameString

Marked(u) == [i \in DOMAIN u |-> <<Hash>> \o u[i]]

\* Join drops the first delimiter of segments that each have one in front.
LEMMA MarkedSegments ==
  ASSUME NEW u \in Seq(Str)
  PROVE  /\ Marked(u) \in Seq(Str) /\ Len(Marked(u)) = Len(u)
         /\ \A i \in 1 .. Len(u) : Marked(u)[i] = <<Hash>> \o u[i] /\ Marked(u)[i] \in Str /\ Len(Marked(u)[i]) >= 1
<1>1. Len(u) \in Nat /\ DOMAIN u = 1 .. Len(u) /\ \A i \in 1 .. Len(u) : u[i] \in Str
  OBVIOUS
<1>2. ASSUME NEW i \in 1 .. Len(u)
      PROVE  <<Hash>> \o u[i] \in Str /\ Len(<<Hash>> \o u[i]) >= 1
  <2>1. u[i] \in Str /\ Len(u[i]) \in Nat
    BY <1>1 DEF Str
  <2> QED
    BY <2>1, HashString, Concat
<1>3. Marked(u) \in [1 .. Len(u) -> Str]
  BY <1>1, <1>2 DEF Marked
<1>4. Marked(u) \in Seq(Str) /\ Len(Marked(u)) = Len(u)
  BY <1>1, <1>3
<1> QED
  BY <1>1, <1>2, <1>4 DEF Marked

\* A rendered key, one segment after another.
LEMMA JoinRuns ==
  ASSUME NEW u \in Seq(Str), NEW n \in Nat, Len(u) = n, n # 0
  PROVE  \E f : /\ Running(f, Marked(u), n) /\ Join(u) = Tail(f[n])
                /\ \A i \in 1 .. n : f[i] \in Str /\ Len(f[i]) >= 1
<1>1. Join(u) = Tail(FlattenSeq(Marked(u)))
  BY DEF Join, Marked
<1>2. PICK f : Running(f, Marked(u), n) /\ FlattenSeq(Marked(u)) = f[n]
  BY FlattenIs, MarkedSegments
<1>3. ASSUME NEW i \in 1 .. n PROVE f[i] \in Str /\ Len(f[i]) >= 1
  <2>1. f[i] \in Str /\ Marked(u)[i] \in Str /\ Len(Marked(u)[i]) >= 1
    BY <1>2, MarkedSegments DEF Running
  <2>2. CASE i = 1
    BY <1>2, <2>1, <2>2 DEF Running
  <2>3. CASE i # 1
    <3>1. i - 1 \in 1 .. n
      BY <2>3
    <3>2. f[i - 1] \in Str /\ f[i] = f[i - 1] \o Marked(u)[i]
      BY <1>2, <2>3, <3>1 DEF Running
    <3>3. Len(f[i - 1]) \in Nat /\ Len(Marked(u)[i]) \in Nat
      BY <2>1, <3>2 DEF Str
    <3>4. Len(f[i - 1] \o Marked(u)[i]) = Len(f[i - 1]) + Len(Marked(u)[i])
      BY <2>1, <3>2, Concat
    <3>5. Len(f[i]) = Len(f[i - 1]) + Len(Marked(u)[i])
      BY <3>2, <3>4
    <3>6. Len(f[i]) >= 1
      <4> DEFINE a == Len(f[i - 1])
                 b == Len(Marked(u)[i])
      <4>1. a \in Nat /\ b \in Nat /\ b >= 1 /\ Len(f[i]) = a + b
        BY <2>1, <3>3, <3>5
      <4> HIDE DEF a, b
      <4> QED
        BY <4>1
    <3> QED
      BY <2>1, <3>6
  <2> QED
    BY <2>2, <2>3
<1> QED
  BY <1>1, <1>2, <1>3

LEMMA JoinType ==
  ASSUME NEW u \in Seq(Str), u # <<>>
  PROVE  Join(u) \in Str
<1>1. Len(u) \in Nat /\ Len(u) # 0
  BY EmptySeq
<1>2. PICK f : /\ Join(u) = Tail(f[Len(u)])
               /\ \A i \in 1 .. Len(u) : f[i] \in Str /\ Len(f[i]) >= 1
  BY <1>1, JoinRuns
<1>3. f[Len(u)] \in Str /\ Len(f[Len(u)]) >= 1
  BY <1>1, <1>2
<1> QED
  BY <1>2, <1>3, TailOfConcat

LEMMA JoinOne ==
  ASSUME NEW u \in Seq(Str), Len(u) = 1
  PROVE  Join(u) = u[1]
<1> DEFINE n == Len(u)
<1>0. n \in Nat /\ n # 0 /\ n = 1
  OBVIOUS
<1>1. PICK f : Running(f, Marked(u), n) /\ Join(u) = Tail(f[n])
  BY <1>0, JoinRuns
<1>2. f[1] = <<Hash>> \o u[1] /\ u[1] \in Str
  BY <1>0, <1>1, MarkedSegments DEF Running
<1>3. Tail(<<Hash>> \o u[1]) = Tail(<<Hash>>) \o u[1]
  BY <1>2, HashString, TailOfConcat
<1>4. Tail(<<Hash>>) = <<>> /\ <<>> \o u[1] = u[1]
  BY <1>2, ConcatEmptySeq DEF Str
<1> QED
  BY <1>0, <1>1, <1>2, <1>3, <1>4

\* One more segment adds a delimiter and the segment.
LEMMA JoinStep ==
  ASSUME NEW u \in Seq(Str), NEW w \in Seq(Str), NEW n \in Nat \ {0},
         Len(u) = n + 1, Len(w) = n, \A i \in 1 .. n : u[i] = w[i]
  PROVE  Join(u) = Then(Join(w), u[n + 1])
<1>1. PICK f : /\ Running(f, Marked(u), n + 1) /\ Join(u) = Tail(f[n + 1])
               /\ \A i \in 1 .. n + 1 : f[i] \in Str /\ Len(f[i]) >= 1
  BY JoinRuns
<1>2. PICK g : Running(g, Marked(w), n) /\ Join(w) = Tail(g[n])
  BY JoinRuns
<1>0. n \in Nat /\ n + 1 \in Nat /\ n <= n + 1 /\ n \in 1 .. n /\ n + 1 \in 1 .. n + 1 /\ n + 1 # 1
      /\ (n + 1) - 1 = n
  OBVIOUS
<1>3. ASSUME NEW i \in 1 .. n PROVE Marked(u)[i] = Marked(w)[i]
  <2>1. i \in 1 .. Len(u) /\ i \in 1 .. Len(w) /\ u[i] = w[i]
    OBVIOUS
  <2>2. Marked(u)[i] = <<Hash>> \o u[i]
    BY <2>1, MarkedSegments
  <2>3. Marked(w)[i] = <<Hash>> \o w[i]
    BY <2>1, MarkedSegments
  <2> QED
    BY <2>1, <2>2, <2>3
<1>4. f[n] = g[n]
  <2>1. \A i \in 1 .. n : f[i] = g[i]
    <3> DEFINE m == n + 1
               q == Marked(u)
               r == Marked(w)
    <3>1. m \in Nat /\ n \in Nat /\ n <= m
      BY <1>0
    <3>2. Running(f, q, m)
      BY <1>1
    <3>3. Running(g, r, n)
      BY <1>2
    <3>4. \A i \in 1 .. n : q[i] = r[i]
      BY <1>3
    <3> HIDE DEF m, q, r
    <3> QED
      BY <3>1, <3>2, <3>3, <3>4, RunningUnique
  <2> QED
    BY <1>0, <2>1
<1>5. f[n + 1] = f[n] \o Marked(u)[n + 1]
  BY <1>0, <1>1 DEF Running
<1>6. f[n] \in Str /\ Len(f[n]) >= 1 /\ Marked(u)[n + 1] \in Str /\ Marked(u)[n + 1] = <<Hash>> \o u[n + 1]
  BY <1>1, MarkedSegments
<1>7. Tail(f[n] \o Marked(u)[n + 1]) = Tail(f[n]) \o Marked(u)[n + 1]
  BY <1>6, TailOfConcat
<1> QED
  BY <1>1, <1>2, <1>4, <1>5, <1>6, <1>7 DEF Then

\* A rendered key, cut between two segments.
LEMMA JoinCut ==
  ASSUME NEW u \in Seq(Str), NEW c \in Nat \ {0}, c < Len(u)
  PROVE  Join(u) = Then(Join(FirstOf(u, c)), Join(RestOf(u, c)))
<1> DEFINE Good == {k \in Nat : \A v \in Seq(Str) : Len(v) = (c + k) + 1
              => Join(v) = Then(Join(FirstOf(v, c)), Join(RestOf(v, c)))}
<1>1. 0 \in Good
  <2> SUFFICES ASSUME NEW v \in Seq(Str), Len(v) = (c + 0) + 1
               PROVE  Join(v) = Then(Join(FirstOf(v, c)), Join(RestOf(v, c)))
    OBVIOUS
  <2>1. c \in 0 .. Len(v) /\ Len(v) = c + 1 /\ Len(v) - c = 1
    OBVIOUS
  <2>2. RestOf(v, c) \in Seq(Str) /\ Len(RestOf(v, c)) = 1 /\ RestOf(v, c)[1] = v[c + 1]
    <3>1. RestOf(v, c) \in Seq(Str) /\ Len(RestOf(v, c)) = Len(v) - c /\ \A i \in 1 .. Len(v) - c : RestOf(v, c)[i] = v[c + i]
      BY <2>1, Taken, ZenonT(60)
    <3> QED
      BY <2>1, <3>1
  <2>3. FirstOf(v, c) \in Seq(Str) /\ Len(FirstOf(v, c)) = c /\ \A i \in 1 .. c : v[i] = FirstOf(v, c)[i]
    BY <2>1, Taken
  <2> QED
    BY <2>1, <2>2, <2>3, JoinOne, JoinStep
<1>2. ASSUME NEW k \in Good PROVE k + 1 \in Good
  <2> SUFFICES ASSUME NEW v \in Seq(Str), Len(v) = (c + (k + 1)) + 1
               PROVE  Join(v) = Then(Join(FirstOf(v, c)), Join(RestOf(v, c)))
    OBVIOUS
  <2> DEFINE n == (c + k) + 1
             b == FirstOf(v, n)
             last == v[n + 1]
  <2>0. k \in Nat /\ n \in Nat \ {0} /\ n \in 0 .. Len(v) /\ Len(v) = n + 1 /\ c \in 0 .. Len(v) /\ c \in 0 .. n
        /\ n + 1 \in 1 .. Len(v)
    OBVIOUS
  <2>1. b \in Seq(Str) /\ Len(b) = n /\ \A i \in 1 .. n : v[i] = b[i]
    BY <2>0, Taken
  <2>2. Join(v) = Then(Join(b), last)
    BY <2>0, <2>1, JoinStep
  <2>3. Join(b) = Then(Join(FirstOf(b, c)), Join(RestOf(b, c)))
    BY <2>1
  <2>4. FirstOf(b, c) \in Seq(Str) /\ Len(FirstOf(b, c)) = c /\ RestOf(b, c) \in Seq(Str) /\ Len(RestOf(b, c)) = k + 1
    BY <2>0, <2>1, Taken
  <2>5. RestOf(v, c) \in Seq(Str) /\ Len(RestOf(v, c)) = (k + 1) + 1
    <3>1. RestOf(v, c) \in Seq(Str) /\ Len(RestOf(v, c)) = Len(v) - c
      BY <2>0, Taken, ZenonT(60)
    <3> QED
      BY <2>0, <3>1
  <2>6. FirstOf(b, c) = FirstOf(v, c)
    BY <2>0, <2>1 DEF FirstOf
  <2>7. ASSUME NEW i \in 1 .. k + 1 PROVE RestOf(v, c)[i] = RestOf(b, c)[i]
    <3>1. i \in 1 .. Len(v) - c /\ i \in 1 .. Len(b) - c /\ c + i \in 1 .. n
      BY <2>0, <2>1
    <3>2. RestOf(v, c)[i] = v[c + i]
      BY <3>1 DEF RestOf
    <3> HIDE DEF b
    <3>3. RestOf(b, c)[i] = b[c + i]
      BY <3>1 DEF RestOf
    <3> QED
      BY <2>1, <3>1, <3>2, <3>3
  <2>8. RestOf(v, c)[(k + 1) + 1] = last
    BY <2>0 DEF RestOf
  <2> HIDE DEF b, last, n
  <2>9. Join(RestOf(v, c)) = Then(Join(RestOf(b, c)), last)
    <3> DEFINE m == k + 1
               x == RestOf(v, c)
               y == RestOf(b, c)
    <3>1. m \in Nat \ {0} /\ x \in Seq(Str) /\ y \in Seq(Str) /\ Len(x) = m + 1 /\ Len(y) = m
          /\ x[m + 1] = last /\ \A i \in 1 .. m : x[i] = y[i]
      BY <2>0, <2>4, <2>5, <2>7, <2>8
    <3> HIDE DEF m, x, y
    <3> QED
      BY <3>1, JoinStep DEF x, y
  <2>10. Join(FirstOf(b, c)) \in Str /\ Join(RestOf(b, c)) \in Str /\ last \in Str
    <3>1. FirstOf(b, c) # <<>> /\ RestOf(b, c) # <<>>
      BY <2>0, <2>4
    <3> QED
      BY <2>0, <2>4, <3>1, JoinType DEF last
  <2>11. Then(Then(Join(FirstOf(b, c)), Join(RestOf(b, c))), last) = Then(Join(FirstOf(b, c)), Then(Join(RestOf(b, c)), last))
    BY <2>10, ThenString
  <2> QED
    BY <2>2, <2>3, <2>6, <2>9, <2>11
<1>3. Good = Nat
  <2> HIDE DEF Good
  <2>1. Good \subseteq Nat
    BY DEF Good
  <2> QED
    BY <1>1, <1>2, <2>1, InductionOn
<1>4. (Len(u) - c) - 1 \in Nat /\ Len(u) = (c + ((Len(u) - c) - 1)) + 1
  OBVIOUS
<1>5. (Len(u) - c) - 1 \in Good
  BY <1>3, <1>4
<1> QED
  BY <1>4, <1>5

\* What precedes the first delimiter.
LEMMA FirstSegment ==
  ASSUME NEW s \in HashFree, NEW t \in HashFree, NEW x \in Str, NEW y \in Str,
         Then(s, x) = Then(t, y)
  PROVE  s = t /\ x = y
<1> DEFINE a == <<Hash>> \o x
           b == <<Hash>> \o y
<1>1. s \in Str /\ t \in Str /\ Len(s) \in Nat /\ Len(t) \in Nat
  BY DEF HashFree, Str
<1>2. a \in Str /\ b \in Str /\ Len(a) >= 1 /\ Len(b) >= 1 /\ a[1] = Hash /\ b[1] = Hash
  <2>1. Len(x) \in Nat /\ Len(y) \in Nat /\ 1 \in 1 .. Len(<<Hash>>)
    BY HashString DEF Str
  <2> QED
    BY <2>1, HashString, Concat
<1>3. s \o a = t \o b
  BY DEF Then
<1> HIDE DEF a, b
<1>4. (s \o a)[Len(s) + 1] = Hash /\ (t \o b)[Len(t) + 1] = Hash
  <2>1. 1 \in 1 .. Len(a) /\ 1 \in 1 .. Len(b)
    BY <1>2 DEF Str
  <2>2. (s \o a)[Len(s) + 1] = a[1]
    BY <1>1, <1>2, <2>1, Concat
  <2>3. (t \o b)[Len(t) + 1] = b[1]
    BY <1>1, <1>2, <2>1, Concat
  <2> QED
    BY <1>2, <2>2, <2>3
<1>5. ASSUME Len(s) < Len(t) PROVE FALSE
  <2>1. Len(s) + 1 \in 1 .. Len(t)
    BY <1>1, <1>5
  <2>2. (t \o b)[Len(s) + 1] = t[Len(s) + 1] /\ t[Len(s) + 1] # Hash
    BY <1>1, <1>2, <2>1, Concat DEF HashFree
  <2> QED
    BY <1>3, <1>4, <2>2
<1>6. ASSUME Len(t) < Len(s) PROVE FALSE
  <2>1. Len(t) + 1 \in 1 .. Len(s)
    BY <1>1, <1>6
  <2>2. (s \o a)[Len(t) + 1] = s[Len(t) + 1] /\ s[Len(t) + 1] # Hash
    BY <1>1, <1>2, <2>1, Concat DEF HashFree
  <2> QED
    BY <1>3, <1>4, <2>2
<1>7. Len(s) = Len(t)
  BY <1>1, <1>5, <1>6
<1>8. ASSUME NEW i \in 1 .. Len(s) PROVE s[i] = t[i]
  <2>1. (s \o a)[i] = s[i]
    BY <1>1, <1>2, Concat
  <2>2. (t \o b)[i] = t[i]
    BY <1>1, <1>2, <1>7, Concat
  <2> QED
    BY <1>3, <2>1, <2>2
<1>9. s = t
  BY <1>1, <1>7, <1>8, SameString
<1>10. a = b
  BY <1>1, <1>2, <1>3, <1>9, CancelEqual
<1>11. x = y
  BY <1>10, HashString, CancelEqual DEF a, b
<1> QED
  BY <1>9, <1>11

LEMMA HashFreeSegments ==
  ASSUME NEW u \in Seq(HashFree)
  PROVE  u \in Seq(Str)
<1>1. HashFree \subseteq Str
  BY DEF HashFree
<1> QED
  BY <1>1, SeqMonotonic

\* A key and what follows it, cut behind the first segment.
LEMMA JoinFirst ==
  ASSUME NEW u \in Seq(HashFree), NEW x \in Str, Len(u) >= 2
  PROVE  /\ RestOf(u, 1) \in Seq(HashFree) /\ Len(RestOf(u, 1)) = Len(u) - 1
         /\ \A i \in 1 .. Len(u) - 1 : RestOf(u, 1)[i] = u[i + 1]
         /\ u[1] \in HashFree /\ Then(Join(RestOf(u, 1)), x) \in Str
         /\ Then(Join(u), x) = Then(u[1], Then(Join(RestOf(u, 1)), x))
<1>1. u \in Seq(Str) /\ Len(u) \in Nat /\ 1 \in 0 .. Len(u) /\ 1 \in Nat \ {0} /\ 1 < Len(u)
  BY HashFreeSegments
<1>2. /\ RestOf(u, 1) \in Seq(HashFree) /\ Len(RestOf(u, 1)) = Len(u) - 1
      /\ \A i \in 1 .. Len(u) - 1 : RestOf(u, 1)[i] = u[1 + i]
  <2>1. u \in Seq(HashFree) /\ 1 \in 0 .. Len(u)
    BY <1>1
  <2> QED
    BY <2>1, Taken
<1>3. u[1] \in HashFree /\ u[1] \in Str
  BY <1>1 DEF HashFree
<1>4. Join(FirstOf(u, 1)) = u[1]
  <2>1. FirstOf(u, 1) \in Seq(Str) /\ Len(FirstOf(u, 1)) = 1 /\ \A i \in 1 .. 1 : FirstOf(u, 1)[i] = u[i]
    BY <1>1, Taken
  <2> QED
    BY <2>1, JoinOne
<1>5. Join(RestOf(u, 1)) \in Str
  <2>1. RestOf(u, 1) \in Seq(Str) /\ RestOf(u, 1) # <<>>
    BY <1>1, <1>2, HashFreeSegments
  <2> QED
    BY <2>1, JoinType
<1>6. Join(u) = Then(u[1], Join(RestOf(u, 1)))
  BY <1>1, <1>4, JoinCut
<1>7. Then(Join(u), x) = Then(u[1], Then(Join(RestOf(u, 1)), x)) /\ Then(Join(RestOf(u, 1)), x) \in Str
  <2> DEFINE a == u[1]
             b == Join(RestOf(u, 1))
  <2>1. a \in Str /\ b \in Str /\ Join(u) = Then(a, b)
    BY <1>3, <1>5, <1>6
  <2> HIDE DEF a, b
  <2>2. Then(Then(a, b), x) = Then(a, Then(b, x)) /\ Then(b, x) \in Str
    BY <2>1, ThenString
  <2> QED
    BY <2>1, <2>2 DEF a, b
<1> QED
  BY <1>1, <1>2, <1>3, <1>7

\* Keys that continue one another up to a delimiter have the same segments.
LEMMA JoinTells ==
  ASSUME NEW u \in Seq(HashFree), NEW w \in Seq(HashFree), NEW x \in Str, NEW y \in Str,
         Len(u) >= 1, Len(w) >= Len(u),
         Then(Join(u), x) = Then(Join(w), y)
  PROVE  \A i \in 1 .. Len(u) : u[i] = w[i]
<1> DEFINE P(k) == \A a, b \in Seq(HashFree) : \A r \in Str :
              /\ Len(a) = k + 1 /\ Len(b) >= Len(a)
              /\ Then(Join(a), r) = Then(Join(b), y)
              => \A i \in 1 .. Len(a) : a[i] = b[i]
<1>2. P(0)
  <2> SUFFICES ASSUME NEW a \in Seq(HashFree), NEW b \in Seq(HashFree), NEW r \in Str,
                      Len(a) = 0 + 1, Len(b) >= Len(a),
                      Then(Join(a), r) = Then(Join(b), y)
               PROVE  \A i \in 1 .. Len(a) : a[i] = b[i]
    OBVIOUS
  <2>1. Join(a) = a[1] /\ a[1] \in HashFree
    BY HashFreeSegments, JoinOne
  <2>2. CASE Len(b) = 1
    <3>1. Join(b) = b[1] /\ b[1] \in HashFree
      BY <2>2, HashFreeSegments, JoinOne
    <3> QED
      BY <2>1, <3>1, FirstSegment
  <2>3. CASE Len(b) # 1
    <3>1. Len(b) >= 2
      BY <2>3
    <3> DEFINE t == Then(Join(RestOf(b, 1)), y)
    <3>2. b[1] \in HashFree /\ t \in Str /\ Then(Join(b), y) = Then(b[1], t)
      BY <3>1, JoinFirst
    <3> HIDE DEF t
    <3>3. Then(a[1], r) = Then(b[1], t)
      BY <2>1, <3>2
    <3>4. a[1] = b[1]
      BY <2>1, <3>2, <3>3, FirstSegment
    <3> QED
      BY <3>4
  <2> QED
    BY <2>2, <2>3
<1>3. ASSUME NEW k \in Nat, P(k) PROVE P(k + 1)
  <2> SUFFICES ASSUME NEW a \in Seq(HashFree), NEW b \in Seq(HashFree), NEW r \in Str,
                      Len(a) = (k + 1) + 1, Len(b) >= Len(a),
                      Then(Join(a), r) = Then(Join(b), y)
               PROVE  \A i \in 1 .. Len(a) : a[i] = b[i]
    OBVIOUS
  <2>1. k \in Nat /\ Len(a) >= 2 /\ Len(b) >= 2 /\ Len(b) \in Nat
    OBVIOUS
  <2> DEFINE a1 == RestOf(a, 1)
             b1 == RestOf(b, 1)
             s == Then(Join(a1), r)
             t == Then(Join(b1), y)
  <2>3. /\ a1 \in Seq(HashFree) /\ Len(a1) = Len(a) - 1 /\ \A i \in 1 .. Len(a) - 1 : a1[i] = a[i + 1]
        /\ a[1] \in HashFree /\ s \in Str /\ Then(Join(a), r) = Then(a[1], s)
    BY <2>1, JoinFirst
  <2>4. /\ b1 \in Seq(HashFree) /\ Len(b1) = Len(b) - 1 /\ \A i \in 1 .. Len(b) - 1 : b1[i] = b[i + 1]
        /\ b[1] \in HashFree /\ t \in Str /\ Then(Join(b), y) = Then(b[1], t)
    BY <2>1, JoinFirst
  <2>5. Then(a[1], s) = Then(b[1], t)
    BY <2>3, <2>4
  <2>6. a[1] = b[1] /\ s = t
    <3> HIDE DEF s, t, a1, b1
    <3> QED
      BY <2>3, <2>4, <2>5, FirstSegment
  <2>7. Len(a1) = k + 1 /\ Len(b1) >= Len(a1)
    BY <2>1, <2>3, <2>4
  <2>8. \A i \in 1 .. Len(a1) : a1[i] = b1[i]
    <3>1. Then(Join(a1), r) = Then(Join(b1), y)
      BY <2>6
    <3> HIDE DEF a1, b1
    <3> QED
      BY <1>3, <2>3, <2>4, <2>7, <3>1
  <2>9. ASSUME NEW i \in 1 .. Len(a) PROVE a[i] = b[i]
    <3>1. CASE i = 1
      BY <2>6, <3>1
    <3>2. CASE i # 1
      <4>1. i - 1 \in 1 .. Len(a1) /\ i - 1 \in 1 .. Len(a) - 1 /\ i - 1 \in 1 .. Len(b) - 1 /\ (i - 1) + 1 = i
        BY <2>1, <2>3, <3>2
      <4>2. a1[i - 1] = a[(i - 1) + 1] /\ b1[i - 1] = b[(i - 1) + 1] /\ a1[i - 1] = b1[i - 1]
        BY <2>3, <2>4, <2>8, <4>1
      <4> HIDE DEF a1, b1
      <4> QED
        BY <4>1, <4>2
    <3> QED
      BY <3>1, <3>2
  <2> QED
    BY <2>9
<1> DEFINE S == {k \in Nat : P(k)}
<1> HIDE DEF P
<1>4. S = Nat
  <2>1. S \subseteq Nat /\ 0 \in S /\ \A k \in S : k + 1 \in S
    BY <1>2, <1>3
  <2> HIDE DEF S
  <2> QED
    BY <2>1, InductionOn
<1>5. Len(u) - 1 \in Nat /\ Len(u) = (Len(u) - 1) + 1
  OBVIOUS
<1>6. P(Len(u) - 1)
  BY <1>4, <1>5
<1> QED
  BY <1>5, <1>6 DEF P

LEMMA JoinString ==
  ASSUME NEW u \in Seq(HashFree), Len(u) >= 1
  PROVE  Join(u) \in Str
<1>1. u \in Seq(Str) /\ u # <<>>
  BY HashFreeSegments
<1> QED
  BY <1>1, JoinType

\* A sequence that another begins with is its first part.
LEMMA TakenAll ==
  ASSUME NEW S, NEW u \in Seq(S), NEW w \in Seq(S), Len(u) <= Len(w),
         \A i \in 1 .. Len(u) : u[i] = w[i]
  PROVE  u = FirstOf(w, Len(u))
<1>1. Len(u) \in 0 .. Len(w)
  OBVIOUS
<1>2. FirstOf(w, Len(u)) \in Seq(S) /\ Len(FirstOf(w, Len(u))) = Len(u)
      /\ \A i \in 1 .. Len(u) : FirstOf(w, Len(u))[i] = w[i]
  BY <1>1, Taken
<1> QED
  BY <1>2, SeqEqual

\* What is put before a segment, and the segment.
LEMMA OpenOne ==
  ASSUME NEW s \in Str, NEW x \in Str
  PROVE  s \o <<Hash>> \in Str /\ (s \o <<Hash>>) \o x = Then(s, x)
<1> DEFINE h == <<Hash>>
<1>1. h \in Str
  BY HashString
<1> HIDE DEF h
<1>2. s \o h \in Str
  BY <1>1, Concat
<1>3. (s \o h) \o x = s \o (h \o x)
  BY <1>1, Assoc
<1> QED
  BY <1>2, <1>3 DEF h, Then

\* A string and a delimiter behind it, as a prefix.
LEMMA OpenPrefix ==
  ASSUME NEW s \in Str, NEW t \in Str
  PROVE  IsPrefix(s \o <<Hash>>, t) <=> \E x \in Str : t = Then(s, x)
<1> DEFINE h == s \o <<Hash>>
<1>1. h \in Str /\ \A x \in Str : h \o x = Then(s, x)
  <2>1. <<>> \in Str
    BY DEF Str
  <2> QED
    BY <2>1, OpenOne
<1> HIDE DEF h
<1>2. ASSUME IsPrefix(h, t) PROVE \E x \in Str : t = Then(s, x)
  <2>1. PICK x \in Str : t = h \o x
    BY <1>1, <1>2, PrefixSplit
  <2> QED
    BY <1>1, <2>1
<1>3. ASSUME NEW x \in Str, t = Then(s, x) PROVE IsPrefix(h, t)
  <2>1. IsPrefix(h, h \o x)
    BY <1>1, PrefixOfConcat
  <2> QED
    BY <1>1, <1>3, <2>1
<1> QED
  BY <1>2, <1>3 DEF h

\* Which keys begin with given segments and a delimiter.
LEMMA JoinOpen ==
  ASSUME NEW u \in Seq(HashFree), NEW w \in Seq(HashFree), Len(u) >= 1, Len(u) < Len(w)
  PROVE  /\ IsPrefix(Join(u) \o <<Hash>>, Join(w)) <=> \A i \in 1 .. Len(u) : u[i] = w[i]
         /\ (\A i \in 1 .. Len(u) : u[i] = w[i])
              => Join(w) = Then(Join(u), Join(RestOf(w, Len(u))))
<1>1. Join(u) \in Str /\ Join(w) \in Str
  BY JoinString
<1>2. Len(u) \in 0 .. Len(w) /\ Len(u) \in Nat \ {0} /\ w \in Seq(Str) /\ u \in Seq(Str)
  BY HashFreeSegments
<1>3. RestOf(w, Len(u)) \in Seq(Str) /\ RestOf(w, Len(u)) # <<>>
  <2>1. RestOf(w, Len(u)) \in Seq(Str) /\ Len(RestOf(w, Len(u))) = Len(w) - Len(u)
    BY <1>2, Taken
  <2> QED
    BY <1>2, <2>1
<1>4. Join(RestOf(w, Len(u))) \in Str
  BY <1>3, JoinType
<1>5. ASSUME \A i \in 1 .. Len(u) : u[i] = w[i]
      PROVE  Join(w) = Then(Join(u), Join(RestOf(w, Len(u))))
  <2>1. u = FirstOf(w, Len(u))
    BY <1>2, <1>5, TakenAll
  <2>2. Join(w) = Then(Join(FirstOf(w, Len(u))), Join(RestOf(w, Len(u))))
    BY <1>2, JoinCut
  <2> QED
    BY <2>1, <2>2
<1>6. ASSUME IsPrefix(Join(u) \o <<Hash>>, Join(w))
      PROVE  \A i \in 1 .. Len(u) : u[i] = w[i]
  <2>1. PICK x \in Str : Join(w) = Then(Join(u), x)
    BY <1>1, <1>6, OpenPrefix
  <2>2. <<>> \in Str
    BY DEF Str
  <2>3. Then(x, <<>>) \in Str /\ Then(Join(w), <<>>) = Then(Join(u), Then(x, <<>>))
    BY <1>1, <2>1, <2>2, ThenString
  <2> DEFINE y == Then(x, <<>>)
  <2>4. y \in Str /\ Then(Join(u), y) = Then(Join(w), <<>>) /\ Len(w) >= Len(u)
    BY <1>2, <2>3
  <2> HIDE DEF y
  <2> QED
    BY <2>2, <2>4, JoinTells
<1> QED
  BY <1>1, <1>4, <1>5, <1>6, OpenPrefix

\* Which keys begin with a whole key, or with one cut inside its last segment.
LEMMA JoinFull ==
  ASSUME NEW u \in Seq(HashFree), NEW w \in Seq(HashFree), Len(u) >= 1, Len(u) = Len(w)
  PROVE  IsPrefix(Join(u), Join(w))
           <=> /\ \A i \in 1 .. Len(u) - 1 : u[i] = w[i]
               /\ IsPrefix(u[Len(u)], w[Len(u)])
<1> DEFINE n == Len(u)
           x == u[n]
           y == w[n]
<1>1. n \in Nat \ {0} /\ u \in Seq(Str) /\ w \in Seq(Str) /\ x \in Str /\ y \in Str
  <2>1. n \in Nat \ {0} /\ u \in Seq(Str) /\ w \in Seq(Str) /\ u[n] \in HashFree /\ w[n] \in HashFree
    BY HashFreeSegments
  <2> QED
    BY <2>1 DEF HashFree
<1>2. n = Len(u) /\ n = Len(w)
  OBVIOUS
<1>3. SUFFICES IsPrefix(Join(u), Join(w))
                 <=> /\ \A i \in 1 .. n - 1 : u[i] = w[i]
                     /\ IsPrefix(x, y)
  OBVIOUS
<1>4. x = u[n] /\ y = w[n]
  OBVIOUS
<1> HIDE DEF n, x, y
<1>5. CASE n = 1
  <2>1. Join(u) = u[1] /\ Join(w) = w[1]
    BY <1>1, <1>2, <1>5, JoinOne
  <2> QED
    BY <1>4, <1>5, <2>1
<1>6. CASE n # 1
  <2> DEFINE m == n - 1
             a == FirstOf(u, m)
             b == FirstOf(w, m)
  <2>1. m \in Nat \ {0} /\ n = m + 1 /\ m \in 0 .. Len(u) /\ m \in 0 .. Len(w) /\ m < Len(w)
    BY <1>1, <1>2, <1>6
  <2> HIDE DEF m
  <2>2. a \in Seq(HashFree) /\ Len(a) = m /\ \A i \in 1 .. m : a[i] = u[i]
    BY <2>1, Taken
  <2>3. b \in Seq(HashFree) /\ Len(b) = m /\ \A i \in 1 .. m : b[i] = w[i]
    BY <2>1, Taken
  <2> HIDE DEF a, b
  <2> DEFINE ja == Join(a)
             jb == Join(b)
             p == ja \o <<Hash>>
  <2>4. a \in Seq(Str) /\ b \in Seq(Str) /\ ja \in Str /\ Join(u) \in Str /\ Join(w) \in Str
    <3>1. Len(a) >= 1 /\ Len(u) >= 1
      BY <1>1, <1>2, <2>1, <2>2
    <3>2. Join(a) \in Str /\ Join(u) \in Str /\ Join(w) \in Str
      BY <2>2, <3>1, JoinString
    <3> QED
      BY <2>2, <2>3, <3>2, HashFreeSegments
  <2>5. Join(u) = Then(ja, x)
    <3>1. Len(u) = m + 1 /\ Len(a) = m /\ u[m + 1] = x /\ \A i \in 1 .. m : u[i] = a[i]
      BY <1>1, <1>2, <1>4, <2>1, <2>2
    <3>2. u \in Seq(Str) /\ a \in Seq(Str) /\ m \in Nat \ {0}
      BY <1>1, <2>1, <2>4
    <3> QED
      BY <3>1, <3>2, JoinStep
  <2>6. Join(w) = Then(jb, y)
    <3>1. Len(w) = m + 1 /\ Len(b) = m /\ w[m + 1] = y /\ \A i \in 1 .. m : w[i] = b[i]
      BY <1>1, <1>2, <1>4, <2>1, <2>3
    <3>2. w \in Seq(Str) /\ b \in Seq(Str) /\ m \in Nat \ {0}
      BY <1>1, <2>1, <2>4
    <3> QED
      BY <3>1, <3>2, JoinStep
  <2>7. ASSUME IsPrefix(Join(u), Join(w)) PROVE \A i \in 1 .. m : u[i] = w[i]
    <3>1. PICK r \in Str : Join(w) = Join(u) \o r
      BY <2>4, <2>7, PrefixSplit
    <3> HIDE DEF ja
    <3>2. x \o r \in Str
      BY <1>1, Concat
    <3>3. Then(ja, x) \o r = Then(ja, x \o r)
      <4>1. ja \in Str /\ x \in Str /\ r \in Str
        BY <1>1, <2>4
      <4> QED
        BY <4>1, ThenString, ZenonT(60)
    <3>4. IsPrefix(ja \o <<Hash>>, Join(w))
      BY <2>4, <2>5, <3>1, <3>2, <3>3, OpenPrefix
    <3>5. Len(a) >= 1 /\ Len(a) < Len(w)
      BY <2>1, <2>2
    <3>6. \A i \in 1 .. Len(a) : a[i] = w[i]
      BY <2>2, <3>4, <3>5, JoinOpen DEF ja
    <3> QED
      BY <2>2, <3>6
  <2>8. ASSUME \A i \in 1 .. m : u[i] = w[i]
        PROVE  IsPrefix(Join(u), Join(w)) <=> IsPrefix(x, y)
    <3>1. a = b
      BY <2>2, <2>3, <2>8, SeqEqual
    <3>2. ja = jb
      BY <3>1
    <3> HIDE DEF ja, jb
    <3>3. p \in Str /\ p \o x = Then(ja, x) /\ p \o y = Then(ja, y)
      <4>1. ja \in Str /\ x \in Str /\ y \in Str
        BY <1>1, <2>4
      <4>2. p \in Str /\ p \o x = Then(ja, x)
        BY <4>1, OpenOne
      <4>3. p \o y = Then(ja, y)
        BY <4>1, OpenOne
      <4> QED
        BY <4>2, <4>3
    <3> HIDE DEF p
    <3>4. IsPrefix(p \o x, p \o y) <=> IsPrefix(x, y)
      BY <1>1, <3>3, CancelPrefix
    <3> QED
      BY <2>5, <2>6, <3>2, <3>3, <3>4
  <2> QED
    BY <2>7, <2>8 DEF m
<1> QED
  BY <1>5, <1>6

\* Keys of the same number of segments are the same if all segments are.
LEMMA JoinSame ==
  ASSUME NEW u \in Seq(HashFree), NEW w \in Seq(HashFree), Len(u) >= 1, Len(u) = Len(w)
  PROVE  Join(u) = Join(w) <=> \A i \in 1 .. Len(u) : u[i] = w[i]
<1>1. Len(u) \in Nat /\ u[Len(u)] \in Str /\ Join(u) \in Str
  BY JoinString DEF HashFree
<1>2. ASSUME Join(u) = Join(w) PROVE \A i \in 1 .. Len(u) : u[i] = w[i]
  <2>1. IsPrefix(Join(u), Join(w)) /\ IsPrefix(Join(w), Join(u))
    BY <1>1, <1>2, PrefixSelf
  <2>2. /\ \A i \in 1 .. Len(u) - 1 : u[i] = w[i]
        /\ IsPrefix(u[Len(u)], w[Len(u)]) /\ IsPrefix(w[Len(u)], u[Len(u)])
    BY <2>1, JoinFull
  <2>3. u[Len(u)] \in Str /\ w[Len(u)] \in Str
    BY DEF HashFree
  <2>4. u[Len(u)] = w[Len(u)]
    BY <2>2, <2>3, PrefixBothWays
  <2> QED
    BY <1>1, <2>2, <2>4
<1>3. ASSUME \A i \in 1 .. Len(u) : u[i] = w[i] PROVE Join(u) = Join(w)
  <2>1. u = w
    BY <1>3, SeqEqual
  <2> QED
    BY <2>1
<1> QED
  BY <1>2, <1>3

\* A string is not that of some of its segments.
LEMMA NoLonger ==
  ASSUME NEW u \in Seq(HashFree), NEW w \in Seq(HashFree), Len(u) >= 1, Len(u) <= Len(w), Join(u) = Join(w)
  PROVE  u = w
<1> DEFINE n == Len(u)
           v == FirstOf(w, n)
           r == RestOf(w, n)
<1>1. n \in Nat \ {0} /\ Len(w) \in Nat /\ n \in 0 .. Len(w) /\ u \in Seq(Str) /\ w \in Seq(Str)
  BY HashFreeSegments
<1>2. Join(u) \in Str /\ Join(w) \in Str /\ <<>> \in Str
  <2>1. <<>> \in Str
    BY DEF Str
  <2> QED
    BY <1>1, <2>1, JoinString
<1>3. \A i \in 1 .. n : u[i] = w[i]
  <2>1. Then(Join(u), <<>>) = Then(Join(w), <<>>)
    OBVIOUS
  <2> QED
    BY <1>2, <2>1, JoinTells
<1>4. v \in Seq(HashFree) /\ Len(v) = n /\ r \in Seq(HashFree) /\ Len(r) = Len(w) - n
  BY <1>1, Taken
<1>5. u = v
  BY <1>3, TakenAll
<1>6. CASE n < Len(w)
  <2>1. Join(w) = Then(Join(v), Join(r))
    BY <1>1, <1>6, JoinCut
  <2>2. Join(r) \in Str
    BY <1>1, <1>4, <1>6, JoinString
  <2>3. Join(w) = Join(u) \o (<<Hash>> \o Join(r))
    BY <1>5, <2>1 DEF Then
  <2> DEFINE x == Join(u)
             y == Join(r)
  <2>4. x \in Str /\ y \in Str /\ <<Hash>> \in Str
    BY <1>2, <2>2, HashString
  <2>5. Join(w) = x \o (<<Hash>> \o y)
    BY <2>3
  <2> HIDE DEF x, y
  <2>6. Len(<<Hash>> \o y) = 1 + Len(y) /\ <<Hash>> \o y \in Str
    BY <2>4, HashString, Concat
  <2>7. Len(x \o (<<Hash>> \o y)) = Len(x) + (1 + Len(y))
    BY <2>4, <2>6, Concat
  <2>8. Len(x) \in Nat /\ Len(y) \in Nat
    BY <2>4 DEF Str
  <2> QED
    BY <2>5, <2>7, <2>8 DEF x
<1>7. CASE n = Len(w)
  <2>1. \A i \in 1 .. Len(u) : u[i] = w[i]
    BY <1>3
  <2> QED
    BY <1>7, <2>1, SeqEqual
<1> QED
  BY <1>1, <1>6, <1>7

\* A stored string tells its segments, and how many they are: two keys never
\* join to one string, since CheckSegment keeps the delimiter out of segments.
THEOREM SegmentsTell ==
  ASSUME NEW u \in Seq(HashFree), NEW w \in Seq(HashFree), Len(u) >= 1, Len(w) >= 1, Join(u) = Join(w)
  PROVE  u = w
<1>1. Len(u) \in Nat /\ Len(w) \in Nat
  OBVIOUS
<1>2. Len(u) <= Len(w) \/ Len(w) <= Len(u)
  BY <1>1
<1> QED
  BY <1>2, NoLonger

\* Heads of as many segments whose last ones are as long are decided.
LEMMA HeadsDecided ==
  ASSUME NEW u \in Seq(HashFree), NEW w \in Seq(HashFree), Len(u) >= 1, Len(u) = Len(w),
         Len(u[Len(u)]) = Len(w[Len(u)])
  PROVE  Decided(Join(u), Join(w))
<1>1. Len(u) \in Nat /\ u[Len(u)] \in Str /\ w[Len(u)] \in Str /\ Join(u) \in Str /\ Join(w) \in Str
  BY JoinString DEF HashFree
<1>2. ASSUME IsPrefix(Join(u), Join(w)) PROVE Join(u) = Join(w)
  <2>1. /\ \A i \in 1 .. Len(u) - 1 : u[i] = w[i]
        /\ IsPrefix(u[Len(u)], w[Len(u)])
    BY <1>2, JoinFull
  <2>2. u[Len(u)] = w[Len(u)]
    BY <1>1, <2>1, SameString, PrefixPlaces
  <2> QED
    BY <1>1, <2>1, <2>2, JoinSame
<1>3. ASSUME IsPrefix(Join(w), Join(u)) PROVE Join(u) = Join(w)
  <2>1. /\ \A i \in 1 .. Len(u) - 1 : w[i] = u[i]
        /\ IsPrefix(w[Len(u)], u[Len(u)])
    BY <1>3, JoinFull
  <2>2. u[Len(u)] = w[Len(u)]
    BY <1>1, <2>1, SameString, PrefixPlaces
  <2> QED
    BY <1>1, <2>1, <2>2, JoinSame
<1> QED
  BY <1>1, <1>2, <1>3, Compare DEF Decided

\* A key is its head and what may follow a head.
LEMMA HeadAndRest ==
  ASSUME NEW w \in Seq(HashFree), NEW n \in Nat \ {0}, n <= Len(w)
  PROVE  /\ FirstOf(w, n) \in Seq(HashFree) /\ Len(FirstOf(w, n)) = n
         /\ \A i \in 1 .. n : FirstOf(w, n)[i] = w[i]
         /\ \E r \in Str : BelowSuffix(r) /\ Join(w) = Join(FirstOf(w, n)) \o r
<1>0. n \in 0 .. Len(w)
  OBVIOUS
<1>1. FirstOf(w, n) \in Seq(HashFree) /\ Len(FirstOf(w, n)) = n /\ \A i \in 1 .. n : FirstOf(w, n)[i] = w[i]
  BY <1>0, Taken
<1>2. CASE n = Len(w)
  <2>1. w = FirstOf(w, n)
    BY <1>1, <1>2, SeqEqual
  <2>2. Join(w) \in Str
    BY <1>2, JoinString
  <2>3. <<>> \in Str /\ BelowSuffix(<<>>) /\ Join(w) = Join(w) \o <<>>
    BY <2>2, ConcatEmptySeq DEF Str, BelowSuffix
  <2> QED
    BY <1>1, <2>1, <2>3
<1>3. CASE n < Len(w)
  <2>1. w \in Seq(Str) /\ n \in 0 .. Len(w)
    BY HashFreeSegments
  <2>2. RestOf(w, n) \in Seq(Str) /\ Len(RestOf(w, n)) = Len(w) - n
    BY <2>1, Taken
  <2>3. RestOf(w, n) # <<>>
    BY <1>3, <2>1, <2>2
  <2>4. Join(RestOf(w, n)) \in Str
    BY <2>2, <2>3, JoinType
  <2> DEFINE r == <<Hash>> \o Join(RestOf(w, n))
  <2>5. r \in Str /\ r[1] = Hash
    BY <2>4, HashString, Concat
  <2>6. BelowSuffix(r)
    BY <2>5 DEF BelowSuffix, MaxKeySuffix, Hash
  <2>7. Join(w) = Join(FirstOf(w, n)) \o r
    BY <1>3, <2>1, JoinCut DEF Then
  <2> QED
    BY <1>1, <2>5, <2>6, <2>7
<1>4. n = Len(w) \/ n < Len(w)
  BY <1>0
<1> QED
  BY <1>2, <1>3, <1>4

------------------------------------------------------------------------------
(* Conditions on keys that begin with a scope (runtime/query.go).           *)

\* A key is at least a lower bound and the suffix if its head is above it.
LEMMA HeadAfterSuffix ==
  ASSUME NEW h \in Str, NEW v \in Str, NEW r \in Str, Decided(h, v), BelowSuffix(r)
  PROVE  AtMost(v \o MaxKeySuffix, h \o r) <=> Less(v, h)
<1> DEFINE m == MaxKeySuffix
           a == v \o m
           b == h \o r
<1>1. m \in Str /\ Less(r, m)
  BY Suffix
<1>2. a \in Str /\ b \in Str
  <2> HIDE DEF m
  <2> QED
    BY <1>1, Concat
<1>3. AtMost(a, b) <=> ~Less(b, a)
  BY <1>2, AtMostIff
<1>4. CASE h = v
  <2>1. Less(h \o r, h \o m)
    BY <1>1, CancelPrefix
  <2>2. ~Less(v, h)
    BY <1>4, SameLengthLess
  <2> QED
    BY <1>3, <1>4, <2>1, <2>2
<1>5. CASE Splits(h, v)
  <2>1. Splits(b, a)
    <3> HIDE DEF m
    <3> QED
      BY <1>1, <1>5, SplitsOfConcat
  <2>2. Less(h, v) /\ ~Less(v, h)
    BY <1>5, LessIff, SplitsOneWay
  <2> HIDE DEF a, b
  <2>3. Less(b, a)
    BY <1>2, <2>1, LessIff
  <2> QED
    BY <1>3, <2>2, <2>3 DEF a, b
<1>6. CASE Splits(v, h)
  <2>1. Splits(a, b)
    <3> HIDE DEF m
    <3> QED
      BY <1>1, <1>6, SplitsOfConcat
  <2>2. Less(v, h)
    BY <1>6, LessIff
  <2> HIDE DEF a, b
  <2>3. ~Less(b, a)
    BY <1>2, <2>1, LessIff, SplitsOneWay
  <2> QED
    BY <1>3, <2>2, <2>3 DEF a, b
<1> QED
  BY <1>4, <1>5, <1>6 DEF Decided

\* Text that begins below the suffix.
Low(x) == x \in Str /\ x # <<>> /\ x[1] < MaxKeySuffix[1]

\* A key below the suffix stays so, whatever follows.
LEMMA LowText ==
  ASSUME NEW x, Low(x), NEW r \in Str
  PROVE  /\ x \o r \in Str
         /\ AtMost(x \o r, MaxKeySuffix) /\ ~Less(MaxKeySuffix, x \o r)
         /\ AtMost(x, MaxKeySuffix) /\ ~Less(MaxKeySuffix, x)
<1>1. x \in Str /\ Len(x) \in Nat /\ 1 \in 1 .. Len(x) /\ x[1] < MaxKeySuffix[1]
  BY DEF Low, Str
<1>2. x \o r \in Str /\ (x \o r)[1] = x[1]
  BY <1>1, Concat
<1>3. BelowSuffix(x \o r) /\ BelowSuffix(x)
  BY <1>1, <1>2 DEF BelowSuffix
<1>4. MaxKeySuffix \in Str /\ Less(x, MaxKeySuffix) /\ ~Less(MaxKeySuffix, x)
  BY <1>1, <1>3, Suffix
<1>5. Less(x \o r, MaxKeySuffix) /\ ~Less(MaxKeySuffix, x \o r)
  BY <1>2, <1>3, Suffix
<1> QED
  BY <1>2, <1>4, <1>5 DEF AtMost

\* A key after an opening: where it lies between bounds with the opening.
LEMMA Opened ==
  ASSUME NEW P \in Str, NEW a \in Str, NEW b \in Str
  PROVE  /\ P \o a \in Str
         /\ Less(P \o a, P \o b) <=> Less(a, b)
         /\ AtMost(P \o a, P \o b) <=> AtMost(a, b)
         /\ AtMost(P, P \o a)
<1>1. P \o a \in Str /\ P \o b \in Str
  BY Concat
<1>2. Less(P \o a, P \o b) <=> Less(a, b)
  BY CancelPrefix
<1>3. P \o a = P \o b <=> a = b
  BY CancelEqual
<1>4. AtMost(P, P \o a)
  <2>1. IsPrefix(P, P \o a)
    BY PrefixOfConcat
  <2> QED
    BY <1>1, <2>1, LessIff DEF AtMost
<1> QED
  BY <1>1, <1>2, <1>3, <1>4 DEF AtMost

LEMMA NoOpening ==
  ASSUME NEW s \in Str
  PROVE  <<>> \o s = s /\ IsPrefix(<<>>, s) /\ <<>> \in Str
<1>1. <<>> \in Str /\ <<>> \o s = s
  BY DEF Str
<1> QED
  BY <1>1, PrefixOfConcat

------------------------------------------------------------------------------
(* What the conditions match, of keys that begin with the scope.           *)

\* Exclusive lower bounds: never refused, true of the keys whose head is above,
\* and of no key outside the scope.
LEMMA AfterMatches ==
  ASSUME NEW P \in Str, NEW y, Low(y)
  PROVE  /\ Accepts(SKAfter(P, P \o y))
         /\ \A x, r : Low(x) /\ r \in Str /\ BelowSuffix(r) /\ Decided(x, y) =>
              (Matches(SKAfter(P, P \o y), P \o (x \o r)) <=> Less(y, x))
         /\ \A s \in Str : Matches(SKAfter(P, P \o y), s) => IsPrefix(P, s)
<1> DEFINE m == MaxKeySuffix
           lo == (P \o y) \o m
           hi == P \o m
<1>1. y \in Str /\ m \in Str /\ y \o m \in Str
  <2>1. m \in Str /\ y \in Str
    BY DEF MaxKeySuffix, Str, Low
  <2> HIDE DEF m
  <2> QED
    BY <2>1, Concat
<1>2. AtMost(y \o m, m) /\ ~Less(m, y \o m)
  BY <1>1, LowText
<1> HIDE DEF m
<1>3. lo = P \o (y \o m) /\ lo \in Str /\ hi \in Str
  <2>1. lo = P \o (y \o m)
    BY <1>1, Assoc
  <2>2. P \o (y \o m) \in Str
    BY <1>1, Concat
  <2>3. P \o m \in Str
    BY <1>1, Concat
  <2> QED
    BY <2>1, <2>2, <2>3
<1>4. AtMost(lo, hi) /\ ~Less(hi, lo)
  <2>1. AtMost(P \o (y \o m), P \o m)
    BY <1>1, <1>2, Opened
  <2>2. ~Less(P \o m, P \o (y \o m))
    BY <1>1, <1>2, Opened
  <2> QED
    BY <1>3, <2>1, <2>2
<1> DEFINE c == SKAfter(P, P \o y)
<1>5. c = IF P = <<>> THEN SKCond("gt", lo, <<>>) ELSE SKCond("between", lo, hi)
  BY <1>4 DEF SKAfter, m
<1> HIDE DEF lo, hi, c
<1>6. Accepts(c)
  BY <1>4, <1>5 DEF Accepts, SKCond
<1>7. \A s : Matches(c, s) <=> IF P = <<>> THEN Less(lo, s) ELSE AtMost(lo, s) /\ AtMost(s, hi)
  BY <1>5 DEF Matches, SKCond
<1>8. ASSUME NEW x, NEW r, Low(x), r \in Str, BelowSuffix(r), Decided(x, y)
      PROVE  Matches(c, P \o (x \o r)) <=> Less(y, x)
  <2> DEFINE k == x \o r
  <2>1. x \in Str /\ k \in Str /\ AtMost(k, m)
    BY <1>8, LowText DEF Low, m
  <2>2. Less(y \o m, k) <=> Less(y, x)
    BY <1>1, <1>8, <2>1, HeadsCompare DEF m
  <2>3. AtMost(y \o m, k) <=> Less(y, x)
    BY <1>1, <1>8, <2>1, HeadAfterSuffix DEF m
  <2> HIDE DEF k
  <2>4. Less(P \o (y \o m), P \o k) <=> Less(y \o m, k)
    BY <1>1, <2>1, Opened
  <2>5. AtMost(P \o (y \o m), P \o k) <=> AtMost(y \o m, k)
    BY <1>1, <2>1, Opened
  <2>6. AtMost(P \o k, P \o m) <=> AtMost(k, m)
    BY <1>1, <2>1, Opened
  <2> QED
    BY <1>3, <1>7, <2>1, <2>2, <2>3, <2>4, <2>5, <2>6 DEF k, hi
<1>9. ASSUME NEW s \in Str, Matches(c, s) PROVE IsPrefix(P, s)
  <2>1. CASE P = <<>>
    BY <2>1, NoOpening
  <2>2. CASE P # <<>>
    <3>1. AtMost(P \o (y \o m), s) /\ AtMost(s, P \o m)
      BY <1>3, <1>7, <1>9, <2>2 DEF hi
    <3> QED
      BY <1>1, <3>1, PrefixBetween
  <2> QED
    BY <2>1, <2>2
<1> QED
  BY <1>6, <1>8, <1>9 DEF c

\* Inclusive lower bounds.
LEMMA OnOrAfterMatches ==
  ASSUME NEW P \in Str, NEW y, Low(y)
  PROVE  /\ Accepts(SKOnOrAfter(P, P \o y))
         /\ \A x, r : Low(x) /\ r \in Str /\ BelowSuffix(r) /\ Decided(x, y) =>
              (Matches(SKOnOrAfter(P, P \o y), P \o (x \o r)) <=> ~Less(x, y))
         /\ \A s \in Str : Matches(SKOnOrAfter(P, P \o y), s) => IsPrefix(P, s)
<1> DEFINE m == MaxKeySuffix
           lo == P \o y
           hi == P \o m
           c == SKOnOrAfter(P, lo)
<1>1. y \in Str /\ m \in Str /\ AtMost(y, m) /\ ~Less(m, y)
  <2>1. m \in Str /\ y \in Str
    BY DEF MaxKeySuffix, Str, Low
  <2> QED
    BY <2>1, LowText
<1> HIDE DEF m
<1>2. AtMost(lo, hi)
  BY <1>1, Opened
<1>3. ~Less(hi, lo)
  BY <1>1, Opened
<1>4. c = IF P = <<>> THEN SKCond("gte", lo, <<>>) ELSE SKCond("between", lo, hi)
  BY <1>3 DEF SKOnOrAfter, m
<1> HIDE DEF lo, hi, c
<1>5. Accepts(c)
  BY <1>2, <1>4 DEF Accepts, SKCond
<1>6. \A s : Matches(c, s) <=> IF P = <<>> THEN AtMost(lo, s) ELSE AtMost(lo, s) /\ AtMost(s, hi)
  BY <1>4 DEF Matches, SKCond
<1>7. ASSUME NEW x, NEW r, Low(x), r \in Str, BelowSuffix(r), Decided(x, y)
      PROVE  Matches(c, P \o (x \o r)) <=> ~Less(x, y)
  <2> DEFINE k == x \o r
  <2>1. x \in Str /\ k \in Str /\ AtMost(k, m)
    BY <1>7, LowText DEF Low, m
  <2>2. AtMost(y, k) <=> ~Less(x, y)
    BY <1>1, <1>7, <2>1, HeadsCompare
  <2> HIDE DEF k
  <2>3. AtMost(P \o y, P \o k) <=> AtMost(y, k)
    BY <1>1, <2>1, Opened
  <2>4. AtMost(P \o k, P \o m) <=> AtMost(k, m)
    BY <1>1, <2>1, Opened
  <2> QED
    BY <1>6, <2>1, <2>2, <2>3, <2>4 DEF k, hi, lo
<1>8. ASSUME NEW s \in Str, Matches(c, s) PROVE IsPrefix(P, s)
  <2>1. CASE P = <<>>
    BY <2>1, NoOpening
  <2>2. CASE P # <<>>
    <3>1. AtMost(P \o y, s) /\ AtMost(s, P \o m)
      BY <1>6, <1>8, <2>2 DEF hi, lo
    <3> QED
      BY <1>1, <3>1, PrefixBetween
  <2> QED
    BY <2>1, <2>2
<1> QED
  BY <1>5, <1>7, <1>8 DEF c, lo

\* Inclusive upper bounds.
LEMMA OnOrBeforeMatches ==
  ASSUME NEW P \in Str, NEW y, y \in Str
  PROVE  /\ Accepts(SKOnOrBefore(P, P \o y))
         /\ \A x, r : x \in Str /\ r \in Str /\ BelowSuffix(r) /\ Decided(x, y) =>
              (Matches(SKOnOrBefore(P, P \o y), P \o (x \o r)) <=> ~Less(y, x))
         /\ \A s \in Str : Matches(SKOnOrBefore(P, P \o y), s) => IsPrefix(P, s)
<1> DEFINE m == MaxKeySuffix
           hi == (P \o y) \o m
           c == SKOnOrBefore(P, P \o y)
<1>1. m \in Str /\ y \o m \in Str
  <2>1. m \in Str
    BY DEF MaxKeySuffix, Str
  <2> HIDE DEF m
  <2> QED
    BY <2>1, Concat
<1>2. c = IF P = <<>> THEN SKCond("lte", hi, <<>>) ELSE SKCond("between", P, hi)
  BY DEF SKOnOrBefore
<1> HIDE DEF m
<1>3. hi = P \o (y \o m)
  BY <1>1, Assoc
<1> HIDE DEF hi, c
<1>4. AtMost(P, hi)
  BY <1>1, <1>3, Opened
<1>5. Accepts(c)
  BY <1>2, <1>4 DEF Accepts, SKCond
<1>6. \A s : Matches(c, s) <=> IF P = <<>> THEN AtMost(s, hi) ELSE AtMost(P, s) /\ AtMost(s, hi)
  BY <1>2 DEF Matches, SKCond
<1>7. ASSUME NEW x, NEW r, x \in Str, r \in Str, BelowSuffix(r), Decided(x, y)
      PROVE  Matches(c, P \o (x \o r)) <=> ~Less(y, x)
  <2> DEFINE k == x \o r
  <2>1. k \in Str
    BY <1>7, Concat
  <2>2. AtMost(k, y \o m) <=> ~Less(y, x)
    BY <1>7, HeadsCompare DEF m
  <2> HIDE DEF k
  <2>3. AtMost(P \o k, P \o (y \o m)) <=> AtMost(k, y \o m)
    BY <1>1, <2>1, Opened
  <2>4. AtMost(P, P \o k)
    BY <2>1, Opened
  <2> QED
    BY <1>3, <1>6, <2>2, <2>3, <2>4 DEF k
<1>8. ASSUME NEW s \in Str, Matches(c, s) PROVE IsPrefix(P, s)
  <2>1. CASE P = <<>>
    BY <2>1, NoOpening
  <2>2. CASE P # <<>>
    <3>1. <<>> \in Str /\ P \o <<>> = P
      BY DEF Str
    <3>2. AtMost(P \o <<>>, s) /\ AtMost(s, P \o (y \o m))
      BY <1>3, <1>6, <1>8, <2>2, <3>1
    <3> QED
      BY <1>1, <3>1, <3>2, PrefixBetween
  <2> QED
    BY <2>1, <2>2
<1> QED
  BY <1>5, <1>7, <1>8 DEF c

\* q is the predecessor of y among texts such as x, when there is one.
PredecessorTells(x, y, q, ok) ==
  IF ok THEN Decided(x, q) /\ (Less(x, y) <=> ~Less(q, x)) ELSE ~Less(x, y)

\* Exclusive upper bounds.  With a scope the bound is the predecessor and the
\* suffix: right if the predecessor tells what is below the bound.
LEMMA BeforeMatches ==
  ASSUME NEW P \in Str, NEW y, NEW q, NEW ok, NEW bound, NEW pred, y \in Str, bound = P \o y,
         ok \in BOOLEAN, ok /\ P # <<>> => q \in Str /\ pred = P \o q
  PROVE  /\ Accepts(SKBefore(P, bound, pred, ok))
         /\ \A x, r : x \in Str /\ r \in Str /\ BelowSuffix(r) /\ Decided(x, y) /\
                      (P # <<>> => PredecessorTells(x, y, q, ok)) =>
              (Matches(SKBefore(P, bound, pred, ok), P \o (x \o r)) <=> Less(x, y))
         /\ \A s \in Str : Matches(SKBefore(P, bound, pred, ok), s) => IsPrefix(P, s)
<1> DEFINE m == MaxKeySuffix
           hi == pred \o m
           c == SKBefore(P, bound, pred, ok)
<1>1. m \in Str
  BY DEF MaxKeySuffix, Str
<1>2. c = IF P = <<>> THEN SKCond("lt", bound, <<>>)
          ELSE IF ok THEN SKCond("between", P, hi) ELSE SKEmpty
  BY DEF SKBefore
<1> HIDE DEF m, c
<1>3. ASSUME ok, P # <<>> PROVE q \o m \in Str /\ hi = P \o (q \o m) /\ AtMost(P, hi)
  <2>1. q \in Str /\ pred = P \o q
    BY <1>3
  <2>2. q \o m \in Str
    BY <1>1, <2>1, Concat
  <2>3. (P \o q) \o m = P \o (q \o m)
    BY <1>1, <2>1, Assoc
  <2>4. AtMost(P, P \o (q \o m))
    BY <2>2, Opened
  <2> QED
    BY <2>1, <2>2, <2>3, <2>4
<1> HIDE DEF hi
<1>4. Accepts(c)
  BY <1>2, <1>3 DEF Accepts, SKCond, SKEmpty
<1>5. \A s : Matches(c, s) <=> IF P = <<>> THEN Less(s, bound) ELSE ok /\ AtMost(P, s) /\ AtMost(s, hi)
  BY <1>2 DEF Matches, SKCond, SKEmpty
<1>6. ASSUME NEW x, NEW r, x \in Str, r \in Str, BelowSuffix(r), Decided(x, y),
             P # <<>> => PredecessorTells(x, y, q, ok)
      PROVE  Matches(c, P \o (x \o r)) <=> Less(x, y)
  <2> DEFINE k == x \o r
  <2>1. k \in Str
    BY <1>6, Concat
  <2>2. CASE P = <<>>
    <3>1. Less(k, y) <=> Less(x, y)
      BY <1>6, HeadsCompare
    <3> HIDE DEF k
    <3>2. Less(P \o k, P \o y) <=> Less(k, y)
      BY <2>1, Opened
    <3> QED
      BY <1>5, <2>2, <3>1, <3>2 DEF k
  <2>3. CASE P # <<>> /\ ok
    <3>1. AtMost(k, q \o m) <=> ~Less(q, x)
      BY <1>3, <1>6, <2>3, HeadsCompare DEF m, PredecessorTells
    <3> HIDE DEF k
    <3>2. AtMost(P \o k, P \o (q \o m)) <=> AtMost(k, q \o m)
      BY <1>3, <2>1, <2>3, Opened
    <3>3. AtMost(P, P \o k)
      BY <2>1, Opened
    <3> QED
      BY <1>3, <1>5, <1>6, <2>3, <3>1, <3>2, <3>3 DEF k, PredecessorTells
  <2>4. CASE P # <<>> /\ ~ok
    BY <1>5, <1>6, <2>4 DEF PredecessorTells
  <2> QED
    BY <2>2, <2>3, <2>4
<1>7. ASSUME NEW s \in Str, Matches(c, s) PROVE IsPrefix(P, s)
  <2>1. CASE P = <<>>
    BY <2>1, NoOpening
  <2>2. CASE P # <<>>
    <3>1. <<>> \in Str /\ P \o <<>> = P
      BY DEF Str
    <3>2. AtMost(P \o <<>>, s) /\ AtMost(s, P \o (q \o m)) /\ q \o m \in Str
      BY <1>3, <1>5, <1>7, <2>2, <3>1
    <3> QED
      BY <3>1, <3>2, PrefixBetween
  <2> QED
    BY <2>1, <2>2
<1> QED
  BY <1>4, <1>6, <1>7 DEF c

\* Two inclusive bounds of the same length.
LEMMA BetweenMatches ==
  ASSUME NEW P \in Str, NEW lo, NEW hi, NEW n, lo \in Str, hi \in Str, Len(lo) = n, Len(hi) = n
  PROVE  /\ Accepts(SKBetween(P \o lo, P \o hi))
         /\ \A x, r : x \in Str /\ r \in Str /\ BelowSuffix(r) /\ Len(x) = n =>
              (Matches(SKBetween(P \o lo, P \o hi), P \o (x \o r)) <=> ~Less(x, lo) /\ ~Less(hi, x))
         /\ \A s \in Str : Matches(SKBetween(P \o lo, P \o hi), s) => IsPrefix(P, s)
<1> DEFINE m == MaxKeySuffix
           a == P \o lo
           b == P \o hi
           top == b \o m
           c == SKBetween(a, b)
<1>1. m \in Str /\ hi \o m \in Str
  <2>1. m \in Str
    BY DEF MaxKeySuffix, Str
  <2> HIDE DEF m
  <2> QED
    BY <2>1, Concat
<1>2. c = IF Less(b, a) THEN SKEmpty ELSE SKCond("between", a, top)
  BY DEF SKBetween
<1> HIDE DEF m, c
<1>3. Less(b, a) <=> Less(hi, lo)
  BY Opened
<1>4. top = P \o (hi \o m)
  BY <1>1, Assoc, SMTT(60)
<1>5. ~Less(hi, lo) => AtMost(a, top)
  <2>1. ~Less(hi, lo) => AtMost(lo, hi \o m)
    <3>1. AtMost(lo, hi) /\ AtMost(hi, hi \o m) => AtMost(lo, hi \o m)
      <4>1. CASE lo = hi
        BY <4>1
      <4>2. CASE Splits(lo, hi)
        <5>1. <<>> \in Str /\ lo \o <<>> = lo
          BY DEF Str
        <5>2. Splits(lo \o <<>>, hi \o m)
          BY <1>1, <4>2, <5>1, SplitsOfConcat
        <5>3. Less(lo, hi \o m)
          BY <1>1, <5>1, <5>2, LessIff
        <5> QED
          BY <5>3 DEF AtMost
      <4> QED
        BY <4>1, <4>2, SameLengthLess DEF AtMost
    <3>2. AtMost(hi, hi \o m)
      BY <1>1, Opened
    <3> QED
      BY <3>1, <3>2, AtMostIff
  <2>2. AtMost(P \o lo, P \o (hi \o m)) <=> AtMost(lo, hi \o m)
    BY <1>1, Opened
  <2> QED
    BY <1>4, <2>1, <2>2
<1> HIDE DEF a, b, top
<1>6. Accepts(c)
  BY <1>2, <1>3, <1>5 DEF Accepts, SKCond, SKEmpty
<1>7. \A s : Matches(c, s) <=> ~Less(hi, lo) /\ AtMost(a, s) /\ AtMost(s, top)
  BY <1>2, <1>3 DEF Matches, SKCond, SKEmpty
<1>8. ASSUME NEW x, NEW r, x \in Str, r \in Str, BelowSuffix(r), Len(x) = n
      PROVE  Matches(c, P \o (x \o r)) <=> ~Less(x, lo) /\ ~Less(hi, x)
  <2> DEFINE k == x \o r
  <2>1. k \in Str
    BY <1>8, Concat
  <2>2. Decided(x, lo) /\ Decided(x, hi)
    BY <1>8, SameLengthDecided
  <2>3. AtMost(lo, k) <=> ~Less(x, lo)
    BY <1>8, <2>2, HeadsCompare
  <2>4. AtMost(k, hi \o m) <=> ~Less(hi, x)
    BY <1>8, <2>2, HeadsCompare DEF m
  <2> HIDE DEF k
  <2>5. AtMost(P \o lo, P \o k) <=> AtMost(lo, k)
    BY <2>1, Opened
  <2>6. AtMost(P \o k, P \o (hi \o m)) <=> AtMost(k, hi \o m)
    BY <1>1, <2>1, Opened
  <2>7. ASSUME Less(hi, lo), ~Less(x, lo), ~Less(hi, x) PROVE FALSE
    <3>1. Splits(hi, lo)
      BY <2>7, SameLengthLess
    <3>2. x = lo \/ Splits(lo, x)
      BY <1>8, <2>7, SameLengthLess
    <3>3. Splits(hi, x)
      BY <1>8, <3>1, <3>2, SplitsTransitive
    <3>4. Less(hi, x)
      BY <1>8, <3>3, SameLengthLess
    <3> QED
      BY <2>7, <3>4
  <2> QED
    BY <1>4, <1>7, <2>3, <2>4, <2>5, <2>6, <2>7 DEF k, a
<1>9. ASSUME NEW s \in Str, Matches(c, s) PROVE IsPrefix(P, s)
  <2>1. AtMost(P \o lo, s) /\ AtMost(s, P \o (hi \o m))
    BY <1>4, <1>7, <1>9 DEF a
  <2> QED
    BY <1>1, <2>1, PrefixBetween
<1> QED
  BY <1>6, <1>8, <1>9 DEF c, a, b

------------------------------------------------------------------------------
(* Keys that begin with the same segments.                                  *)

\* The first segments of a key and the delimiter behind them.
Opening(h) == IF h = <<>> THEN <<>> ELSE Join(h) \o <<Hash>>

LEMMA EmptyOrNot ==
  ASSUME NEW S, NEW u \in Seq(S)
  PROVE  (u = <<>> <=> Len(u) = 0) /\ Len(u) \in Nat
  OBVIOUS

\* A key begins with the opening if its first segments are those, and what
\* follows are the others.
LEMMA OpeningTells ==
  ASSUME NEW h \in Seq(HashFree), NEW w \in Seq(HashFree), Len(h) < Len(w)
  PROVE  /\ Opening(h) \in Str
         /\ RestOf(w, Len(h)) \in Seq(HashFree) /\ Len(RestOf(w, Len(h))) = Len(w) - Len(h)
         /\ \A i \in 1 .. Len(w) - Len(h) : RestOf(w, Len(h))[i] = w[Len(h) + i]
         /\ Join(RestOf(w, Len(h))) \in Str
         /\ IsPrefix(Opening(h), Join(w)) <=> \A i \in 1 .. Len(h) : h[i] = w[i]
         /\ (\A i \in 1 .. Len(h) : h[i] = w[i])
              => Join(w) = Opening(h) \o Join(RestOf(w, Len(h)))
<1> DEFINE k == Len(h)
           u == RestOf(w, k)
           j == Join(u)
<1>1. k \in Nat /\ Len(w) \in Nat /\ k \in 0 .. Len(w) /\ k < Len(w)
  OBVIOUS
<1>2. u \in Seq(HashFree) /\ Len(u) = Len(w) - k /\ \A i \in 1 .. Len(w) - k : u[i] = w[k + i]
  <2> HIDE DEF k
  <2> QED
    BY <1>1, Taken
<1>3. j \in Str
  <2>1. Len(u) >= 1
    BY <1>1, <1>2
  <2> HIDE DEF u
  <2> QED
    BY <1>2, <2>1, JoinString
<1>4. Join(w) \in Str
  BY <1>1, JoinString
<1> HIDE DEF j
<1>5. CASE h = <<>>
  <2>1. k = 0 /\ Opening(h) = <<>>
    BY <1>5 DEF Opening
  <2>2. u = w
    <3>1. u = [i \in 1 .. Len(u) |-> u[i]] /\ w = [i \in 1 .. Len(w) |-> w[i]]
      <4> HIDE DEF u
      <4> QED
        BY <1>2
    <3> HIDE DEF u
    <3>2. Len(u) = Len(w) /\ \A i \in 1 .. Len(w) : u[i] = w[i]
      BY <1>1, <1>2, <2>1
    <3> QED
      BY <3>1, <3>2
  <2>3. <<>> \o Join(w) = Join(w) /\ IsPrefix(<<>>, Join(w)) /\ <<>> \in Str
    BY <1>4, NoOpening
  <2>4. \A i \in 1 .. Len(h) : h[i] = w[i]
    BY <2>1
  <2> QED
    BY <1>2, <1>3, <2>1, <2>2, <2>3, <2>4 DEF j
<1>6. CASE h # <<>>
  <2>1. k >= 1 /\ Opening(h) = Join(h) \o <<Hash>>
    BY <1>1, <1>6, EmptyOrNot DEF Opening
  <2>2. Join(h) \in Str
    BY <2>1, JoinString
  <2>3. /\ IsPrefix(Join(h) \o <<Hash>>, Join(w)) <=> \A i \in 1 .. Len(h) : h[i] = w[i]
        /\ (\A i \in 1 .. Len(h) : h[i] = w[i]) => Join(w) = Then(Join(h), j)
    BY <1>1, <2>1, JoinOpen DEF j
  <2>4. Join(h) \o <<Hash>> \in Str /\ (Join(h) \o <<Hash>>) \o j = Then(Join(h), j)
    <3> DEFINE s == Join(h)
    <3> HIDE DEF s
    <3>1. s \in Str
      BY <2>2 DEF s
    <3>2. s \o <<Hash>> \in Str /\ (s \o <<Hash>>) \o j = Then(s, j)
      BY <1>3, <3>1, OpenOne
    <3> QED
      BY <3>2 DEF s
  <2> QED
    BY <1>2, <1>3, <2>1, <2>3, <2>4 DEF j
<1> QED
  BY <1>5, <1>6

\* The first character of a key is that of its first segment.
LEMMA JoinBegins ==
  ASSUME NEW u \in Seq(HashFree), Len(u) >= 1, u[1] # <<>>
  PROVE  Join(u) \in Str /\ Join(u) # <<>> /\ Join(u)[1] = u[1][1]
<1> DEFINE f == FirstOf(u, 1)
<1>1. 1 \in Nat \ {0} /\ 1 <= Len(u)
  BY EmptyOrNot
<1>2. f \in Seq(HashFree) /\ Len(f) = 1 /\ f[1] = u[1]
      /\ \E r \in Str : BelowSuffix(r) /\ Join(u) = Join(f) \o r
  <2> HIDE DEF f
  <2>1. /\ f \in Seq(HashFree) /\ Len(f) = 1 /\ \A i \in 1 .. 1 : f[i] = u[i]
        /\ \E r \in Str : BelowSuffix(r) /\ Join(u) = Join(f) \o r
    BY <1>1, HeadAndRest DEF f
  <2>2. f[1] = u[1]
    BY <2>1
  <2> QED
    BY <2>1, <2>2
<1> HIDE DEF f
<1>3. Join(f) = u[1]
  <2>1. f \in Seq(Str)
    BY <1>2, HashFreeSegments
  <2> QED
    BY <1>2, <2>1, JoinOne
<1>4. PICK r \in Str : Join(u) = u[1] \o r
  BY <1>2, <1>3
<1>5. u[1] \in Str /\ 1 \in 1 .. Len(u[1])
  <2>1. u[1] \in Str
    <3>1. u[1] \in HashFree
      BY <1>1
    <3> QED
      BY <3>1 DEF HashFree
  <2> DEFINE s == u[1]
  <2> HIDE DEF s
  <2>2. s \in Str /\ s # <<>> => 1 \in 1 .. Len(s)
    BY DEF Str
  <2> QED
    BY <2>1, <2>2 DEF s
<1>6. (u[1] \o r)[1] = u[1][1] /\ u[1] \o r \in Str /\ Len(u[1] \o r) >= 1
  <2> DEFINE s == u[1]
  <2>1. s \in Str /\ 1 \in 1 .. Len(s) /\ Len(s) \in Nat /\ Len(r) \in Nat
    BY <1>5 DEF Str
  <2> HIDE DEF s
  <2>2. (s \o r)[1] = s[1] /\ s \o r \in Str /\ Len(s \o r) >= 1
    BY <2>1, Concat
  <2> QED
    BY <2>2 DEF s
<1> DEFINE j == Join(u)
<1>7. j[1] = u[1][1] /\ j \in Str /\ Len(j) >= 1
  BY <1>4, <1>6
<1> HIDE DEF j
<1>8. j # <<>>
  BY <1>7, EmptyOrNot DEF Str
<1> QED
  BY <1>7, <1>8 DEF j

\* A key that begins with the opening: what follows, from the next segment on.
LEMMA NextSegment ==
  ASSUME NEW h \in Seq(HashFree), NEW w \in Seq(HashFree), Len(h) < Len(w),
         IsPrefix(Opening(h), Join(w))
  PROVE  /\ w[Len(h) + 1] \in Str
         /\ \E r \in Str : BelowSuffix(r) /\ Join(w) = Opening(h) \o (w[Len(h) + 1] \o r)
<1> DEFINE k == Len(h)
           u == RestOf(w, k)
           f == FirstOf(u, 1)
<1>1. /\ u \in Seq(HashFree) /\ Len(u) = Len(w) - k
      /\ \A i \in 1 .. Len(w) - k : u[i] = w[k + i]
      /\ Join(w) = Opening(h) \o Join(u)
  BY OpeningTells
<1>2. k \in Nat /\ Len(w) \in Nat /\ k < Len(w)
  OBVIOUS
<1> HIDE DEF k, u
<1>3. Len(u) >= 1 /\ u[1] = w[k + 1] /\ 1 \in Nat \ {0}
  BY <1>1, <1>2
<1> HIDE DEF f
<1>4. f \in Seq(HashFree) /\ Len(f) = 1
  BY <1>1, <1>3, HeadAndRest DEF f
<1>5. \A i \in 1 .. 1 : f[i] = u[i]
  BY <1>1, <1>3, HeadAndRest DEF f
<1>6. \E r \in Str : BelowSuffix(r) /\ Join(u) = Join(f) \o r
  BY <1>1, <1>3, HeadAndRest DEF f
<1>7. Join(f) = w[k + 1]
  <2>1. f \in Seq(Str)
    BY <1>4, HashFreeSegments
  <2>2. f[1] = w[k + 1]
    BY <1>3, <1>5
  <2> QED
    BY <1>4, <2>1, <2>2, JoinOne
<1>8. w[k + 1] \in Str
  <2>1. k + 1 \in 1 .. Len(w)
    BY <1>2
  <2>2. w[k + 1] \in HashFree
    BY <2>1
  <2> QED
    BY <2>2 DEF HashFree
<1> QED
  BY <1>1, <1>6, <1>7, <1>8 DEF k

\* A condition's text and a key, parted behind what they share.
Parted(P, x, y, v, w, k) ==
  /\ P \in Str /\ x \in Str /\ y \in Str /\ Decided(x, y)
  /\ Join(v) = P \o y
  /\ \E r \in Str : BelowSuffix(r) /\ Join(w) = P \o (x \o r)
  /\ x = y <=> \A i \in 1 .. Len(v) : w[i] = v[i]
  /\ Less(x, y) <=> Less(Join(FirstOf(w, Len(v))), Join(v))
  /\ Len(v) = k + 1 => x = w[Len(v)] /\ y = v[Len(v)]
  /\ w[k + 1] # <<>> => x # <<>> /\ x[1] = w[k + 1][1]
  /\ v[k + 1] # <<>> => y # <<>> /\ y[1] = v[k + 1][1]

\* Two keys that begin with the same segments compare as the rests do.
LEMMA PartKeys ==
  ASSUME NEW h \in Seq(HashFree), NEW v \in Seq(HashFree), NEW w \in Seq(HashFree),
         Len(h) < Len(v), Len(v) <= Len(w),
         \A i \in 1 .. Len(h) : h[i] = v[i] /\ h[i] = w[i],
         Len(v[Len(v)]) = Len(w[Len(v)])
  PROVE  \E x : Parted(Opening(h), x, Join(RestOf(v, Len(h))), v, w, Len(h))
<1> DEFINE k == Len(h)
           l == Len(v)
           u == FirstOf(w, l)
           a == RestOf(u, k)
           b == RestOf(v, k)
           x == Join(a)
           y == Join(b)
           P == Opening(h)
<1>1. k \in Nat /\ l \in Nat \ {0} /\ Len(w) \in Nat /\ k < l /\ l <= Len(w)
  OBVIOUS
<1>2. u \in Seq(HashFree) /\ Len(u) = l
  <2> HIDE DEF l
  <2> QED
    BY <1>1, HeadAndRest
<1>3. \A i \in 1 .. l : u[i] = w[i]
  <2> HIDE DEF l
  <2> QED
    BY <1>1, HeadAndRest
<1>4. PICK r \in Str : BelowSuffix(r) /\ Join(w) = Join(u) \o r
  <2> HIDE DEF l
  <2> QED
    BY <1>1, HeadAndRest
<1> HIDE DEF u
<1>5. \A i \in 1 .. k : h[i] = u[i]
  BY <1>1, <1>3
<1>6. /\ P \in Str /\ a \in Seq(HashFree) /\ Len(a) = l - k /\ x \in Str
      /\ \A i \in 1 .. l - k : a[i] = u[k + i]
      /\ Join(u) = P \o x
  <2>1. Len(h) < Len(u)
    BY <1>1, <1>2
  <2> HIDE DEF a
  <2> QED
    BY <1>2, <1>5, <2>1, OpeningTells DEF a
<1>7. /\ b \in Seq(HashFree) /\ Len(b) = l - k /\ y \in Str
      /\ \A i \in 1 .. l - k : b[i] = v[k + i]
      /\ Join(v) = P \o y
  <2> HIDE DEF b
  <2> QED
    BY <1>1, OpeningTells DEF b
<1> HIDE DEF a, b, P, k, l
<1>8. Len(a) >= 1 /\ Len(a) = Len(b)
  BY <1>1, <1>6, <1>7
<1>9. Decided(x, y)
  <2>1. l - k \in 1 .. l - k /\ k + (l - k) = l
    BY <1>1
  <2>2. a[l - k] = w[l] /\ b[l - k] = v[l]
    BY <1>1, <1>3, <1>6, <1>7, <2>1
  <2>3. Len(a[Len(a)]) = Len(b[Len(a)])
    BY <1>6, <2>2 DEF l
  <2> QED
    BY <1>6, <1>7, <1>8, <2>3, HeadsDecided
<1>10. x = y <=> \A i \in 1 .. l : w[i] = v[i]
  <2>1. x = y <=> \A i \in 1 .. Len(a) : a[i] = b[i]
    BY <1>6, <1>7, <1>8, JoinSame
  <2>2. ASSUME \A i \in 1 .. Len(a) : a[i] = b[i], NEW i \in 1 .. l PROVE w[i] = v[i]
    <3>1. CASE i <= k
      BY <1>1, <3>1 DEF k
    <3>2. CASE i > k
      <4>1. i - k \in 1 .. l - k /\ k + (i - k) = i
        BY <1>1, <3>2
      <4>2. a[i - k] = u[i] /\ b[i - k] = v[i] /\ a[i - k] = b[i - k]
        BY <1>6, <1>7, <2>2, <4>1
      <4> QED
        BY <1>3, <4>2
    <3> QED
      BY <1>1, <3>1, <3>2
  <2>3. ASSUME \A i \in 1 .. l : w[i] = v[i], NEW j \in 1 .. Len(a) PROVE a[j] = b[j]
    <3>1. j \in 1 .. l - k /\ k + j \in 1 .. l
      BY <1>1, <1>6
    <3> QED
      BY <1>3, <1>6, <1>7, <2>3, <3>1
  <2> QED
    BY <2>1, <2>2, <2>3
<1>11. Less(x, y) <=> Less(Join(u), Join(v))
  <2> HIDE DEF x, y
  <2>1. Less(P \o x, P \o y) <=> Less(x, y)
    BY <1>6, <1>7, CancelPrefix
  <2> QED
    BY <1>6, <1>7, <2>1
<1>12. l = k + 1 => x = w[l] /\ y = v[l]
  <2>1. SUFFICES ASSUME l = k + 1 PROVE x = w[l] /\ y = v[l]
    OBVIOUS
  <2>2. 1 \in 1 .. l - k /\ Len(a) = 1 /\ Len(b) = 1 /\ l \in 1 .. l
    BY <1>1, <1>6, <1>7, <2>1
  <2>3. a[1] = w[l] /\ b[1] = v[l]
    BY <1>3, <1>6, <1>7, <2>1, <2>2
  <2>4. a \in Seq(Str) /\ b \in Seq(Str)
    BY <1>6, <1>7, HashFreeSegments
  <2>5. x = a[1] /\ y = b[1]
    BY <2>2, <2>4, JoinOne
  <2> QED
    BY <2>3, <2>5
<1>13. /\ w[k + 1] # <<>> => x # <<>> /\ x[1] = w[k + 1][1]
       /\ v[k + 1] # <<>> => y # <<>> /\ y[1] = v[k + 1][1]
  <2>1. 1 \in 1 .. l - k /\ k + 1 \in 1 .. l
    BY <1>1
  <2>2. a[1] = w[k + 1] /\ b[1] = v[k + 1]
    BY <1>3, <1>6, <1>7, <2>1
  <2> QED
    BY <1>6, <1>7, <1>8, <2>2, JoinBegins
<1>14. \E q \in Str : BelowSuffix(q) /\ Join(w) = P \o (x \o q)
  <2> HIDE DEF x
  <2>1. (P \o x) \o r = P \o (x \o r)
    BY <1>6, Assoc
  <2> QED
    BY <1>4, <1>6, <2>1
<1> HIDE DEF x, y
<1>15. Parted(P, x, y, v, w, k)
  BY <1>6, <1>7, <1>9, <1>10, <1>11, <1>12, <1>13, <1>14 DEF Parted, l, u
<1> QED
  BY <1>15 DEF P, y, b, k

------------------------------------------------------------------------------
(* Numbers in decimal (padInt), and the other encoders.                     *)

\* The powers of ten, one after the other.
PowersTo(f, n) ==
  /\ f \in [0 .. n -> Nat \ {0}]
  /\ f[0] = 1
  /\ \A i \in 1 .. n : f[i] = 10 * f[i - 1]

\* The powers of ten up to n exist, and only once.
LEMMA PowersExist ==
  ASSUME NEW n \in Nat
  PROVE  \E f : PowersTo(f, n)
<1> DEFINE P(k) == \E f : PowersTo(f, k)
<1>1. P(0)
  <2>1. PowersTo([i \in 0 .. 0 |-> 1], 0)
    BY DEF PowersTo
  <2> QED
    BY <2>1
<1>2. ASSUME NEW k \in Nat, P(k) PROVE P(k + 1)
  <2>1. PICK f : PowersTo(f, k)
    BY <1>2
  <2> DEFINE g == [i \in 0 .. k + 1 |-> IF i = k + 1 THEN 10 * f[k] ELSE f[i]]
  <2>2. g \in [0 .. k + 1 -> Nat \ {0}]
    BY <2>1 DEF PowersTo
  <2>3. g[0] = 1
    BY <2>1 DEF PowersTo
  <2>4. ASSUME NEW i \in 1 .. k + 1 PROVE g[i] = 10 * g[i - 1]
    BY <2>1 DEF PowersTo
  <2> HIDE DEF g
  <2>5. PowersTo(g, k + 1)
    BY <2>2, <2>3, <2>4 DEF PowersTo
  <2> QED
    BY <2>5
<1> DEFINE S == {k \in Nat : P(k)}
<1> HIDE DEF P
<1>3. S \subseteq Nat /\ 0 \in S /\ \A k \in S : k + 1 \in S
  BY <1>1, <1>2
<1> HIDE DEF S
<1>4. S = Nat
  BY <1>3, InductionOn
<1>5. P(n)
  BY <1>4 DEF S
<1> QED
  BY <1>5 DEF P

LEMMA PowersUnique ==
  ASSUME NEW n, NEW m, NEW f, NEW g, n \in Nat, m \in Nat, n <= m,
         PowersTo(f, n), PowersTo(g, m)
  PROVE  f[n] = g[n]
<1> DEFINE P(k) == k <= n => f[k] = g[k]
<1>1. P(0)
  BY DEF PowersTo
<1>2. ASSUME NEW k \in Nat, P(k) PROVE P(k + 1)
  <2>1. SUFFICES ASSUME k + 1 <= n PROVE f[k + 1] = g[k + 1]
    OBVIOUS
  <2>2. k + 1 \in 1 .. n /\ k + 1 \in 1 .. m /\ (k + 1) - 1 = k /\ k <= n
    BY <2>1
  <2>3. f[k + 1] = 10 * f[k] /\ g[k + 1] = 10 * g[k]
    BY <2>2 DEF PowersTo
  <2> QED
    BY <1>2, <2>2, <2>3
<1> DEFINE S == {k \in Nat : P(k)}
<1> HIDE DEF P
<1>3. S \subseteq Nat /\ 0 \in S /\ \A k \in S : k + 1 \in S
  BY <1>1, <1>2
<1> HIDE DEF S
<1>4. S = Nat
  BY <1>3, InductionOn
<1>5. P(n)
  BY <1>4 DEF S
<1> QED
  BY <1>5 DEF P

\* Tens is what its definition says.
LEMMA PowersOfTen ==
  /\ Tens[0] = 1
  /\ \A k \in Nat : Tens[k] \in Nat \ {0} /\ Tens[k + 1] = 10 * Tens[k]
<1> DEFINE F(n) == CHOOSE f : PowersTo(f, n)
           T == [n \in Nat |-> F(n)[n]]
<1>1. \A n \in Nat : PowersTo(F(n), n)
  BY PowersExist
<1> HIDE DEF F
<1>2. T[0] = 1
  BY <1>1 DEF PowersTo
<1>3. ASSUME NEW k \in Nat PROVE T[k] \in Nat \ {0} /\ T[k + 1] = 10 * T[k]
  <2>1. PowersTo(F(k), k) /\ PowersTo(F(k + 1), k + 1) /\ k + 1 \in Nat /\ k <= k + 1
    BY <1>1
  <2>2. F(k)[k] = F(k + 1)[k]
    BY <2>1, PowersUnique
  <2>3. k \in 0 .. k /\ k + 1 \in 1 .. k + 1 /\ (k + 1) - 1 = k
    OBVIOUS
  <2>4. F(k)[k] \in Nat \ {0} /\ F(k + 1)[k + 1] = 10 * F(k + 1)[k]
    BY <2>1, <2>3 DEF PowersTo
  <2> QED
    BY <2>2, <2>4
<1>4. \A k \in Nat : T[k] = IF k = 0 THEN 1 ELSE 10 * T[k - 1]
  <2>1. ASSUME NEW k \in Nat \ {0} PROVE T[k] = 10 * T[k - 1]
    <3>1. k - 1 \in Nat /\ (k - 1) + 1 = k
      OBVIOUS
    <3> HIDE DEF T
    <3> QED
      BY <1>3, <3>1
  <2> HIDE DEF T
  <2> QED
    BY <1>2, <2>1
<1>5. T = [k \in Nat |-> IF k = 0 THEN 1 ELSE 10 * T[k - 1]]
  <2> DEFINE R == [k \in Nat |-> IF k = 0 THEN 1 ELSE 10 * T[k - 1]]
  <2>1. \A k \in Nat : T[k] = R[k]
    BY <1>4
  <2>2. DOMAIN T = Nat /\ DOMAIN R = Nat /\ T = [k \in DOMAIN T |-> T[k]] /\ R = [k \in DOMAIN R |-> R[k]]
    OBVIOUS
  <2> HIDE DEF T, R
  <2>3. T = R
    BY <2>1, <2>2
  <2> QED
    BY <2>3 DEF R
<1> HIDE DEF T
<1>6. Tens = [k \in Nat |-> IF k = 0 THEN 1 ELSE 10 * Tens[k - 1]]
  BY <1>5 DEF Tens
<1>7. Tens[0] = 1 /\ \A k \in Nat : Tens[k + 1] = 10 * Tens[k]
  <2>1. \A k \in Nat : Tens[k] = IF k = 0 THEN 1 ELSE 10 * Tens[k - 1]
    BY <1>6
  <2> QED
    BY <2>1
<1> DEFINE S == {k \in Nat : Tens[k] \in Nat \ {0}}
<1>8. S \subseteq Nat /\ 0 \in S /\ \A k \in S : k + 1 \in S
  BY <1>7
<1> HIDE DEF S
<1>9. S = Nat
  BY <1>8, InductionOn
<1> QED
  BY <1>7, <1>9 DEF S

\* Digits and letters are well above the delimiter and below the suffix.
Plain(c) == c \in Int /\ 48 <= c /\ c <= 122

LEMMA DivDiv ==
  ASSUME NEW n \in Nat, NEW k \in Nat \ {0}
  PROVE  n \div k \in Nat /\ (n \div k) \div 10 = n \div (10 * k)
  OBVIOUS

LEMMA DivMonotone ==
  ASSUME NEW n \in Nat, NEW m \in Nat, n <= m, NEW k \in Nat \ {0}
  PROVE  n \div k <= m \div k
  OBVIOUS

\* Numbers of the same tens are ordered by their last digit.
LEMMA LastDigit ==
  ASSUME NEW a \in Nat, NEW b \in Nat, a \div 10 = b \div 10, a < b
  PROVE  (a % 10) < (b % 10)
<1>1. a = (10 * (a \div 10)) + (a % 10) /\ b = (10 * (b \div 10)) + (b % 10)
  OBVIOUS
<1> QED
  BY <1>1

\* Decimal writes so many digits.
LEMMA DecimalString ==
  ASSUME NEW n \in Nat, NEW w \in Nat
  PROVE  /\ Decimal(n, w) \in Str /\ Len(Decimal(n, w)) = w
         /\ \A i \in 1 .. w : /\ w - i \in Nat
                              /\ Decimal(n, w)[i] = Zero + ((n \div Tens[w - i]) % 10)
                              /\ Plain(Decimal(n, w)[i])
<1>1. ASSUME NEW i \in 1 .. w
      PROVE  w - i \in Nat /\ Zero + ((n \div Tens[w - i]) % 10) \in Int
            /\ Plain(Zero + ((n \div Tens[w - i]) % 10))
  <2>1. w - i \in Nat /\ Tens[w - i] \in Nat \ {0}
    BY PowersOfTen
  <2>2. n \div Tens[w - i] \in Nat
    BY <2>1, DivDiv
  <2> DEFINE q == n \div Tens[w - i]
  <2>3. q \in Nat
    BY <2>2
  <2> HIDE DEF q
  <2>4. Zero + (q % 10) \in Int /\ Plain(Zero + (q % 10))
    BY <2>3 DEF Zero, Plain
  <2> QED
    BY <2>1, <2>4 DEF q
<1> DEFINE D == [i \in 1 .. w |-> Zero + ((n \div Tens[w - i]) % 10)]
<1>2. D \in [1 .. w -> Int] /\ \A i \in 1 .. w : Plain(D[i])
  BY <1>1
<1>3. D \in Seq(Int) /\ Len(D) = w
  BY <1>2
<1> QED
  BY <1>1, <1>2, <1>3 DEF Decimal, Str

\* Of two numbers that fit, the smaller comes first.
LEMMA DecimalSplits ==
  ASSUME NEW n \in Nat, NEW m \in Nat, NEW w \in Nat, n < m, m < Tens[w]
  PROVE  Splits(Decimal(n, w), Decimal(m, w))
<1> DEFINE Q(x, k) == x \div Tens[k]
           S == {k \in Nat : k <= w /\ \A j \in k .. w : Q(n, j) = Q(m, j)}
<1>1. \A k \in Nat : Tens[k] \in Nat \ {0} /\ Q(n, k) \in Nat /\ Q(m, k) \in Nat
                     /\ Q(n, k) <= Q(m, k)
                     /\ Q(n, k) \div 10 = Q(n, k + 1) /\ Q(m, k) \div 10 = Q(m, k + 1)
  <2>1. ASSUME NEW k \in Nat
        PROVE  Tens[k] \in Nat \ {0} /\ Q(n, k) \in Nat /\ Q(m, k) \in Nat
                     /\ Q(n, k) <= Q(m, k)
                     /\ Q(n, k) \div 10 = Q(n, k + 1) /\ Q(m, k) \div 10 = Q(m, k + 1)
    <3>1. Tens[k] \in Nat \ {0} /\ Tens[k + 1] = 10 * Tens[k]
      BY PowersOfTen
    <3> DEFINE t == Tens[k]
    <3>2. t \in Nat \ {0} /\ n <= m
      BY <3>1
    <3> HIDE DEF t
    <3>3. n \div t \in Nat /\ (n \div t) \div 10 = n \div (10 * t)
      BY <3>2, DivDiv
    <3>4. m \div t \in Nat /\ (m \div t) \div 10 = m \div (10 * t)
      BY <3>2, DivDiv
    <3>5. n \div t <= m \div t
      BY <3>2, DivMonotone
    <3> QED
      BY <3>1, <3>3, <3>4, <3>5 DEF t
  <2> QED
    BY <2>1
<1>2. Q(n, w) = 0 /\ Q(m, w) = 0
  <2>1. Tens[w] \in Nat \ {0}
    BY <1>1
  <2> DEFINE t == Tens[w]
  <2>2. t \in Nat \ {0} /\ n < t /\ m < t
    BY <2>1
  <2> HIDE DEF t
  <2>3. n \div t = 0 /\ m \div t = 0
    BY <2>2
  <2> QED
    BY <2>3 DEF t
<1>3. Q(n, 0) = n /\ Q(m, 0) = m
  BY PowersOfTen
<1> HIDE DEF Q
<1>4. S \subseteq Nat /\ S # {} /\ w \in S /\ 0 \notin S
  BY <1>2, <1>3
<1>5. PICK k \in S : \A j \in S : k <= j
  <2> HIDE DEF S
  <2> QED
    BY <1>4, LeastOfNat
<1>6. k \in Nat /\ k <= w /\ k # 0 /\ \A j \in k .. w : Q(n, j) = Q(m, j)
  BY <1>4, <1>5
<1> DEFINE l == k - 1
<1>7. l \in Nat /\ l + 1 = k /\ l < w /\ l \notin S
  BY <1>4, <1>5, <1>6
<1>8. Q(n, l) # Q(m, l)
  <2>1. SUFFICES ASSUME Q(n, l) = Q(m, l) PROVE FALSE
    OBVIOUS
  <2>2. \A j \in l .. w : j = l \/ j \in k .. w
    BY <1>6, <1>7
  <2>3. l \in S
    BY <1>6, <1>7, <2>1, <2>2
  <2> QED
    BY <1>7, <2>3
<1> HIDE DEF S, l
<1>9. (Q(n, l) % 10) < (Q(m, l) % 10)
  <2>1. Q(n, l) \div 10 = Q(n, k) /\ Q(m, l) \div 10 = Q(m, k)
    BY <1>1, <1>7
  <2>2. Q(n, k) = Q(m, k)
    BY <1>6
  <2>3. Q(n, l) \in Nat /\ Q(m, l) \in Nat /\ Q(n, l) < Q(m, l)
    BY <1>1, <1>7, <1>8
  <2> QED
    BY <2>1, <2>2, <2>3, LastDigit
<1> DEFINE i == w - l
           a == Decimal(n, w)
           b == Decimal(m, w)
<1>10. i \in 1 .. w /\ w - i = l
  BY <1>7
<1>11. \A x \in 1 .. w : a[x] = Zero + (Q(n, w - x) % 10) /\ b[x] = Zero + (Q(m, w - x) % 10)
  BY DecimalString DEF Q
<1>12. Len(a) = w /\ Len(b) = w
  BY DecimalString
<1> HIDE DEF i, a, b
<1>13. a[i] < b[i]
  <2>1. a[i] = Zero + (Q(n, l) % 10) /\ b[i] = Zero + (Q(m, l) % 10)
    BY <1>10, <1>11
  <2>2. Q(n, l) \in Nat /\ Q(m, l) \in Nat
    BY <1>1, <1>7
  <2> QED
    BY <1>9, <2>1, <2>2 DEF Zero
<1>14. ASSUME NEW j \in 1 .. i - 1 PROVE a[j] = b[j]
  <2>1. j \in 1 .. w /\ w - j \in k .. w
    BY <1>6, <1>7, <1>10
  <2> QED
    BY <1>6, <1>11, <2>1
<1>15. Splits(a, b)
  BY <1>10, <1>12, <1>13, <1>14 DEF Splits
<1> QED
  BY <1>15 DEF a, b

\* What fits is ordered as its decimals are.
LEMMA DecimalOrder ==
  ASSUME NEW n \in Nat, NEW m \in Nat, NEW w \in Nat, n < Tens[w], m < Tens[w]
  PROVE  Less(Decimal(n, w), Decimal(m, w)) <=> n < m
<1> DEFINE a == Decimal(n, w)
           b == Decimal(m, w)
<1>1. a \in Str /\ b \in Str /\ Len(a) = Len(b)
  BY DecimalString
<1>2. n < m => Splits(a, b)
  BY DecimalSplits
<1>3. m < n => Splits(b, a)
  BY DecimalSplits
<1>4. n = m => a = b
  OBVIOUS
<1> HIDE DEF a, b
<1>5. Less(a, b) <=> Splits(a, b) \/ (IsPrefix(a, b) /\ a # b)
  BY <1>1, LessIff
<1>6. Splits(b, a) => ~Splits(a, b) /\ ~IsPrefix(a, b)
  BY <1>1, SplitsOneWay
<1>7. a = b => ~Splits(a, b)
  <2>1. Splits(a, b) => ~IsPrefix(a, b)
    BY <1>1, SplitsOneWay
  <2> QED
    BY <1>1, <2>1, PrefixSelf
<1>8. n < m \/ m < n \/ n = m
  OBVIOUS
<1>9. Less(a, b) <=> n < m
  BY <1>2, <1>3, <1>4, <1>5, <1>6, <1>7, <1>8
<1> QED
  BY <1>9 DEF a, b

\* The encoders that a placeholder can name.
Known(enc) ==
  \/ enc.name \in Strings \cup FixedEncoders \cup {"hex"}
  \/ enc.name = "pad" /\ enc.width \in 1 .. 99

\* An encoder on a value of a type that it takes.
Takes(enc, goType, v) == Known(enc) /\ EncoderCompat(enc, goType) /\ IsOf(goType, v)

\* CheckSegment lets through what is not empty and has no delimiter.
LEMMA CheckedSegment ==
  ASSUME NEW s \in Str, CheckSegment(s) # Refused
  PROVE  CheckSegment(s) = s /\ s \in HashFree /\ s # <<>>
  BY DEF CheckSegment, Contains, HashFree

LEMMA FunctionIsSeq ==
  ASSUME NEW S, NEW n \in Nat, NEW u \in [1 .. n -> S]
  PROVE  u \in Seq(S) /\ Len(u) = n
  OBVIOUS

LEMMA SeqElements ==
  ASSUME NEW S, NEW u \in Seq(S)
  PROVE  Len(u) \in Nat /\ \A i \in 1 .. Len(u) : u[i] \in S
  OBVIOUS

LEMMA SeqWithin ==
  ASSUME NEW S, NEW T, NEW v \in Seq(S), \A i \in 1 .. Len(v) : v[i] \in T
  PROVE  v \in Seq(T)
  OBVIOUS

\* A letter in upper and in lower case is a character, and text that is below
\* the suffix stays there.
LEMMA CasedLetter ==
  ASSUME NEW c \in Int
  PROVE  /\ UpperLetter(c) \in Int /\ LowerLetter(c) \in Int
         /\ c < MaxKeySuffix[1] => UpperLetter(c) < MaxKeySuffix[1] /\ LowerLetter(c) < MaxKeySuffix[1]
         /\ c \in Ascii /\ c \notin 65 .. 90 => LowerLetter(c) = c
<1>1. MaxKeySuffix[1] = 65535
  BY DEF MaxKeySuffix
<1>2. Char \subseteq Int
  BY DEF Char
<1>3. AsciiUpper(c) \in Int /\ AsciiLower(c) \in Int
      /\ (c < 65535 => AsciiUpper(c) < 65535 /\ AsciiLower(c) < 65535)
      /\ (c \notin 65 .. 90 => AsciiLower(c) = c)
  BY DEF AsciiUpper, AsciiLower
<1>4. CaseTable(UpperOf) /\ CaseTable(LowerOf)
  BY CaseAssumption
<1>5. c \in DOMAIN UpperOf => UpperOf[c] \in Int /\ (c < 65535 => UpperOf[c] < 65535)
  <2>1. c \in DOMAIN UpperOf =>
          UpperOf[c] \in Char /\ (c < MaxKeySuffix[1] => UpperOf[c] < MaxKeySuffix[1])
    BY <1>4, Zenon DEF CaseTable
  <2> DEFINE y == UpperOf[c]
  <2>2. c \in DOMAIN UpperOf => y \in Int
    BY <1>2, <2>1
  <2> HIDE DEF y
  <2>3. c \in DOMAIN UpperOf /\ c < MaxKeySuffix[1] => y < MaxKeySuffix[1]
    BY <2>1, Zenon DEF y
  <2> QED
    BY <1>1, <2>1, <2>2, <2>3 DEF y
<1>6. c \in DOMAIN LowerOf => c \notin Ascii /\ LowerOf[c] \in Int /\ (c < 65535 => LowerOf[c] < 65535)
  <2>1. c \in DOMAIN LowerOf =>
          c \notin Ascii /\ LowerOf[c] \in Char /\ (c < MaxKeySuffix[1] => LowerOf[c] < MaxKeySuffix[1])
    BY <1>4, Zenon DEF CaseTable
  <2> DEFINE y == LowerOf[c]
  <2>2. c \in DOMAIN LowerOf => y \in Int
    BY <1>2, <2>1
  <2> HIDE DEF y
  <2>3. c \in DOMAIN LowerOf /\ c < MaxKeySuffix[1] => y < MaxKeySuffix[1]
    BY <2>1, Zenon DEF y
  <2> QED
    BY <1>1, <2>1, <2>2, <2>3 DEF y
<1>7. UpperLetter(c) = (IF c \in DOMAIN UpperOf THEN UpperOf[c] ELSE AsciiUpper(c))
  BY DEF UpperLetter
<1>8. LowerLetter(c) = (IF c \in DOMAIN LowerOf THEN LowerOf[c] ELSE AsciiLower(c))
  BY DEF LowerLetter
<1> QED
  BY <1>1, <1>3, <1>5, <1>6, <1>7, <1>8

\* Upper and Lower change letters in place.
LEMMA UpperString ==
  ASSUME NEW s \in Str
  PROVE  /\ Upper(s) \in Str /\ Len(Upper(s)) = Len(s)
         /\ \A i \in 1 .. Len(s) : s[i] < MaxKeySuffix[1] => Upper(s)[i] < MaxKeySuffix[1]
<1>1. \A i \in 1 .. Len(s) : s[i] \in Int
  BY DEF Str
<1> DEFINE c(i) == UpperLetter(s[i])
           u == [i \in 1 .. Len(s) |-> c(i)]
<1>2. u \in [1 .. Len(s) -> Int] /\ Len(s) \in Nat
  <2>1. \A i \in 1 .. Len(s) : c(i) \in Int
    BY <1>1, CasedLetter
  <2> HIDE DEF c
  <2> QED
    BY <2>1 DEF Str
<1>3. u \in Seq(Int) /\ Len(u) = Len(s)
  BY <1>2, FunctionIsSeq, ZenonT(60)
<1>4. \A i \in 1 .. Len(s) : s[i] < MaxKeySuffix[1] => u[i] < MaxKeySuffix[1]
  BY <1>1, CasedLetter
<1>5. Upper(s) = u
  BY DEF Upper, Str
<1> QED
  BY <1>3, <1>4, <1>5 DEF Str

LEMMA LowerString ==
  ASSUME NEW s \in Str
  PROVE  /\ Lower(s) \in Str /\ Len(Lower(s)) = Len(s)
         /\ \A i \in 1 .. Len(s) : /\ s[i] < MaxKeySuffix[1] => Lower(s)[i] < MaxKeySuffix[1]
                                   /\ s[i] \in Ascii /\ s[i] \notin 65 .. 90 => Lower(s)[i] = s[i]
<1>1. \A i \in 1 .. Len(s) : s[i] \in Int
  BY DEF Str
<1> DEFINE c(i) == LowerLetter(s[i])
           u == [i \in 1 .. Len(s) |-> c(i)]
<1>2. u \in [1 .. Len(s) -> Int] /\ Len(s) \in Nat
  <2>1. \A i \in 1 .. Len(s) : c(i) \in Int
    BY <1>1, CasedLetter
  <2> HIDE DEF c
  <2> QED
    BY <2>1 DEF Str
<1>3. u \in Seq(Int) /\ Len(u) = Len(s)
  BY <1>2, FunctionIsSeq, ZenonT(60)
<1>4. \A i \in 1 .. Len(s) : /\ s[i] < MaxKeySuffix[1] => u[i] < MaxKeySuffix[1]
                             /\ s[i] \in Ascii /\ s[i] \notin 65 .. 90 => u[i] = s[i]
  BY <1>1, CasedLetter
<1>5. Lower(s) = u
  BY DEF Lower, Str
<1> QED
  BY <1>3, <1>4, <1>5 DEF Str

\* EncodeHex writes two lower-case digits a byte.
LEMMA HexString ==
  ASSUME NEW b \in Seq(Byte)
  PROVE  /\ EncodeHex(b) \in Str /\ Len(EncodeHex(b)) = 2 * Len(b)
         /\ \A i \in 1 .. 2 * Len(b) : Plain(EncodeHex(b)[i]) /\ EncodeHex(b)[i] \in HexDigits /\ EncodeHex(b)[i] \notin 65 .. 90
<1> DEFINE c(i) == LET byte == b[(i + 1) \div 2]
                   IN  Digit(IF i % 2 = 1 THEN byte \div 16 ELSE byte % 16, 97)
           u == [i \in 1 .. 2 * Len(b) |-> c(i)]
<1>0. \A j \in 1 .. Len(b) : b[j] \in Byte
  BY SeqElements
<1>1. ASSUME NEW i \in 1 .. 2 * Len(b) PROVE c(i) \in HexDigits
  <2> DEFINE j == (i + 1) \div 2
  <2>1. j \in 1 .. Len(b)
    OBVIOUS
  <2> HIDE DEF j
  <2> DEFINE byte == b[j]
  <2>2. byte \in 0 .. 255
    BY <1>0, <2>1 DEF Byte
  <2> HIDE DEF byte
  <2>3. byte \div 16 \in 0 .. 15 /\ byte % 16 \in 0 .. 15
    BY <2>2
  <2>4. ASSUME NEW d \in 0 .. 15 PROVE Digit(d, 97) \in HexDigits
    BY DEF Digit, Zero, HexDigits
  <2>5. c(i) = Digit(IF i % 2 = 1 THEN byte \div 16 ELSE byte % 16, 97)
    BY DEF byte, j
  <2> HIDE DEF c
  <2>6. CASE i % 2 = 1
    BY <2>3, <2>4, <2>5, <2>6
  <2>7. CASE i % 2 # 1
    BY <2>3, <2>4, <2>5, <2>7
  <2> QED
    BY <2>6, <2>7
<1>2. EncodeHex(b) = u
  BY DEF EncodeHex
<1> HIDE DEF c
<1>5. \A x \in HexDigits : x \in Int /\ Plain(x) /\ x \notin 65 .. 90
  BY DEF HexDigits, Zero, Plain
<1>3. u \in [1 .. 2 * Len(b) -> Int] /\ 2 * Len(b) \in Nat
  BY <1>1, <1>5
<1>4. u \in Seq(Int) /\ Len(u) = 2 * Len(b)
  BY <1>3, FunctionIsSeq
<1> QED
  BY <1>1, <1>2, <1>4, <1>5 DEF Str

\* FlattenSeq: of nothing, and of one string more.
LEMMA FlattenNone ==
  ASSUME NEW q \in Seq(Str), Len(q) = 0
  PROVE  FlattenSeq(q) = <<>>
  BY DEF FlattenSeq

LEMMA FlattenString ==
  ASSUME NEW q \in Seq(Str)
  PROVE  FlattenSeq(q) \in Str
<1> DEFINE n == Len(q)
<1>1. n \in Nat /\ Len(q) = n
  OBVIOUS
<1> HIDE DEF n
<1>2. CASE n = 0
  <2>1. FlattenSeq(q) = <<>>
    BY <1>1, <1>2, FlattenNone
  <2> QED
    BY <2>1 DEF Str
<1>3. CASE n # 0
  <2>1. PICK f : Running(f, q, n) /\ FlattenSeq(q) = f[n]
    BY <1>1, <1>3, FlattenIs
  <2>2. n \in 1 .. n
    BY <1>1, <1>3
  <2> QED
    BY <2>1, <2>2 DEF Running
<1> QED
  BY <1>2, <1>3

LEMMA FlattenStep ==
  ASSUME NEW q \in Seq(Str), NEW r \in Seq(Str), NEW n \in Nat, Len(q) = n + 1, Len(r) = n,
         \A i \in 1 .. n : q[i] = r[i]
  PROVE  FlattenSeq(q) = FlattenSeq(r) \o q[n + 1]
<1> DEFINE m == n + 1
<1>1. m \in Nat /\ m # 0 /\ n <= m /\ m \in 1 .. m /\ m - 1 = n /\ q[m] \in Str /\ Len(q) = m
  OBVIOUS
<1> HIDE DEF m
<1>2. PICK f : Running(f, q, m) /\ FlattenSeq(q) = f[m]
  BY <1>1, FlattenIs
<1>3. CASE n = 0
  <2>1. FlattenSeq(r) = <<>>
    BY <1>3, FlattenNone
  <2>2. m = 1 /\ f[m] = q[m]
    BY <1>1, <1>2, <1>3 DEF Running, m
  <2>3. <<>> \o q[m] = q[m]
    BY <1>1, ConcatEmptySeq DEF Str
  <2> QED
    BY <1>2, <2>1, <2>2, <2>3 DEF m
<1>4. CASE n # 0
  <2>1. PICK g : Running(g, r, n) /\ FlattenSeq(r) = g[n]
    BY <1>4, FlattenIs
  <2>2. \A i \in 1 .. n : f[i] = g[i]
    BY <1>1, <1>2, <2>1, RunningUnique
  <2>3. n \in 1 .. n /\ m # 1
    BY <1>1, <1>4
  <2>4. f[m] = f[m - 1] \o q[m]
    BY <1>1, <1>2, <2>3 DEF Running
  <2> QED
    BY <1>1, <1>2, <2>1, <2>2, <2>3, <2>4 DEF m
<1> QED
  BY <1>3, <1>4

\* Empty strings at the end add nothing.
LEMMA FlattenPadded ==
  ASSUME NEW q \in Seq(Str), NEW r \in Seq(Str), NEW n \in Nat, NEW m \in Nat \ {0},
         Len(q) = n + m, Len(r) = n, \A i \in 1 .. n : q[i] = r[i],
         \A i \in 2 .. m : q[n + i] = <<>>
  PROVE  FlattenSeq(q) = FlattenSeq(r) \o q[n + 1]
<1> DEFINE z == FlattenSeq(r) \o q[n + 1]
           P(k) == k < m => FlattenSeq(FirstOf(q, (n + 1) + k)) = z
<1>1. ASSUME NEW k \in 0 .. n + m
      PROVE  /\ FirstOf(q, k) \in Seq(Str) /\ Len(FirstOf(q, k)) = k
             /\ \A i \in 1 .. k : FirstOf(q, k)[i] = q[i]
  <2>1. k \in 0 .. Len(q)
    OBVIOUS
  <2> QED
    BY <2>1, Taken
<1>2. P(0)
  <2> DEFINE x == FirstOf(q, n + 1)
  <2>1. x \in Seq(Str) /\ Len(x) = n + 1 /\ \A i \in 1 .. n + 1 : x[i] = q[i]
    BY <1>1
  <2>2. \A i \in 1 .. n : x[i] = r[i]
    BY <2>1
  <2>3. x[n + 1] = q[n + 1]
    <3>1. n + 1 \in 1 .. n + 1
      OBVIOUS
    <3> HIDE DEF x
    <3> QED
      BY <2>1, <3>1
  <2> HIDE DEF x
  <2>4. FlattenSeq(x) = FlattenSeq(r) \o x[n + 1]
    BY <2>1, <2>2, FlattenStep
  <2>5. (n + 1) + 0 = n + 1
    OBVIOUS
  <2> QED
    BY <2>3, <2>4, <2>5 DEF x
<1>3. z \in Str
  <2>1. n + 1 \in 1 .. Len(q)
    OBVIOUS
  <2>2. q[n + 1] \in Str /\ FlattenSeq(r) \in Str
    BY <2>1, FlattenString
  <2> QED
    BY <2>2, Concat
<1> HIDE DEF z
<1>4. ASSUME NEW k \in Nat, P(k) PROVE P(k + 1)
  <2> SUFFICES ASSUME k + 1 < m PROVE FlattenSeq(FirstOf(q, (n + 1) + (k + 1))) = z
    OBVIOUS
  <2> DEFINE l == (n + 1) + k
             x == FirstOf(q, l + 1)
             y == FirstOf(q, l)
  <2>1. l \in Nat /\ l + 1 = (n + 1) + (k + 1) /\ l \in 0 .. n + m /\ l + 1 \in 0 .. n + m
        /\ l + 1 = n + (k + 2) /\ k + 2 \in 2 .. m
    OBVIOUS
  <2>2. FlattenSeq(y) = z
    BY <1>4, <2>1
  <2> HIDE DEF l
  <2>3. x \in Seq(Str) /\ Len(x) = l + 1 /\ \A i \in 1 .. l + 1 : x[i] = q[i]
    BY <1>1, <2>1
  <2>4. y \in Seq(Str) /\ Len(y) = l /\ \A i \in 1 .. l : y[i] = q[i]
    BY <1>1, <2>1
  <2>5. \A i \in 1 .. l : x[i] = y[i]
    BY <2>1, <2>3, <2>4
  <2> HIDE DEF x, y
  <2>6. x[l + 1] = <<>>
    <3>1. l + 1 \in 1 .. l + 1
      BY <2>1
    <3>2. x[l + 1] = q[l + 1]
      BY <2>3, <3>1
    <3>3. q[n + (k + 2)] = <<>>
      BY <2>1
    <3> QED
      BY <2>1, <3>2, <3>3
  <2>7. FlattenSeq(x) = FlattenSeq(y) \o x[l + 1]
    BY <2>1, <2>3, <2>4, <2>5, FlattenStep
  <2>8. z \o <<>> = z
    BY <1>3, ConcatEmptySeq DEF Str
  <2> QED
    BY <2>1, <2>2, <2>6, <2>7, <2>8 DEF x
<1> DEFINE S == {k \in Nat : P(k)}
<1> HIDE DEF P
<1>5. S \subseteq Nat /\ 0 \in S /\ \A k \in S : k + 1 \in S
  BY <1>2, <1>4
<1> HIDE DEF S
<1>6. S = Nat
  BY <1>5, InductionOn
<1>7. P(m - 1)
  <2>1. m - 1 \in Nat
    OBVIOUS
  <2> QED
    BY <1>6, <2>1 DEF S
<1>8. m - 1 < m /\ (n + 1) + (m - 1) = n + m
  OBVIOUS
<1>9. FirstOf(q, n + m) = q
  BY DEF FirstOf
<1> QED
  BY <1>7, <1>8, <1>9 DEF P, z

\* A code gives each of its symbols a string; a decoder says what each place
\* of a string stands for.
Coded(code, s) == FlattenSeq([i \in 1 .. Len(s) |-> code[s[i]]])
Decoded(at, x) == FlattenSeq([i \in 1 .. Len(x) |-> at[x][i]])

\* y is x and a code word, which its first place decodes to c.
Continues(at, x, y, c) ==
  /\ Len(x) < Len(y)
  /\ \A i \in 1 .. Len(x) : at[y][i] = at[x][i]
  /\ at[y][Len(x) + 1] = <<c>>
  /\ \A i \in Len(x) + 2 .. Len(y) : at[y][i] = <<>>

Inverted(at, Whole, x, s) ==
  x \in Whole /\ Decoded(at, x) = s /\ \A i \in 1 .. Len(x) : at[x][i] \in Str

LEMMA CodeStep ==
  ASSUME NEW Whole, Whole \subseteq Str, NEW at, NEW x, NEW y, NEW r, NEW s, NEW k \in Nat,
         r \in Str, s \in Str, Len(r) = k, Len(s) = k + 1, \A i \in 1 .. k : s[i] = r[i],
         Inverted(at, Whole, x, r), y \in Whole, Continues(at, x, y, s[k + 1])
  PROVE  Inverted(at, Whole, y, s)
<1> DEFINE n == Len(x)
           m == Len(y) - Len(x)
           p == [i \in 1 .. Len(x) |-> at[x][i]]
           q == [i \in 1 .. Len(y) |-> at[y][i]]
           c == s[k + 1]
<1>1. x \in Str /\ y \in Str /\ n \in Nat /\ Len(y) \in Nat /\ n < Len(y)
  BY DEF Inverted, Continues, Str
<1>2. m \in Nat \ {0} /\ n + m = Len(y) /\ c \in Int
  BY <1>1 DEF Str
<1>3. ASSUME NEW i \in 1 .. Len(y)
      PROVE  at[y][i] = (IF i <= n THEN at[x][i] ELSE IF i = n + 1 THEN <<c>> ELSE <<>>) /\ at[y][i] \in Str
  <2>1. CASE i <= n
    BY <1>1, <2>1 DEF Continues, Inverted
  <2>2. CASE i = n + 1
    <3>1. at[y][i] = <<c>>
      BY <2>2 DEF Continues
    <3>2. <<c>> \in Str
      BY <1>2 DEF Str
    <3> QED
      BY <1>1, <2>2, <3>1, <3>2
  <2>3. CASE i > n + 1
    <3>1. at[y][i] = <<>>
      BY <1>1, <2>3 DEF Continues
    <3>2. <<>> \in Str
      BY DEF Str
    <3> QED
      BY <1>1, <2>3, <3>1, <3>2
  <2> QED
    BY <1>1, <2>1, <2>2, <2>3
<1>4. p \in Seq(Str) /\ Len(p) = n
  <2>1. p \in [1 .. n -> Str]
    BY DEF Inverted
  <2> QED
    BY <1>1, <2>1, FunctionIsSeq
<1>5. q \in Seq(Str) /\ Len(q) = n + m
  <2>1. q \in [1 .. n + m -> Str] /\ n + m \in Nat
    BY <1>1, <1>2, <1>3
  <2> QED
    BY <2>1, FunctionIsSeq
<1>6. \A i \in 1 .. n : q[i] = p[i]
  BY <1>1, <1>3
<1>7. q[n + 1] = <<c>> /\ \A i \in 2 .. m : q[n + i] = <<>>
  BY <1>1, <1>2, <1>3
<1>8. FlattenSeq(p) = r
  BY DEF Inverted, Decoded
<1>9. Decoded(at, y) = FlattenSeq(q)
  BY DEF Decoded
<1> HIDE DEF n, m, p, q
<1>10. FlattenSeq(q) = FlattenSeq(p) \o q[n + 1]
  BY <1>1, <1>2, <1>4, <1>5, <1>6, <1>7, FlattenPadded
<1>11. r \o <<c>> = s
  <2> HIDE DEF c
  <2>0. <<c>> \in Str /\ Len(<<c>>) = 1 /\ <<c>>[1] = c /\ Len(s) = Len(r) + 1 /\ 1 \in 1 .. Len(<<c>>)
    BY <1>2 DEF Str
  <2>1. r \o <<c>> \in Str /\ Len(r \o <<c>>) = Len(s) /\ (\A i \in 1 .. Len(r) : (r \o <<c>>)[i] = r[i])
        /\ (r \o <<c>>)[Len(r) + 1] = c
    BY <2>0, Concat
  <2>2. \A i \in 1 .. Len(s) : (r \o <<c>>)[i] = s[i]
    BY <2>1 DEF c
  <2> QED
    BY <2>1, <2>2, SameString
<1> QED
  BY <1>3, <1>7, <1>8, <1>9, <1>10, <1>11 DEF Inverted

\* If what is decoded of a place is decoded of it however the string goes on,
\* a code is undone.
LEMMA CodeInverts ==
  ASSUME NEW S, S \subseteq Int, NEW code \in [S -> Str], NEW at, NEW Whole, Whole \subseteq Str,
         <<>> \in Whole,
         \A x \in Whole : \A c \in S :
           x \o code[c] \in Whole /\ Continues(at, x, x \o code[c], c)
  PROVE  \A s \in Seq(S) : Coded(code, s) \in Whole /\ Decoded(at, Coded(code, s)) = s
<1> DEFINE P(k) == \A s \in Seq(S) : Len(s) = k => Inverted(at, Whole, Coded(code, s), s)
           word(s) == [i \in 1 .. Len(s) |-> code[s[i]]]
<1>1. \A s \in Seq(S) : word(s) \in Seq(Str) /\ Len(word(s)) = Len(s) /\ s \in Str
                        /\ \A i \in 1 .. Len(s) : word(s)[i] = code[s[i]] /\ s[i] \in S
  <2> TAKE s \in Seq(S)
  <2>1. Len(s) \in Nat /\ \A i \in 1 .. Len(s) : s[i] \in S
    BY SeqElements
  <2>2. word(s) \in [1 .. Len(s) -> Str]
    BY <2>1
  <2>3. word(s) \in Seq(Str) /\ Len(word(s)) = Len(s)
    BY <2>1, <2>2, FunctionIsSeq
  <2>4. s \in Str
    BY <2>1, SeqWithin DEF Str
  <2> QED
    BY <2>1, <2>3, <2>4
<1>2. \A s \in Seq(S) : Coded(code, s) = FlattenSeq(word(s))
  BY DEF Coded
<1> HIDE DEF word
<1>3. P(0)
  <2> SUFFICES ASSUME NEW s \in Seq(S), Len(s) = 0 PROVE Inverted(at, Whole, Coded(code, s), s)
    OBVIOUS
  <2>1. Coded(code, s) = <<>> /\ s = <<>>
    <3> DEFINE w == word(s)
    <3>1. w \in Seq(Str) /\ Len(w) = 0
      BY <1>1
    <3> HIDE DEF w
    <3>2. FlattenSeq(w) = <<>>
      BY <3>1, FlattenNone
    <3>3. s = <<>>
      BY EmptySeq
    <3> QED
      BY <1>2, <3>2, <3>3 DEF w
  <2>2. Decoded(at, <<>>) = <<>>
    <3> DEFINE w == [i \in 1 .. Len(<<>>) |-> at[<<>>][i]]
    <3>1. w \in [1 .. 0 -> Str]
      OBVIOUS
    <3>2. w \in Seq(Str) /\ Len(w) = 0
      BY <3>1, FunctionIsSeq
    <3>3. Decoded(at, <<>>) = FlattenSeq(w)
      BY DEF Decoded
    <3> HIDE DEF w
    <3> QED
      BY <3>2, <3>3, FlattenNone
  <2> QED
    BY <2>1, <2>2 DEF Inverted
<1>4. ASSUME NEW k \in Nat, P(k) PROVE P(k + 1)
  <2> SUFFICES ASSUME NEW s \in Seq(S), Len(s) = k + 1 PROVE Inverted(at, Whole, Coded(code, s), s)
    OBVIOUS
  <2> DEFINE r == FirstOf(s, k)
             c == s[k + 1]
             x == Coded(code, r)
             y == Coded(code, s)
  <2>1. r \in Seq(S) /\ Len(r) = k /\ \A i \in 1 .. k : r[i] = s[i]
    <3>1. k \in 0 .. Len(s)
      OBVIOUS
    <3> QED
      BY <3>1, Taken
  <2>2. Inverted(at, Whole, x, r)
    <3> HIDE DEF r, x
    <3> QED
      BY <1>4, <2>1 DEF x
  <2>3. c \in S /\ k + 1 \in 1 .. Len(s)
    BY SeqElements
  <2>4. y = x \o code[c]
    <3> DEFINE u == word(s)
               w == word(r)
    <3> HIDE DEF r
    <3>1. u \in Seq(Str) /\ Len(u) = k + 1 /\ w \in Seq(Str) /\ Len(w) = k
      BY <1>1, <2>1
    <3>2. \A i \in 1 .. k : u[i] = w[i]
      BY <1>1, <2>1
    <3>3. u[k + 1] = code[c]
      BY <1>1, <2>3
    <3>4. x = FlattenSeq(w) /\ y = FlattenSeq(u)
      BY <1>2, <2>1
    <3> HIDE DEF u, w, x, y, c
    <3>5. FlattenSeq(u) = FlattenSeq(w) \o u[k + 1]
      BY <3>1, <3>2, FlattenStep
    <3> QED
      BY <3>3, <3>4, <3>5
  <2>5. r \in Str /\ s \in Str
    BY <1>1, <2>1
  <2>6. \A i \in 1 .. k : s[i] = r[i]
    BY <2>1
  <2> HIDE DEF x, y, r
  <2>7. y \in Whole /\ Continues(at, x, y, c)
    BY <2>2, <2>3, <2>4 DEF Inverted
  <2>8. Inverted(at, Whole, y, s)
    BY <2>1, <2>2, <2>5, <2>6, <2>7, CodeStep
  <2> QED
    BY <2>8 DEF y
<1> DEFINE T == {k \in Nat : P(k)}
<1> HIDE DEF P
<1>5. T \subseteq Nat /\ 0 \in T /\ \A k \in T : k + 1 \in T
  BY <1>3, <1>4
<1> HIDE DEF T
<1>6. T = Nat
  BY <1>5, InductionOn
<1>7. ASSUME NEW s \in Seq(S)
      PROVE  Coded(code, s) \in Whole /\ Decoded(at, Coded(code, s)) = s
  <2>1. Len(s) \in Nat
    OBVIOUS
  <2>2. P(Len(s))
    BY <1>6, <2>1 DEF T
  <2> QED
    BY <2>2 DEF P, Inverted
<1> QED
  BY <1>7

\* Two upper-case hexadecimal digits stand for a byte.
LEMMA HexPair ==
  ASSUME NEW c \in Byte
  PROVE  \E d, e \in 48 .. 70 : /\ d = Digit(c \div 16, 65) /\ e = Digit(c % 16, 65)
                                /\ DecodeHex(<<d, e>>) = <<c>>
<1> DEFINE h == c \div 16
           k == c % 16
           d == Digit(h, 65)
           e == Digit(k, 65)
           low(x) == AsciiLower(x)
           l == <<low(d), low(e)>>
<1>1. h \in 0 .. 15 /\ k \in 0 .. 15 /\ c = 16 * h + k
  BY DEF Byte
<1>2. \A a \in 0 .. 15 : /\ Digit(a, 65) \in 48 .. 70
                         /\ low(Digit(a, 65)) \in HexDigits
                         /\ DigitValue(low(Digit(a, 65)), 97) = a
  BY DEF Digit, DigitValue, Zero, HexDigits, AsciiLower
<1>3. d \in 48 .. 70 /\ e \in 48 .. 70 /\ l[1] \in HexDigits /\ l[2] \in HexDigits
      /\ DigitValue(l[1], 97) = h /\ DigitValue(l[2], 97) = k
  BY <1>1, <1>2
<1>4. [i \in DOMAIN <<d, e>> |-> AsciiLower(<<d, e>>[i])] = l
  <2>1. DOMAIN <<d, e>> = 1 .. 2
    OBVIOUS
  <2>2. [i \in DOMAIN <<d, e>> |-> AsciiLower(<<d, e>>[i])] = [i \in 1 .. 2 |-> low(<<d, e>>[i])]
    BY <2>1
  <2> HIDE DEF d, e, low
  <2> QED
    BY <2>2
<1> HIDE DEF d, e, l, h, k
<1>5. Len(<<d, e>>) = 2 /\ (Len(<<d, e>>) % 2 = 1) = FALSE
  OBVIOUS
<1>6. ToSet(l) \ HexDigits = {}
  <2>1. Len(l) = 2
    BY DEF l
  <2> QED
    BY <1>3, <2>1 DEF ToSet
<1>7. DecodeHex(<<d, e>>) = [i \in 1 .. 1 |-> 16 * DigitValue(l[2 * i - 1], 97) + DigitValue(l[2 * i], 97)]
  BY <1>4, <1>5, <1>6 DEF DecodeHex
<1>8. DecodeHex(<<d, e>>) = <<c>>
  <2>1. 16 * DigitValue(l[1], 97) + DigitValue(l[2], 97) = c
    BY <1>1, <1>3
  <2> DEFINE val(i) == 16 * DigitValue(l[2 * i - 1], 97) + DigitValue(l[2 * i], 97)
  <2>2. val(1) = c
    BY <2>1
  <2>3. DecodeHex(<<d, e>>) = [i \in 1 .. 1 |-> val(i)]
    BY <1>7
  <2> HIDE DEF val
  <2> QED
    BY <2>2, <2>3
<1> QED
  BY <1>3, <1>8 DEF d, e, h, k

\* What stands for a byte: a character, or a percent sign and two digits.
LEMMA EscapedByte ==
  ASSUME NEW c \in Byte
  PROVE  \/ \E a \in 43 .. 126 : EscapeByte(c) = <<a>> /\ (IF a = 43 THEN <<32>> ELSE UTF8(a)) = <<c>>
         \/ \E d, e \in 48 .. 70 : EscapeByte(c) = <<Percent, d, e>> /\ DecodeHex(<<d, e>>) = <<c>>
<1>0. c \in 0 .. 255
  BY DEF Byte
<1>1. CASE c \in Unescaped
  <2>1. c \in 45 .. 126 /\ c # 43
    BY <1>0, <1>1 DEF Unescaped
  <2>2. UTF8(c) = <<c>>
    <3>1. c \in Int /\ c < 128
      BY <2>1
    <3> QED
      BY <3>1 DEF UTF8
  <2>3. EscapeByte(c) = <<c>>
    <3>1. c # 32
      BY <2>1
    <3> QED
      BY <1>1, <3>1 DEF EscapeByte
  <2> QED
    BY <2>1, <2>2, <2>3
<1>2. CASE c \notin Unescaped /\ c = 32
  <2>1. EscapeByte(c) = <<43>>
    BY <1>2 DEF EscapeByte
  <2>2. 43 \in 43 .. 126 /\ (IF 43 = 43 THEN <<32>> ELSE UTF8(43)) = <<c>>
    BY <1>2
  <2> QED
    BY <2>1, <2>2
<1>3. CASE c \notin Unescaped /\ c # 32
  <2>1. PICK d, e \in 48 .. 70 : d = Digit(c \div 16, 65) /\ e = Digit(c % 16, 65) /\ DecodeHex(<<d, e>>) = <<c>>
    BY HexPair
  <2>2. EscapeByte(c) = <<Percent, d, e>>
    BY <1>3, <2>1 DEF EscapeByte
  <2> QED
    BY <2>1, <2>2
<1> QED
  BY <1>1, <1>2, <1>3

\* Escaped text, which ends no escape too early.
Escapes ==
  {x \in Str : \A i \in 1 .. Len(x) :
     /\ 36 < x[i] /\ x[i] < 127
     /\ x[i] = Percent => i + 2 <= Len(x) /\ DecodeHex(<<x[i + 1], x[i + 2]>>) # Refused}

Unescaping == [x \in Str |-> [i \in Nat |-> UnescapeAt(x, i)]]

\* A place of escaped text means the same, however the text goes on.
LEMMA UnescapedBefore ==
  ASSUME NEW x \in Escapes, NEW w \in Str, NEW i \in 1 .. Len(x)
  PROVE  UnescapeAt(x \o w, i) = UnescapeAt(x, i)
<1> DEFINE y == x \o w
<1>1. x \in Str /\ Len(x) \in Nat /\ Len(w) \in Nat
  BY DEF Escapes, Str
<1>2. y \in Str /\ Len(y) = Len(x) + Len(w) /\ \A j \in 1 .. Len(x) : y[j] = x[j]
  BY <1>1, Concat
<1>3. DOMAIN x = 1 .. Len(x) /\ DOMAIN y = 1 .. Len(y)
  BY <1>1, <1>2 DEF Str
<1> HIDE DEF y
<1>4. InEscape(y, i) <=> InEscape(x, i)
  <2>1. {i - 1, i - 2} \cap DOMAIN y = {i - 1, i - 2} \cap DOMAIN x
    BY <1>1, <1>2, <1>3
  <2>2. \A j \in {i - 1, i - 2} \cap DOMAIN x : y[j] = x[j]
    BY <1>2, <1>3
  <2> QED
    BY <2>1, <2>2 DEF InEscape
<1>5. y[i] = x[i]
  BY <1>2
<1>6. x[i] = Percent => y[i + 1] = x[i + 1] /\ y[i + 2] = x[i + 2]
  <2> SUFFICES ASSUME x[i] = Percent PROVE y[i + 1] = x[i + 1] /\ y[i + 2] = x[i + 2]
    OBVIOUS
  <2>1. i + 2 <= Len(x)
    BY DEF Escapes
  <2>2. i + 1 \in 1 .. Len(x) /\ i + 2 \in 1 .. Len(x)
    BY <1>1, <2>1
  <2> QED
    BY <1>2, <2>2
<1>7. UnescapeAt(y, i) = UnescapeAt(x, i)
  <2>1. CASE x[i] = Percent
    <3>1. <<y[i + 1], y[i + 2]>> = <<x[i + 1], x[i + 2]>> /\ Percent # 43
      BY <1>6, <2>1 DEF Percent
    <3> QED
      BY <1>4, <1>5, <2>1, <3>1 DEF UnescapeAt
  <2>2. CASE x[i] # Percent
    BY <1>4, <1>5, <2>2 DEF UnescapeAt
  <2> QED
    BY <2>1, <2>2
<1> QED
  BY <1>7 DEF y

\* One byte more.
LEMMA EscapeStep ==
  ASSUME NEW x \in Escapes, NEW c \in Byte
  PROVE  /\ EscapeByte(c) \in Str /\ x \o EscapeByte(c) \in Escapes
         /\ Continues(Unescaping, x, x \o EscapeByte(c), c)
<1> DEFINE w == EscapeByte(c)
           y == x \o w
           n == Len(x)
<1>1. x \in Str /\ n \in Nat
  BY DEF Escapes, Str
<1>2. CASE \E a \in 43 .. 126 : w = <<a>> /\ (IF a = 43 THEN <<32>> ELSE UTF8(a)) = <<c>>
  <2>1. PICK a \in 43 .. 126 : w = <<a>> /\ (IF a = 43 THEN <<32>> ELSE UTF8(a)) = <<c>>
    BY <1>2
  <2>2. w \in Str /\ Len(w) = 1 /\ w[1] = a
    BY <2>1 DEF Str
  <2>3. y \in Str /\ Len(y) = n + 1 /\ (\A i \in 1 .. n : y[i] = x[i]) /\ y[n + 1] = a
    <3> HIDE DEF w
    <3>1. y \in Str /\ Len(y) = n + Len(w) /\ (\A i \in 1 .. n : y[i] = x[i]) /\ \A i \in 1 .. Len(w) : y[n + i] = w[i]
      BY <1>1, <2>2, Concat
    <3>2. 1 \in 1 .. Len(w)
      BY <2>2
    <3> HIDE DEF y, n
    <3> QED
      BY <2>2, <3>1, <3>2
  <2>4. a # Percent
    BY DEF Percent
  <2>5. DOMAIN y = 1 .. Len(y)
    BY <2>3 DEF Str
  <2> HIDE DEF w
  <2>6. \A i \in 1 .. n : UnescapeAt(y, i) = UnescapeAt(x, i)
    BY <2>2, UnescapedBefore
  <2> HIDE DEF y, n
  <2>7. ASSUME NEW j \in {(n + 1) - 1, (n + 1) - 2} \cap DOMAIN y PROVE y[j] # Percent
    <3>1. j \in 1 .. n /\ j + 2 > n
      BY <1>1, <2>3, <2>5
    <3>2. x[j] = Percent => j + 2 <= n
      BY <3>1 DEF Escapes, n
    <3> QED
      BY <1>1, <2>3, <3>1, <3>2
  <2>8. ~InEscape(y, n + 1)
    BY <2>7 DEF InEscape
  <2>9. UnescapeAt(y, n + 1) = <<c>>
    BY <2>1, <2>3, <2>4, <2>8 DEF UnescapeAt
  <2>10. y \in Escapes
    <3>1. ASSUME NEW i \in 1 .. Len(y)
          PROVE  /\ 36 < y[i] /\ y[i] < 127
                 /\ y[i] = Percent => i + 2 <= Len(y) /\ DecodeHex(<<y[i + 1], y[i + 2]>>) # Refused
      <4>1. CASE i = n + 1
        BY <2>3, <2>4, <4>1
      <4>2. CASE i \in 1 .. n
        <5>1. y[i] = x[i] /\ 36 < x[i] /\ x[i] < 127
          BY <2>3, <4>2 DEF Escapes, n
        <5>2. ASSUME x[i] = Percent PROVE i + 2 <= n /\ DecodeHex(<<x[i + 1], x[i + 2]>>) # Refused
          BY <4>2, <5>2 DEF Escapes, n
        <5>3. ASSUME x[i] = Percent PROVE y[i + 1] = x[i + 1] /\ y[i + 2] = x[i + 2]
          <6>1. i + 1 \in 1 .. n /\ i + 2 \in 1 .. n
            BY <1>1, <4>2, <5>2, <5>3
          <6> QED
            BY <2>3, <6>1
        <5> QED
          BY <1>1, <2>3, <4>2, <5>1, <5>2, <5>3
      <4> QED
        BY <1>1, <2>3, <4>1, <4>2
    <3> QED
      BY <2>3, <3>1 DEF Escapes
  <2>11. Continues(Unescaping, x, y, c)
    <3>1. Unescaping[y][n + 1] = <<c>>
      BY <1>1, <2>3, <2>9 DEF Unescaping
    <3>2. \A i \in 1 .. n : Unescaping[y][i] = Unescaping[x][i]
      BY <1>1, <2>3, <2>6 DEF Unescaping
    <3>3. Len(y) = Len(x) + 1 /\ n = Len(x)
      BY <2>3 DEF n
    <3> HIDE DEF Unescaping
    <3> QED
      BY <1>1, <3>1, <3>2, <3>3 DEF Continues
  <2> QED
    BY <2>2, <2>10, <2>11 DEF y, w
<1>3. CASE \E d, e \in 48 .. 70 : w = <<Percent, d, e>> /\ DecodeHex(<<d, e>>) = <<c>>
  <2>1. PICK d, e \in 48 .. 70 : w = <<Percent, d, e>> /\ DecodeHex(<<d, e>>) = <<c>>
    BY <1>3
  <2>2. w \in Str /\ Len(w) = 3 /\ w[1] = Percent /\ w[2] = d /\ w[3] = e
    BY <2>1 DEF Str, Percent
  <2>3. y \in Str /\ Len(y) = n + 3 /\ (\A i \in 1 .. n : y[i] = x[i])
        /\ y[n + 1] = Percent /\ y[n + 2] = d /\ y[n + 3] = e
    <3> HIDE DEF w
    <3>1. 1 \in 1 .. Len(w) /\ 2 \in 1 .. Len(w) /\ 3 \in 1 .. Len(w)
      BY <2>2
    <3>2. y \in Str /\ Len(y) = n + Len(w) /\ (\A i \in 1 .. n : y[i] = x[i]) /\ \A i \in 1 .. Len(w) : y[n + i] = w[i]
      BY <1>1, <2>2, Concat
    <3> HIDE DEF y, n
    <3> QED
      BY <2>2, <3>1, <3>2
  <2>4. d # Percent /\ e # Percent /\ Percent = 37 /\ <<c>> # Refused
    BY DEF Percent, Refused, Byte
  <2>5. DOMAIN y = 1 .. Len(y)
    BY <2>3 DEF Str
  <2> HIDE DEF w
  <2>6. \A i \in 1 .. n : UnescapeAt(y, i) = UnescapeAt(x, i)
    BY <2>2, UnescapedBefore
  <2> HIDE DEF y, n
  <2>7. ASSUME NEW j \in {(n + 1) - 1, (n + 1) - 2} \cap DOMAIN y PROVE y[j] # Percent
    <3>1. j \in 1 .. n /\ j + 2 > n
      BY <1>1, <2>3, <2>5
    <3>2. x[j] = Percent => j + 2 <= n
      BY <3>1 DEF Escapes, n
    <3> QED
      BY <1>1, <2>3, <3>1, <3>2
  <2>8. ~InEscape(y, n + 1)
    BY <2>7 DEF InEscape
  <2>9. UnescapeAt(y, n + 1) = <<c>>
    <3>1. y[(n + 1) + 1] = d /\ y[(n + 1) + 2] = e
      BY <1>1, <2>3
    <3>2. Percent # 43
      BY <2>4
    <3> QED
      BY <2>1, <2>3, <2>8, <3>1, <3>2 DEF UnescapeAt
  <2>12. InEscape(y, n + 2) /\ InEscape(y, n + 3)
    <3>1. n + 1 \in {(n + 2) - 1, (n + 2) - 2} \cap DOMAIN y /\ n + 1 \in {(n + 3) - 1, (n + 3) - 2} \cap DOMAIN y
      BY <1>1, <2>3, <2>5
    <3> QED
      BY <2>3, <3>1 DEF InEscape
  <2>13. UnescapeAt(y, n + 2) = <<>> /\ UnescapeAt(y, n + 3) = <<>>
    BY <2>12 DEF UnescapeAt
  <2>10. y \in Escapes
    <3>1. ASSUME NEW i \in 1 .. Len(y)
          PROVE  /\ 36 < y[i] /\ y[i] < 127
                 /\ y[i] = Percent => i + 2 <= Len(y) /\ DecodeHex(<<y[i + 1], y[i + 2]>>) # Refused
      <4>1. CASE i = n + 1
        <5>1. i + 1 = n + 2 /\ i + 2 = n + 3
          BY <1>1, <4>1
        <5>2. DecodeHex(<<y[i + 1], y[i + 2]>>) # Refused
          BY <2>1, <2>3, <2>4, <5>1
        <5> QED
          BY <1>1, <2>3, <2>4, <4>1, <5>1, <5>2
      <4>3. CASE i = n + 2 \/ i = n + 3
        BY <2>3, <2>4, <4>3
      <4>2. CASE i \in 1 .. n
        <5>1. y[i] = x[i] /\ 36 < x[i] /\ x[i] < 127
          BY <2>3, <4>2 DEF Escapes, n
        <5>2. ASSUME x[i] = Percent PROVE i + 2 <= n /\ DecodeHex(<<x[i + 1], x[i + 2]>>) # Refused
          BY <4>2, <5>2 DEF Escapes, n
        <5>3. ASSUME x[i] = Percent PROVE y[i + 1] = x[i + 1] /\ y[i + 2] = x[i + 2]
          <6>1. i + 1 \in 1 .. n /\ i + 2 \in 1 .. n
            BY <1>1, <4>2, <5>2, <5>3
          <6> QED
            BY <2>3, <6>1
        <5> QED
          BY <1>1, <2>3, <4>2, <5>1, <5>2, <5>3
      <4> QED
        BY <1>1, <2>3, <4>1, <4>2, <4>3
    <3> QED
      BY <2>3, <3>1 DEF Escapes
  <2>11. Continues(Unescaping, x, y, c)
    <3>1. Unescaping[y][n + 1] = <<c>> /\ Unescaping[y][n + 2] = <<>> /\ Unescaping[y][n + 3] = <<>>
      BY <1>1, <2>3, <2>9, <2>13 DEF Unescaping
    <3>2. \A i \in 1 .. n : Unescaping[y][i] = Unescaping[x][i]
      BY <1>1, <2>3, <2>6 DEF Unescaping
    <3>3. Len(y) = Len(x) + 3 /\ n = Len(x)
      BY <2>3 DEF n
    <3> HIDE DEF Unescaping
    <3>4. \A i \in Len(x) + 2 .. Len(y) : i = n + 2 \/ i = n + 3
      BY <1>1, <3>3
    <3> QED
      BY <1>1, <3>1, <3>2, <3>3, <3>4 DEF Continues
  <2> QED
    BY <2>2, <2>10, <2>11 DEF y, w
<1> QED
  BY <1>2, <1>3, EscapedByte

\* Bytes are escaped and unescaped.
LEMMA EscapedBytes ==
  ASSUME NEW b \in Seq(Byte)
  PROVE  Escape(b) \in Escapes /\ Unescape(Escape(b)) = b
<1> DEFINE code == [c \in Byte |-> EscapeByte(c)]
<1>1. <<>> \in Escapes
  <2>1. <<>> \in Str
    BY DEF Str
  <2> QED
    BY <2>1 DEF Escapes
<1>2. Byte \subseteq Int /\ Escapes \subseteq Str
  BY DEF Byte, Escapes
<1>3. code \in [Byte -> Str]
  BY <1>1, EscapeStep
<1>4. \A x \in Escapes : \A c \in Byte :
        x \o code[c] \in Escapes /\ Continues(Unescaping, x, x \o code[c], c)
  BY EscapeStep
<1>5. DOMAIN b = 1 .. Len(b) /\ \A i \in 1 .. Len(b) : b[i] \in Byte
  BY SeqElements
<1>6. Coded(code, b) = Escape(b)
  <2>1. [i \in 1 .. Len(b) |-> code[b[i]]] = [i \in DOMAIN b |-> EscapeByte(b[i])]
    BY <1>5
  <2> QED
    BY <2>1 DEF Coded, Escape
<1> HIDE DEF code
<1>7. Coded(code, b) \in Escapes /\ Decoded(Unescaping, Coded(code, b)) = b
  <2>1. \A s \in Seq(Byte) : Coded(code, s) \in Escapes /\ Decoded(Unescaping, Coded(code, s)) = s
    BY <1>1, <1>2, <1>3, <1>4, CodeInverts, ZenonT(60)
  <2> QED
    BY <2>1
<1> DEFINE x == Coded(code, b)
<1>8. x \in Str /\ x \in Escapes
  BY <1>2, <1>7
<1> HIDE DEF x
<1>9. Decoded(Unescaping, x) = Unescape(x)
  <2>1. DOMAIN x = 1 .. Len(x) /\ Len(x) \in Nat
    BY <1>8 DEF Str
  <2>2. \A i \in 1 .. Len(x) : Unescaping[x][i] = UnescapeAt(x, i)
    BY <1>8, <2>1 DEF Unescaping
  <2>3. [i \in 1 .. Len(x) |-> Unescaping[x][i]] = [i \in DOMAIN x |-> UnescapeAt(x, i)]
    BY <2>1, <2>2
  <2> QED
    BY <2>3 DEF Decoded, Unescape
<1> QED
  BY <1>6, <1>7, <1>9 DEF x

\* The bytes of a character.
LEMMA Continued ==
  ASSUME NEW c \in Nat
  PROVE  Continuation(c) \in Byte /\ 128 <= Continuation(c) /\ Continuation(c) < 192
         /\ Continuation(c) - 128 = c % 64
  BY DEF Continuation, Byte

LEMMA CharSize ==
  ASSUME NEW c \in Char
  PROVE  c \in Nat /\ c < 4194304
<1>1. c \in Nat /\ c <= MaxRune
  <2>1. MaxRune \in Int
    BY SMT DEF MaxRune
  <2> QED
    BY <2>1, SMT DEF Char
<1>2. MaxRune \in Nat /\ MaxRune < 4194304
  BY SMT DEF MaxRune
<1> QED
  BY <1>1, <1>2, SMT

\* A character is one to four bytes, the first of which says how many.
Lead(b) == IF b < 192 THEN 0 ELSE IF b < 224 THEN 1 ELSE IF b < 240 THEN 2 ELSE 3

LEMMA OneByte ==
  ASSUME NEW c \in Nat, c < 128
  PROVE  UTF8(c) = <<c>>
  BY SMT DEF UTF8
LEMMA TwoBytes ==
  ASSUME NEW c \in Nat, 128 <= c, c < 2048
  PROVE  UTF8(c) = <<192 + (c \div 64), Continuation(c)>>
  BY SMT DEF UTF8
LEMMA ThreeBytes ==
  ASSUME NEW c \in Nat, 2048 <= c, c < 65536
  PROVE  UTF8(c) = <<224 + (c \div 4096), Continuation(c \div 64), Continuation(c)>>
  BY SMT DEF UTF8
LEMMA FourBytes ==
  ASSUME NEW c \in Nat, 65536 <= c
  PROVE  UTF8(c) = <<240 + (c \div 262144), Continuation(c \div 4096),
                     Continuation(c \div 64), Continuation(c)>>
  BY SMT DEF UTF8

\* A character is read off its first byte and those that continue it.
LEMMA SameChar ==
  ASSUME NEW b, NEW d, NEW i \in Nat, NEW j \in Nat, b[i] \in Byte,
         \A k \in 0 .. Lead(b[i]) : d[j + k] = b[i + k]
  PROVE  CharAt(d, j) = CharAt(b, i)
<1>1. b[i] \in Int /\ b[i] = b[i + 0] /\ d[j] = d[j + 0]
  BY DEF Byte
<1>2. Lead(b[i]) \in 0 .. 3
  BY <1>1 DEF Lead
<1>3. d[j] = b[i]
  BY <1>1, <1>2
<1>4. CASE b[i] < 192
  <2>1. b[i] < 128 \/ (128 <= b[i] /\ b[i] < 192)
    BY <1>1, <1>4
  <2> QED
    BY <1>1, <1>3, <2>1, SMT DEF CharAt
<1>5. CASE 192 <= b[i] /\ b[i] < 224
  <2>1. 1 \in 0 .. Lead(b[i])
    BY <1>1, <1>5 DEF Lead
  <2>2. d[j + 1] = b[i + 1]
    BY <2>1
  <2> QED
    BY <1>1, <1>3, <1>5, <2>2, SMT DEF CharAt
<1>6. CASE 224 <= b[i] /\ b[i] < 240
  <2>1. 1 \in 0 .. Lead(b[i]) /\ 2 \in 0 .. Lead(b[i])
    BY <1>1, <1>6 DEF Lead
  <2>2. d[j + 1] = b[i + 1] /\ d[j + 2] = b[i + 2]
    BY <2>1
  <2> QED
    BY <1>1, <1>3, <1>6, <2>2, SMT DEF CharAt
<1>7. CASE 240 <= b[i]
  <2>1. 1 \in 0 .. Lead(b[i]) /\ 2 \in 0 .. Lead(b[i]) /\ 3 \in 0 .. Lead(b[i])
    BY <1>1, <1>7 DEF Lead
  <2>2. d[j + 1] = b[i + 1] /\ d[j + 2] = b[i + 2] /\ d[j + 3] = b[i + 3]
    BY <2>1
  <2> QED
    BY <1>1, <1>3, <1>7, <2>2, SMT DEF CharAt
<1> QED
  BY <1>1, <1>4, <1>5, <1>6, <1>7

\* w is the bytes of c.
Spells(w, c) ==
  /\ w \in Str /\ 0 < Len(w) /\ \A i \in 1 .. Len(w) : w[i] \in Byte
  /\ Lead(w[1]) + 1 = Len(w)
  /\ \A i \in 2 .. Len(w) : 128 <= w[i] /\ w[i] < 192
  /\ CharAt(w, 1) = <<c>>

LEMMA SpellsOne ==
  ASSUME NEW c \in Nat, c < 128
  PROVE  Spells(<<c>>, c)
<1> DEFINE w == <<c>>
<1>1. w \in Str /\ Len(w) = 1 /\ w[1] = c
  BY DEF Str
<1>2. c \in Byte
  BY DEF Byte
<1> HIDE DEF w
<1>3. CharAt(w, 1) = <<c>>
  BY <1>1, SMT DEF CharAt
<1>4. Lead(w[1]) + 1 = Len(w)
  BY <1>1 DEF Lead
<1> QED
  BY <1>1, <1>2, <1>3, <1>4 DEF Spells, w

LEMMA SpellsTwo ==
  ASSUME NEW c \in Nat, 128 <= c, c < 2048
  PROVE  Spells(<<192 + (c \div 64), Continuation(c)>>, c)
<1> DEFINE h == c \div 64
           l == Continuation(c)
           w == <<192 + h, l>>
<1>1. h \in Nat /\ h < 32 /\ l \in Byte /\ l \in Int /\ 128 <= l /\ l < 192 /\ c = 64 * h + (l - 128)
  <2>1. h \in Nat /\ h < 32 /\ c = 64 * h + (c % 64)
    OBVIOUS
  <2>2. l \in Byte /\ 128 <= l /\ l < 192 /\ l - 128 = c % 64
    BY Continued
  <2> QED
    BY <2>1, <2>2 DEF Byte
<1> HIDE DEF h, l
<1>2. 192 + h \in Byte /\ 192 + h \in Int /\ 192 <= 192 + h /\ 192 + h < 224
  BY <1>1 DEF Byte
<1>3. w \in Str /\ Len(w) = 2 /\ w[1] = 192 + h /\ w[2] = l
  BY <1>1, <1>2 DEF Str
<1> HIDE DEF w
<1>4. CharAt(w, 1) = <<c>>
  <2>1. CharAt(w, 1) = <<64 * (w[1] - 192) + (w[1 + 1] - 128)>>
    BY <1>2, <1>3, SMT DEF CharAt
  <2> QED
    BY <1>1, <1>3, <2>1
<1>5. Lead(w[1]) + 1 = Len(w)
  BY <1>1, <1>3 DEF Lead
<1>6. \A i \in 1 .. 2 : w[i] \in Byte
  BY <1>1, <1>2, <1>3
<1>7. \A i \in 2 .. 2 : 128 <= w[i] /\ w[i] < 192
  BY <1>1, <1>3
<1> QED
  BY <1>3, <1>4, <1>5, <1>6, <1>7 DEF Spells, w, h, l

LEMMA SpellsThree ==
  ASSUME NEW c \in Nat, 2048 <= c, c < 65536
  PROVE  Spells(<<224 + (c \div 4096), Continuation(c \div 64), Continuation(c)>>, c)
<1> DEFINE h == c \div 4096
           m == Continuation(c \div 64)
           l == Continuation(c)
           w == <<224 + h, m, l>>
<1>1. /\ h \in Nat /\ h < 16
      /\ l \in Byte /\ l \in Int /\ 128 <= l /\ l < 192
      /\ m \in Byte /\ m \in Int /\ 128 <= m /\ m < 192
      /\ c = 4096 * h + 64 * (m - 128) + (l - 128)
  <2> DEFINE q == c \div 64
  <2>1. q \in Nat /\ c = 64 * q + (c % 64) /\ q < 1024
    BY SMT
  <2>2. l \in Byte /\ 128 <= l /\ l < 192 /\ l - 128 = c % 64
    BY Continued
  <2>3. h = q \div 64
    BY SMT
  <2> HIDE DEF q
  <2>4. Continuation(q) \in Byte /\ 128 <= Continuation(q) /\ Continuation(q) < 192
        /\ Continuation(q) - 128 = q % 64
    BY <2>1, Continued
  <2>5. q \div 64 \in Nat /\ q \div 64 < 16 /\ q = 64 * (q \div 64) + (q % 64)
    BY <2>1, SMT
  <2>6. m = Continuation(q)
    BY DEF q
  <2> HIDE DEF h, m, l
  <2> QED
    BY <2>1, <2>2, <2>3, <2>4, <2>5, <2>6, SMT DEF Byte
<1> HIDE DEF h, m, l
<1>2. 224 + h \in Byte /\ 224 + h \in Int /\ 224 <= 224 + h /\ 224 + h < 240
  BY <1>1 DEF Byte
<1>3. w \in Str /\ Len(w) = 3 /\ w[1] = 224 + h /\ w[2] = m /\ w[3] = l
  BY <1>1, <1>2 DEF Str
<1> HIDE DEF w
<1>4. CharAt(w, 1) = <<c>>
  <2>1. CharAt(w, 1) = <<4096 * (w[1] - 224) + 64 * (w[1 + 1] - 128) + (w[1 + 2] - 128)>>
    BY <1>2, <1>3, SMT DEF CharAt
  <2>2. w[1] - 224 = h /\ w[1 + 1] = m /\ w[1 + 2] = l
    BY <1>1, <1>3
  <2> QED
    BY <1>1, <2>1, <2>2, SMT
<1>5. Lead(w[1]) + 1 = Len(w)
  BY <1>1, <1>3 DEF Lead
<1>6. \A i \in 1 .. 3 : w[i] \in Byte
  BY <1>1, <1>2, <1>3
<1>7. \A i \in 2 .. 3 : 128 <= w[i] /\ w[i] < 192
  BY <1>1, <1>3
<1> QED
  BY <1>3, <1>4, <1>5, <1>6, <1>7 DEF Spells, w, h, l, m

LEMMA SpellsFour ==
  ASSUME NEW c \in Nat, 65536 <= c, c < 4194304
  PROVE  Spells(<<240 + (c \div 262144), Continuation(c \div 4096), Continuation(c \div 64), Continuation(c)>>, c)
<1> DEFINE h == c \div 262144
           g == Continuation(c \div 4096)
           m == Continuation(c \div 64)
           l == Continuation(c)
           w == <<240 + h, g, m, l>>
<1>1. /\ h \in Nat /\ h < 16
      /\ l \in Byte /\ l \in Int /\ 128 <= l /\ l < 192
      /\ m \in Byte /\ m \in Int /\ 128 <= m /\ m < 192
      /\ g \in Byte /\ g \in Int /\ 128 <= g /\ g < 192
      /\ c = 262144 * h + 4096 * (g - 128) + 64 * (m - 128) + (l - 128)
  <2> DEFINE q == c \div 64
             p == c \div 4096
  <2>1. q \in Nat /\ c = 64 * q + (c % 64) /\ q < 65536
    BY SMT
  <2>2. l \in Byte /\ 128 <= l /\ l < 192 /\ l - 128 = c % 64
    BY Continued
  <2>3. p = q \div 64 /\ h = p \div 64
    BY SMT
  <2> HIDE DEF q, p
  <2>4. Continuation(q) \in Byte /\ 128 <= Continuation(q) /\ Continuation(q) < 192
        /\ Continuation(q) - 128 = q % 64
    BY <2>1, Continued
  <2>5. p \in Nat /\ p < 1024 /\ q = 64 * p + (q % 64)
    BY <2>1, <2>3, SMT
  <2>6. Continuation(p) \in Byte /\ 128 <= Continuation(p) /\ Continuation(p) < 192
        /\ Continuation(p) - 128 = p % 64
    BY <2>5, Continued
  <2>7. p \div 64 \in Nat /\ p \div 64 < 16 /\ p = 64 * (p \div 64) + (p % 64)
    BY <2>5, SMT
  <2>8. m = Continuation(q) /\ g = Continuation(p)
    BY DEF q, p
  <2> HIDE DEF h, m, l, g
  <2> QED
    BY <2>1, <2>2, <2>3, <2>4, <2>5, <2>6, <2>7, <2>8, SMT DEF Byte
<1> HIDE DEF h, g, m, l
<1>2. 240 + h \in Byte /\ 240 + h \in Int /\ 240 <= 240 + h
  BY <1>1 DEF Byte
<1>3. w \in Str /\ Len(w) = 4 /\ w[1] = 240 + h /\ w[2] = g /\ w[3] = m /\ w[4] = l
  BY <1>1, <1>2 DEF Str
<1> HIDE DEF w
<1>4. CharAt(w, 1) = <<c>>
  <2>1. CharAt(w, 1) = <<262144 * (w[1] - 240) + 4096 * (w[1 + 1] - 128) + 64 * (w[1 + 2] - 128) + (w[1 + 3] - 128)>>
    BY <1>2, <1>3, SMT DEF CharAt
  <2>2. w[1] - 240 = h /\ w[1 + 1] = g /\ w[1 + 2] = m /\ w[1 + 3] = l
    BY <1>1, <1>3
  <2> QED
    BY <1>1, <2>1, <2>2, SMT
<1>5. Lead(w[1]) + 1 = Len(w)
  BY <1>1, <1>3 DEF Lead
<1>6. \A i \in 1 .. 4 : w[i] \in Byte
  BY <1>1, <1>2, <1>3
<1>7. \A i \in 2 .. 4 : 128 <= w[i] /\ w[i] < 192
  BY <1>1, <1>3
<1> QED
  BY <1>3, <1>4, <1>5, <1>6, <1>7 DEF Spells, w, h, l, m, g

LEMMA CharSpelled ==
  ASSUME NEW c \in Char
  PROVE  Spells(UTF8(c), c)
<1>1. c \in Nat /\ c < 4194304
  BY CharSize
<1>2. CASE c < 128
  BY <1>1, <1>2, OneByte, SpellsOne, SMT
<1>3. CASE 128 <= c /\ c < 2048
  BY <1>1, <1>3, TwoBytes, SpellsTwo, SMT
<1>4. CASE 2048 <= c /\ c < 65536
  BY <1>1, <1>4, ThreeBytes, SpellsThree, SMT
<1>5. CASE 65536 <= c
  BY <1>1, <1>5, FourBytes, SpellsFour, SMT
<1> QED
  BY <1>1, <1>2, <1>3, <1>4, <1>5, SMT

\* The bytes of characters, none of them cut short.
Characters ==
  {x \in Str : \A i \in 1 .. Len(x) : x[i] \in Byte /\ i + Lead(x[i]) <= Len(x)}

Reading == [x \in Str |-> [i \in Nat |-> CharAt(x, i)]]

\* One character more.
LEMMA ReadStep ==
  ASSUME NEW x \in Characters, NEW w, NEW c, Spells(w, c)
  PROVE  x \o w \in Characters /\ Continues(Reading, x, x \o w, c)
<1> DEFINE y == x \o w
           n == Len(x)
           m == Len(w)
<1>1. /\ x \in Str /\ n \in Nat
      /\ \A i \in 1 .. n : x[i] \in Byte /\ i + Lead(x[i]) <= n
  BY DEF Characters, Str
<1>2. /\ w \in Str /\ m \in Nat /\ 0 < m /\ Lead(w[1]) + 1 = m
      /\ \A i \in 1 .. m : w[i] \in Byte
      /\ \A i \in 2 .. m : 128 <= w[i] /\ w[i] < 192
      /\ CharAt(w, 1) = <<c>>
  BY DEF Spells, Str
<1>3. /\ y \in Str /\ Len(y) = n + m
      /\ \A i \in 1 .. n : y[i] = x[i]
      /\ \A i \in 1 .. m : y[n + i] = w[i]
  BY <1>1, <1>2, Concat
<1> HIDE DEF y
<1>4. Len(x) = n /\ Len(w) = m
  OBVIOUS
<1> HIDE DEF n, m
<1>5. \A a \in Byte : Lead(a) \in 0 .. 3 /\ a \in Int
  BY DEF Lead, Byte
<1>6. ASSUME NEW i \in 1 .. n PROVE CharAt(y, i) = CharAt(x, i)
  <2>1. x[i] \in Byte /\ i + Lead(x[i]) <= n /\ Lead(x[i]) \in 0 .. 3
    BY <1>1, <1>5
  <2>2. ASSUME NEW k \in 0 .. Lead(x[i]) PROVE y[i + k] = x[i + k]
    <3>1. i + k \in 1 .. n
      BY <1>1, <2>1, <2>2
    <3> QED
      BY <1>3, <3>1
  <2>3. i \in Nat
    OBVIOUS
  <2> QED
    BY <2>1, <2>2, <2>3, SameChar
<1>7. CharAt(y, n + 1) = <<c>>
  <2>1. w[1] \in Byte /\ Lead(w[1]) = m - 1 /\ 1 \in Nat /\ n + 1 \in Nat
    BY <1>1, <1>2, <1>5
  <2>2. ASSUME NEW k \in 0 .. Lead(w[1]) PROVE y[(n + 1) + k] = w[1 + k]
    <3>1. 1 + k \in 1 .. m /\ n + (1 + k) = (n + 1) + k
      BY <1>1, <1>2, <2>1
    <3>2. y[n + (1 + k)] = w[1 + k]
      BY <1>3, <3>1
    <3> QED
      BY <3>1, <3>2
  <2>3. CharAt(y, n + 1) = CharAt(w, 1)
    BY <2>1, <2>2, SameChar
  <2> QED
    BY <1>2, <2>3
<1>8. ASSUME NEW i \in n + 2 .. n + m PROVE CharAt(y, i) = <<>> /\ y[i] \in Byte /\ Lead(y[i]) = 0
  <2>1. i - n \in 2 .. m /\ i - n \in 1 .. m /\ n + (i - n) = i
    BY <1>1, <1>2
  <2>2. y[i] = w[i - n]
    BY <1>3, <2>1
  <2>3. y[i] \in Byte /\ 128 <= y[i] /\ y[i] < 192 /\ y[i] \in Int
    BY <1>2, <1>5, <2>1, <2>2
  <2>4. CharAt(y, i) = <<>>
    BY <2>3, SMT DEF CharAt
  <2> QED
    BY <2>3, <2>4, SMT DEF Lead
<1>9. y \in Characters
  <2>1. ASSUME NEW i \in 1 .. n + m PROVE y[i] \in Byte /\ i + Lead(y[i]) <= n + m
    <3>1. CASE i \in 1 .. n
      <4>1. y[i] = x[i] /\ x[i] \in Byte /\ i + Lead(x[i]) <= n /\ Lead(x[i]) \in 0 .. 3
        BY <1>1, <1>3, <1>5, <3>1
      <4> QED
        BY <1>1, <1>2, <4>1
    <3>2. CASE i = n + 1
      <4>1. 1 \in 1 .. m
        BY <1>2
      <4>2. y[i] = w[1]
        BY <1>3, <3>2, <4>1
      <4>3. w[1] \in Byte /\ Lead(w[1]) = m - 1
        BY <1>2, <1>5, <4>1
      <4>4. i + (m - 1) <= n + m
        BY <1>1, <1>2, <3>2
      <4> QED
        BY <4>2, <4>3, <4>4
    <3>3. CASE i \in n + 2 .. n + m
      BY <1>1, <1>2, <1>8, <3>3
    <3> QED
      BY <1>1, <1>2, <3>1, <3>2, <3>3
  <2> QED
    BY <1>3, <2>1 DEF Characters
<1>10. Continues(Reading, x, y, c)
  <2>1. Reading[y][n + 1] = <<c>>
    BY <1>1, <1>3, <1>7 DEF Reading
  <2>2. \A i \in 1 .. n : Reading[y][i] = Reading[x][i]
    BY <1>1, <1>3, <1>6 DEF Reading
  <2>3. \A i \in n + 2 .. n + m : Reading[y][i] = <<>>
    BY <1>1, <1>3, <1>8 DEF Reading
  <2> HIDE DEF Reading
  <2> QED
    BY <1>1, <1>2, <1>3, <1>4, <2>1, <2>2, <2>3 DEF Continues
<1> QED
  BY <1>9, <1>10 DEF y

\* The bytes of a string, and the string they are read as.
LEMMA BytesOfText ==
  ASSUME NEW s \in Seq(Char)
  PROVE  ToBytes(s) \in Seq(Byte) /\ FromBytes(ToBytes(s)) = s
<1> DEFINE code == [c \in Char |-> UTF8(c)]
<1>1. <<>> \in Characters
  <2>1. <<>> \in Str
    BY DEF Str
  <2> QED
    BY <2>1 DEF Characters
<1>2. Char \subseteq Int /\ Characters \subseteq Str
  <2>1. Char \subseteq Int
    BY CharSize
  <2> QED
    BY <2>1 DEF Characters
<1>3. code \in [Char -> Str]
  BY CharSpelled DEF Spells
<1>4. \A x \in Characters : \A c \in Char :
        x \o code[c] \in Characters /\ Continues(Reading, x, x \o code[c], c)
  BY CharSpelled, ReadStep
<1>5. DOMAIN s = 1 .. Len(s) /\ \A i \in 1 .. Len(s) : s[i] \in Char
  BY SeqElements
<1>6. Coded(code, s) = ToBytes(s)
  <2>1. [i \in 1 .. Len(s) |-> code[s[i]]] = [i \in DOMAIN s |-> UTF8(s[i])]
    BY <1>5
  <2> QED
    BY <2>1 DEF Coded, ToBytes
<1> HIDE DEF code
<1>7. Coded(code, s) \in Characters /\ Decoded(Reading, Coded(code, s)) = s
  <2>1. \A r \in Seq(Char) : Coded(code, r) \in Characters /\ Decoded(Reading, Coded(code, r)) = r
    BY <1>1, <1>2, <1>3, <1>4, CodeInverts, ZenonT(60)
  <2> QED
    BY <2>1
<1> DEFINE x == Coded(code, s)
<1>8. x \in Str /\ x \in Characters
  BY <1>2, <1>7
<1> HIDE DEF x
<1>9. Decoded(Reading, x) = FromBytes(x)
  <2>1. DOMAIN x = 1 .. Len(x) /\ Len(x) \in Nat
    BY <1>8 DEF Str
  <2>2. \A i \in 1 .. Len(x) : Reading[x][i] = CharAt(x, i)
    BY <1>8, <2>1 DEF Reading
  <2>3. [i \in 1 .. Len(x) |-> Reading[x][i]] = [i \in DOMAIN x |-> CharAt(x, i)]
    BY <2>1, <2>2
  <2> QED
    BY <2>3 DEF Decoded, FromBytes
<1>10. x \in Seq(Byte)
  <2>1. x \in Seq(Int) /\ \A i \in 1 .. Len(x) : x[i] \in Byte
    BY <1>8 DEF Characters, Str
  <2> QED
    BY <2>1, SeqWithin
<1> QED
  BY <1>6, <1>7, <1>9, <1>10 DEF x

\* A string is escaped to printing ASCII characters, and unescaped.
LEMMA URLString ==
  ASSUME NEW s \in Seq(Char)
  PROVE  /\ EncodeURL(s) \in Str
         /\ \A i \in 1 .. Len(EncodeURL(s)) : EncodeURL(s)[i] < MaxKeySuffix[1] /\ EncodeURL(s)[i] # Hash
         /\ DecodeURL(EncodeURL(s)) = s
<1> DEFINE b == ToBytes(s)
           x == Escape(b)
<1>1. b \in Seq(Byte) /\ FromBytes(b) = s
  BY BytesOfText
<1>2. x \in Escapes /\ Unescape(x) = b
  BY <1>1, EscapedBytes
<1>3. EncodeURL(s) = x
  BY DEF EncodeURL
<1> HIDE DEF x
<1>4. /\ x \in Str /\ DOMAIN x = 1 .. Len(x) /\ Len(x) \in Nat
      /\ \A i \in 1 .. Len(x) :
           /\ 36 < x[i] /\ x[i] < 127 /\ x[i] \in Int
           /\ x[i] = Percent => i + 2 <= Len(x) /\ DecodeHex(<<x[i + 1], x[i + 2]>>) # Refused
  BY <1>2 DEF Escapes, Str
<1>5. \A i \in 1 .. Len(x) : x[i] < MaxKeySuffix[1] /\ x[i] # Hash
  <2>1. 127 < MaxKeySuffix[1] /\ MaxKeySuffix[1] \in Int /\ Hash = 35
    BY SMT DEF MaxKeySuffix, Hash
  <2> HIDE DEF b
  <2>2. ASSUME NEW i \in 1 .. Len(x) PROVE x[i] < MaxKeySuffix[1] /\ x[i] # Hash
    <3>1. 36 < x[i] /\ x[i] < 127 /\ x[i] \in Int
      BY <1>4
    <3> QED
      BY <2>1, <3>1, SMT
  <2> QED
    BY <2>2
<1>6. ~ \E i \in DOMAIN x : BadEscape(x, i)
  <2>1. ASSUME NEW i \in DOMAIN x PROVE ~BadEscape(x, i)
    <3>1. i \in 1 .. Len(x)
      BY <1>4
    <3>2. x[i] = Percent => i + 2 <= Len(x) /\ DecodeHex(<<x[i + 1], x[i + 2]>>) # Refused
      BY <1>4, <3>1
    <3>3. ~(i + 2 > Len(x)) \/ ~(i + 2 <= Len(x))
      BY <1>4, <3>1
    <3> QED
      BY <3>2, <3>3 DEF BadEscape
  <2> QED
    BY <2>1
<1>7. DecodeURL(x) = s
  BY <1>1, <1>2, <1>6 DEF DecodeURL
<1> QED
  BY <1>3, <1>4, <1>5, <1>7

\* Strings of one character each, one after the other.
LEMMA FlattenOnes ==
  ASSUME NEW q \in Seq(Str), \A i \in 1 .. Len(q) : Len(q[i]) = 1
  PROVE  Len(FlattenSeq(q)) = Len(q)
<1> DEFINE P(n) == \A r \in Seq(Str) :
                     Len(r) = n /\ (\A i \in 1 .. n : Len(r[i]) = 1) => Len(FlattenSeq(r)) = n
           S == {n \in Nat : P(n)}
<1>1. P(0)
  <2>1. \A r \in Seq(Str) : Len(r) = 0 => FlattenSeq(r) = <<>>
    BY FlattenNone
  <2>2. Len(<<>>) = 0
    OBVIOUS
  <2> QED
    BY <2>1, <2>2, Zenon
<1>2. ASSUME NEW n \in Nat, P(n) PROVE P(n + 1)
  <2> SUFFICES ASSUME NEW r \in Seq(Str), Len(r) = n + 1, \A i \in 1 .. n + 1 : Len(r[i]) = 1
               PROVE  Len(FlattenSeq(r)) = n + 1
    OBVIOUS
  <2> DEFINE h == [i \in 1 .. n |-> r[i]]
  <2>1. h \in [1 .. n -> Str] /\ \A i \in 1 .. n : h[i] = r[i] /\ i \in 1 .. n + 1
    OBVIOUS
  <2>2. h \in Seq(Str) /\ Len(h) = n
    <3> HIDE DEF h
    <3> QED
      BY <2>1, FunctionIsSeq
  <2> HIDE DEF h
  <2>3. Len(FlattenSeq(h)) = n
    BY <1>2, <2>1, <2>2
  <2>4. FlattenSeq(r) = FlattenSeq(h) \o r[n + 1]
    BY <2>1, <2>2, FlattenStep
  <2>5. FlattenSeq(h) \in Str /\ r[n + 1] \in Str /\ Len(r[n + 1]) = 1
    BY <2>2, FlattenString
  <2> DEFINE x == FlattenSeq(h)
             y == r[n + 1]
  <2>6. Len(x \o y) = Len(x) + Len(y)
    <3> HIDE DEF x, y
    <3> QED
      BY <2>5, Concat DEF x, y
  <2> QED
    BY <2>3, <2>4, <2>5, <2>6
<1> HIDE DEF P
<1>3. S = Nat
  <2>1. S \subseteq Nat /\ 0 \in S
    BY <1>1
  <2>2. \A n \in S : n + 1 \in S
    BY <1>2
  <2> HIDE DEF S
  <2> QED
    BY <2>1, <2>2, InductionOn
<1>4. P(Len(q))
  BY <1>3
<1> QED
  BY <1>4 DEF P

\* A text has as many bytes as characters if they are of ASCII, and an empty
\* one has none.
LEMMA AsciiBytes ==
  ASSUME NEW s \in Str, AllAscii(s)
  PROVE  Len(ToBytes(s)) = Len(s)
<1> DEFINE q == [i \in 1 .. Len(s) |-> UTF8(s[i])]
<1>1. DOMAIN s = 1 .. Len(s) /\ Len(s) \in Nat /\ \A i \in 1 .. Len(s) : s[i] \in 0 .. 127
  <2>1. DOMAIN s = 1 .. Len(s) /\ Len(s) \in Nat
    BY DEF Str
  <2> QED
    BY <2>1 DEF AllAscii, Ascii
<1>2. \A c \in 0 .. 127 : UTF8(c) = <<c>> /\ <<c>> \in Str
  <2>1. \A c \in 0 .. 127 : c < 128 /\ c \in Int
    OBVIOUS
  <2>2. \A c \in 0 .. 127 : UTF8(c) = <<c>>
    BY <2>1 DEF UTF8
  <2>3. \A c \in Int : <<c>> \in Str
    BY DEF Str
  <2> QED
    BY <2>1, <2>2, <2>3
<1>3. \A i \in 1 .. Len(s) : UTF8(s[i]) \in Str /\ Len(UTF8(s[i])) = 1
  <2>1. \A c \in 0 .. 127 : UTF8(c) \in Str /\ Len(UTF8(c)) = 1
    <3>1. \A c : Len(<<c>>) = 1
      OBVIOUS
    <3> QED
      BY <1>2, <3>1, Zenon
  <2> QED
    BY <1>1, <2>1
<1>4. q \in [1 .. Len(s) -> Str] /\ \A i \in 1 .. Len(s) : Len(q[i]) = 1
  BY <1>3
<1>5. ToBytes(s) = FlattenSeq(q)
  BY <1>1 DEF ToBytes
<1> HIDE DEF q
<1>6. q \in Seq(Str) /\ Len(q) = Len(s)
  BY <1>1, <1>4, FunctionIsSeq
<1> QED
  BY <1>4, <1>5, <1>6, FlattenOnes

LEMMA NoBytes == ToBytes(<<>>) = <<>>
<1> DEFINE q == [i \in DOMAIN <<>> |-> UTF8(<<>>[i])]
<1>1. DOMAIN <<>> = 1 .. 0 /\ \A i \in 1 .. 0 : UTF8(<<>>[i]) \in Str
  OBVIOUS
<1>2. q \in [1 .. 0 -> Str]
  BY <1>1
<1> HIDE DEF q
<1>3. q \in Seq(Str) /\ Len(q) = 0
  BY <1>2, FunctionIsSeq
<1> QED
  BY <1>3, FlattenNone DEF ToBytes, q

\* EncodeULID lets through letters of the alphabet, as many as the text has;
\* those are as many as the width if the text is of ASCII.
LEMMA ULIDString ==
  ASSUME NEW s \in Str, EncodeULID(s) # Refused
  PROVE  /\ EncodeULID(s) = Upper(s) /\ EncodeULID(s) \in Str
         /\ Len(EncodeULID(s)) = Len(s) /\ Len(s) # 0
         /\ AllAscii(s) => Len(s) = Width["ulid"]
         /\ \A i \in 1 .. Len(EncodeULID(s)) : Contains(Crockford, EncodeULID(s)[i])
<1>1. EncodeULID(s) = Upper(s) /\ Len(ToBytes(s)) = Width["ulid"]
      /\ \A i \in DOMAIN Upper(s) : Contains(Crockford, Upper(s)[i])
  <2> DEFINE u == Upper(s)
  <2> HIDE DEF u
  <2> QED
    BY DEF EncodeULID, u
<1>2. Upper(s) \in Str /\ DOMAIN Upper(s) = 1 .. Len(Upper(s)) /\ Len(Upper(s)) = Len(s)
  BY UpperString DEF Str
<1>3. Width["ulid"] # 0
  BY WidthAssumption DEF FixedEncoders
<1>4. Len(s) = 0 => ToBytes(s) = <<>>
  BY NoBytes, EmptySeq DEF Str
<1>5. AllAscii(s) => Len(s) = Width["ulid"]
  BY <1>1, AsciiBytes
<1> QED
  BY <1>1, <1>2, <1>3, <1>4, <1>5

LEMMA CrockfordLetters ==
  /\ Len(Crockford) = 32 /\ Crockford \in Str
  /\ \A i \in 1 .. 32 : Plain(Crockford[i])
  /\ \A i, j \in 1 .. 32 : i < j => Crockford[i] < Crockford[j]
<1>1. Len(Crockford) = 32 /\ Crockford \in Str
  BY DEF Crockford, Str
<1>2. \A i \in 1 .. 32 : Plain(Crockford[i])
  BY DEF Crockford, Plain
<1>3. \A i, j \in 1 .. 32 : i < j => Crockford[i] < Crockford[j]
  BY DEF Crockford
<1> QED
  BY <1>1, <1>2, <1>3

LEMMA BytesType ==
  ASSUME NEW v \in Seq(Byte)
  PROVE  v \in Seq(Nat) /\ v \in Str
<1>1. \A i \in 1 .. Len(v) : v[i] \in Byte
  BY SeqElements
<1>2. \A i \in 1 .. Len(v) : v[i] \in Nat /\ v[i] \in Int
  <2>1. \A x \in Byte : x \in Nat /\ x \in Int
    BY DEF Byte
  <2> QED
    BY <1>1, <2>1
<1>3. v \in Seq(Nat)
  BY <1>2, SeqWithin
<1>4. v \in Seq(Int)
  BY <1>2, SeqWithin
<1> QED
  BY <1>3, <1>4 DEF Str

\* Text of characters between the delimiter and the suffix.
LEMMA BetweenHashAndSuffix ==
  ASSUME NEW d, NEW n, d \in Str, n \in Nat, n # 0, Len(d) = n, \A i \in 1 .. n : Plain(d[i])
  PROVE  d \in HashFree /\ d # <<>> /\ d[1] < MaxKeySuffix[1]
<1>1. \A x : Plain(x) => x # Hash /\ x < MaxKeySuffix[1]
  BY DEF Plain, Hash, MaxKeySuffix
<1>2. 1 \in 1 .. n
  OBVIOUS
<1>3. \A i \in 1 .. Len(d) : d[i] # Hash
  BY <1>1
<1>4. d \in HashFree
  BY <1>3 DEF HashFree
<1> QED
  BY <1>1, <1>2, <1>4

LEMMA TextType ==
  ASSUME NEW v \in Seq(Char)
  PROVE  v \in Str
<1>1. \A i \in 1 .. Len(v) : v[i] \in Int
  BY SeqElements, CharSize
<1>2. v \in Seq(Int)
  BY <1>1, SeqWithin
<1> QED
  BY <1>2 DEF Str

\* Numbers: what an encoder other than a text's or the bytes' pads.
Padding(enc) == enc.name \in {"rfc3339", "epoch", "epochms", "pad"}

\* rfc3339, epoch, epochms and pad write a number of a width.
LEMMA PaddedNumber ==
  ASSUME NEW enc, NEW goType, NEW v, Takes(enc, goType, v), Padding(enc)
  PROVE  /\ Number(enc, goType, v) \in Int
         /\ PadWidth(enc) \in Nat \ {0}
         /\ EncodeValue(enc, goType, v) = padInt(Number(enc, goType, v), PadWidth(enc))
<1>1. PadWidth(enc) \in Nat \ {0}
  <2>1. CASE enc.name = "pad"
    BY <2>1 DEF PadWidth, Takes, Known, Strings, FixedEncoders
  <2>2. CASE enc.name # "pad"
    BY <2>2, WidthAssumption DEF PadWidth, Padding, FixedEncoders
  <2> QED
    BY <2>1, <2>2
<1>2. v[1] \in Int
  <2>1. goType \notin {"string", "[]byte"} \cup ByteArrays
    BY DEF Takes, EncoderCompat, Padding, Strings, ByteArrays, Unsigned
  <2>2. v \in Seq(Int) /\ Len(v) = 1
    BY <2>1 DEF Takes, IsOf
  <2> QED
    BY <2>2
<1>3. Number(enc, goType, v) \in Int
  <2>1. CASE enc.name \in {"epoch", "epochms"}
    <3>1. Unit[enc.name] \in Nat \ {0}
      BY <2>1, UnitAssumption
    <3> DEFINE u == Unit[enc.name]
               n == v[1]
    <3>2. u \in Nat \ {0} /\ n \in Int
      BY <1>2, <3>1
    <3> HIDE DEF u, n
    <3>3. n \div u \in Int
      BY <3>2
    <3> QED
      BY <3>2, <3>3 DEF Number, u, n
  <2>2. CASE enc.name = "rfc3339"
    BY <1>2, <2>2 DEF Number
  <2>3. CASE enc.name = "pad"
    <3>1. goType # "time.Time"
      BY <2>3 DEF Takes, EncoderCompat, Strings, Unsigned
    <3> QED
      BY <1>2, <2>3, <3>1 DEF Number
  <2> QED
    BY <2>1, <2>2, <2>3 DEF Padding
<1>4. EncodeValue(enc, goType, v) = padInt(Number(enc, goType, v), PadWidth(enc))
  BY DEF EncodeValue, Padding
<1> QED
  BY <1>1, <1>3, <1>4

\* What a number that is not refused is encoded as.
LEMMA PaddedString ==
  ASSUME NEW n \in Int, NEW w \in Nat \ {0}, padInt(n, w) # Refused
  PROVE  /\ n \in Nat /\ n < Tens[w] /\ padInt(n, w) = Decimal(n, w)
         /\ padInt(n, w) \in HashFree /\ Len(padInt(n, w)) = w /\ padInt(n, w)[1] < MaxKeySuffix[1]
<1>1. n \in Nat /\ n < Tens[w] /\ padInt(n, w) = Decimal(n, w)
  BY DEF padInt, Fits
<1>2. /\ Decimal(n, w) \in Str /\ Len(Decimal(n, w)) = w
      /\ \A i \in 1 .. w : Plain(Decimal(n, w)[i])
  BY <1>1, DecimalString
<1> DEFINE d == Decimal(n, w)
<1> HIDE DEF d
<1>4. d \in Str /\ Len(d) = w /\ \A i \in 1 .. w : Plain(d[i])
  BY <1>2 DEF d
<1>5. d \in HashFree /\ d[1] < MaxKeySuffix[1]
  BY <1>4, BetweenHashAndSuffix
<1> QED
  BY <1>1, <1>4, <1>5 DEF d

\* The bytes of a field, as a segment.
LEMMA BytesString ==
  ASSUME NEW v \in Seq(Byte), Len(v) # 0
  PROVE  /\ EncodeHex(v) \in HashFree /\ EncodeHex(v) # <<>> /\ Len(EncodeHex(v)) = 2 * Len(v)
         /\ EncodeHex(v)[1] < MaxKeySuffix[1]
<1> DEFINE d == EncodeHex(v)
           l == Len(v)
<1>1. d \in Str /\ Len(d) = 2 * l /\ \A i \in 1 .. 2 * l : Plain(d[i])
  BY HexString
<1>2. l \in Nat \ {0}
  OBVIOUS
<1> HIDE DEF d, l
<1>3. 2 * l \in Nat /\ 2 * l # 0
  BY <1>2
<1>4. d \in HashFree /\ d # <<>> /\ d[1] < MaxKeySuffix[1]
  BY <1>1, <1>3, BetweenHashAndSuffix
<1> QED
  BY <1>1, <1>4 DEF d, l

\* A ULID, as a segment.
LEMMA ULIDSegment ==
  ASSUME NEW s \in Str, EncodeULID(s) # Refused
  PROVE  /\ EncodeULID(s) \in HashFree /\ EncodeULID(s) # <<>>
         /\ AllAscii(s) => Len(EncodeULID(s)) = Width["ulid"]
         /\ EncodeULID(s)[1] < MaxKeySuffix[1]
<1> DEFINE d == EncodeULID(s)
           l == Len(s)
<1>1. d \in Str /\ Len(d) = l /\ \A i \in 1 .. Len(d) : Contains(Crockford, d[i])
  BY ULIDString
<1>2. l \in Nat \ {0} /\ (AllAscii(s) => l = Width["ulid"])
  BY ULIDString DEF Str
<1> HIDE DEF d, l
<1>3. \A i \in 1 .. l : Plain(d[i])
  BY <1>1, CrockfordLetters DEF Contains
<1>4. d \in HashFree /\ d # <<>> /\ d[1] < MaxKeySuffix[1]
  BY <1>1, <1>2, <1>3, BetweenHashAndSuffix
<1> QED
  BY <1>1, <1>2, <1>4 DEF d, l

\* What is not refused is a segment, and not an empty one.
LEMMA EncodedSegment ==
  ASSUME NEW enc, NEW goType, NEW v, Takes(enc, goType, v), EncodeValue(enc, goType, v) # Refused
  PROVE  EncodeValue(enc, goType, v) \in HashFree /\ EncodeValue(enc, goType, v) # <<>>
<1> DEFINE x == EncodeValue(enc, goType, v)
<1>1. CASE Padding(enc)
  <2>1. Number(enc, goType, v) \in Int /\ PadWidth(enc) \in Nat \ {0}
        /\ x = padInt(Number(enc, goType, v), PadWidth(enc)) /\ x # Refused
    BY <1>1, PaddedNumber
  <2>2. x \in HashFree /\ Len(x) = PadWidth(enc)
    <3> HIDE DEF x
    <3> QED
      BY <2>1, PaddedString
  <2> HIDE DEF x
  <2>3. x # <<>>
    BY <2>1, <2>2
  <2> QED
    BY <2>2, <2>3 DEF x
<1>2. CASE enc.name \in Strings
  <2>1. goType = "string" /\ v \in Seq(Char) /\ v \in Str
    <3>1. goType = "string"
      BY <1>2 DEF Takes, EncoderCompat, Strings
    <3>2. v \in Seq(Char)
      BY <3>1 DEF Takes, IsOf, ByteArrays
    <3> QED
      BY <3>1, <3>2, TextType
  <2>2. CASE enc.name = "ulid"
    <3>1. x = EncodeULID(v)
      BY <2>2 DEF EncodeValue
    <3> QED
      BY <2>1, <3>1, ULIDSegment
  <2>3. CASE enc.name # "ulid"
    <3>1. Upper(v) \in Str /\ Lower(v) \in Str /\ EncodeURL(v) \in Str
      BY <2>1, UpperString, LowerString, URLString
    <3>2. PICK s \in Str : x = CheckSegment(s)
      BY <1>2, <2>1, <2>3, <3>1 DEF EncodeValue, Strings
    <3> QED
      BY <3>2, CheckedSegment
  <2> QED
    BY <2>2, <2>3
<1>3. CASE enc.name = "hex"
  <2>1. goType = "[]byte" \/ goType \in ByteArrays
    BY <1>3 DEF Takes, EncoderCompat, Strings
  <2>2. v \in Seq(Byte) /\ (goType \in ByteArrays => Len(v) # 0)
    <3>1. CASE goType = "[]byte"
      BY <3>1 DEF Takes, IsOf, ByteArrays
    <3>2. CASE goType \in ByteArrays
      BY <3>2 DEF Takes, IsOf, ByteArrays, ArrayLength
    <3> QED
      BY <2>1, <3>1, <3>2
  <2>3. CASE goType = "[]byte"
    <3>1. x = CheckSegment(EncodeHex(v)) /\ EncodeHex(v) \in Str
      BY <1>3, <2>2, <2>3, HexString DEF EncodeValue
    <3> QED
      BY <3>1, CheckedSegment
  <2>4. CASE goType # "[]byte"
    <3>1. x = EncodeHex(v) /\ Len(v) # 0
      BY <1>3, <2>1, <2>2, <2>4 DEF EncodeValue
    <3> QED
      BY <2>2, <3>1, BytesString
  <2> QED
    BY <2>3, <2>4
<1>4. Padding(enc) \/ enc.name \in Strings \/ enc.name = "hex"
  BY DEF Takes, Known, Padding, FixedEncoders, Strings
<1> QED
  BY <1>1, <1>2, <1>3, <1>4

------------------------------------------------------------------------------
(* Encoders of a fixed width keep the order of values, and their            *)
(* predecessors.                                                            *)

\* How long an encoder of a fixed width makes a segment.
FixedLength(enc, goType) ==
  IF enc.name = "ulid" THEN Width["ulid"]
  ELSE IF enc.name = "hex" THEN 2 * ArrayLength[goType]
  ELSE PadWidth(enc)

\* The encoders of a fixed width.
LEMMA FixedKinds ==
  ASSUME NEW enc, NEW goType, Known(enc), FixedWidth(enc, goType)
  PROVE  \/ Padding(enc) /\ enc.name \notin {"ulid", "hex"}
         \/ enc.name = "ulid"
         \/ enc.name = "hex" /\ goType \in ByteArrays
  BY DEF Known, FixedWidth, Padding, FixedEncoders, Strings

LEMMA ArrayBytes ==
  ASSUME NEW enc, NEW goType, NEW v, Takes(enc, goType, v), enc.name = "hex", goType \in ByteArrays
  PROVE  /\ v \in Seq(Byte) /\ Len(v) = ArrayLength[goType] /\ Len(v) # 0
         /\ EncodeValue(enc, goType, v) = EncodeHex(v)
<1>1. v \in Seq(Byte) /\ Len(v) = ArrayLength[goType]
  BY DEF Takes, IsOf, ByteArrays
<1>2. ArrayLength[goType] # 0
  BY DEF ByteArrays, ArrayLength
<1>3. EncodeValue(enc, goType, v) = EncodeHex(v)
  BY DEF EncodeValue, ByteArrays
<1> QED
  BY <1>1, <1>2, <1>3

LEMMA ULIDValue ==
  ASSUME NEW enc, NEW goType, NEW v, Takes(enc, goType, v), enc.name = "ulid"
  PROVE  v \in Str /\ EncodeValue(enc, goType, v) = EncodeULID(v)
<1>1. goType = "string"
  BY DEF Takes, EncoderCompat, Strings
<1>2. v \in Seq(Char)
  BY <1>1 DEF Takes, IsOf, ByteArrays
<1>3. EncodeValue(enc, goType, v) = EncodeULID(v)
  BY DEF EncodeValue
<1> QED
  BY <1>2, <1>3, TextType

\* A segment of a fixed width is as long for every value, a ULID being of
\* ASCII, and not of the characters from the suffix on.
LEMMA FixedSegment ==
  ASSUME NEW enc, NEW goType, NEW v, Takes(enc, goType, v), FixedWidth(enc, goType),
         EncodeValue(enc, goType, v) # Refused
  PROVE  /\ AsciiULID(enc, v) => Len(EncodeValue(enc, goType, v)) = FixedLength(enc, goType)
         /\ EncodeValue(enc, goType, v)[1] < MaxKeySuffix[1]
<1> DEFINE x == EncodeValue(enc, goType, v)
<1>1. CASE Padding(enc) /\ enc.name \notin {"ulid", "hex"}
  <2>1. Number(enc, goType, v) \in Int /\ PadWidth(enc) \in Nat \ {0}
        /\ x = padInt(Number(enc, goType, v), PadWidth(enc)) /\ x # Refused
    BY <1>1, PaddedNumber
  <2> HIDE DEF x
  <2>2. Len(x) = PadWidth(enc) /\ x[1] < MaxKeySuffix[1]
    BY <2>1, PaddedString
  <2> QED
    BY <1>1, <2>2 DEF x, FixedLength
<1>2. CASE enc.name = "ulid"
  BY <1>2, ULIDValue, ULIDSegment DEF FixedLength, AsciiULID
<1>3. CASE enc.name = "hex" /\ goType \in ByteArrays
  BY <1>3, ArrayBytes, BytesString DEF FixedLength
<1> QED
  BY <1>1, <1>2, <1>3, FixedKinds DEF Takes

\* The digit of a byte that EncodeHex writes first, and second.
HexDigit(byte, first) == Digit(IF first THEN byte \div 16 ELSE byte % 16, 97)

LEMMA HexPlace ==
  ASSUME NEW b \in Seq(Byte), NEW i \in 1 .. 2 * Len(b)
  PROVE  EncodeHex(b)[i] = HexDigit(b[(i + 1) \div 2], i % 2 = 1)
<1> DEFINE byte == b[(i + 1) \div 2]
<1>1. EncodeHex(b)[i] = Digit(IF i % 2 = 1 THEN byte \div 16 ELSE byte % 16, 97)
  BY DEF EncodeHex
<1> HIDE DEF byte
<1>2. EncodeHex(b)[i] = HexDigit(byte, i % 2 = 1)
  BY <1>1 DEF HexDigit
<1> QED
  BY <1>2 DEF byte

\* Bytes compare as their digits do.
LEMMA HexDigitOrder ==
  ASSUME NEW a \in Byte, NEW b \in Byte, a < b
  PROVE  \/ HexDigit(a, TRUE) < HexDigit(b, TRUE)
         \/ HexDigit(a, TRUE) = HexDigit(b, TRUE) /\ HexDigit(a, FALSE) < HexDigit(b, FALSE)
<1>0. ASSUME NEW c \in 0 .. 15, NEW d \in 0 .. 15, c < d
      PROVE  Digit(c, 97) < Digit(d, 97)
  BY <1>0 DEF Digit, Zero
<1> DEFINE c == a \div 16
           d == b \div 16
           k == a % 16
           l == b % 16
<1>1. a \in 0 .. 255 /\ b \in 0 .. 255
  BY DEF Byte
<1>2. c \in 0 .. 15 /\ k \in 0 .. 15 /\ a = 16 * c + k
  BY <1>1
<1>3. d \in 0 .. 15 /\ l \in 0 .. 15 /\ b = 16 * d + l
  BY <1>1
<1>5. /\ HexDigit(a, TRUE) = Digit(c, 97) /\ HexDigit(b, TRUE) = Digit(d, 97)
      /\ HexDigit(a, FALSE) = Digit(k, 97) /\ HexDigit(b, FALSE) = Digit(l, 97)
  BY DEF HexDigit
<1> HIDE DEF c, d, k, l
<1>6. ASSUME ~(c < d) PROVE c = d /\ k < l
  <2>1. a < b /\ 16 * d + l <= 16 * c + l
    BY <1>1, <1>2, <1>3, <1>6
  <2>2. 16 * c + k < 16 * d + l
    BY <1>2, <1>3, <2>1
  <2> QED
    BY <1>2, <1>3, <1>6, <2>1, <2>2
<1>7. CASE c < d
  BY <1>0, <1>2, <1>3, <1>5, <1>7
<1>8. CASE c = d /\ k < l
  BY <1>0, <1>2, <1>3, <1>5, <1>8
<1> QED
  BY <1>6, <1>7, <1>8

LEMMA HexSplits ==
  ASSUME NEW v \in Seq(Byte), NEW w \in Seq(Byte), Len(v) = Len(w), Splits(v, w)
  PROVE  Splits(EncodeHex(v), EncodeHex(w))
<1> DEFINE x == EncodeHex(v)
           y == EncodeHex(w)
           n == Len(v)
<1>1. /\ n \in Nat /\ n = Len(v) /\ n = Len(w) /\ Len(x) = 2 * n /\ Len(y) = 2 * n
      /\ \A j \in 1 .. n : v[j] \in Byte /\ w[j] \in Byte
  BY HexString, SeqElements
<1>2. PICK i \in 1 .. n : v[i] < w[i] /\ \A j \in 1 .. i - 1 : v[j] = w[j]
  BY DEF Splits
<1>3. \A j \in 1 .. 2 * n : x[j] = HexDigit(v[(j + 1) \div 2], j % 2 = 1)
  BY <1>1, HexPlace
<1>4. \A j \in 1 .. 2 * n : y[j] = HexDigit(w[(j + 1) \div 2], j % 2 = 1)
  BY <1>1, HexPlace
<1> HIDE DEF x, y, n
<1>5. \A j \in 1 .. 2 * i - 2 : x[j] = y[j]
  <2> TAKE j \in 1 .. 2 * i - 2
  <2> DEFINE h == (j + 1) \div 2
  <2>1. h \in 1 .. i - 1 /\ j \in 1 .. 2 * n
    BY <1>1, <1>2
  <2>2. v[h] = w[h]
    BY <1>2, <2>1
  <2> QED
    BY <1>3, <1>4, <2>1, <2>2
<1>6. x[2 * i - 1] = HexDigit(v[i], TRUE) /\ y[2 * i - 1] = HexDigit(w[i], TRUE)
  <2> DEFINE j == 2 * i - 1
  <2>1. j \in 1 .. 2 * n /\ (j + 1) \div 2 = i /\ j % 2 = 1
    BY <1>1, <1>2
  <2> HIDE DEF j
  <2>2. x[j] = HexDigit(v[i], j % 2 = 1) /\ y[j] = HexDigit(w[i], j % 2 = 1)
    BY <1>3, <1>4, <2>1
  <2>3. (j % 2 = 1) = TRUE
    BY <2>1
  <2> QED
    BY <2>2, <2>3 DEF j
<1>7. x[2 * i] = HexDigit(v[i], FALSE) /\ y[2 * i] = HexDigit(w[i], FALSE)
  <2> DEFINE j == 2 * i
  <2>1. j \in 1 .. 2 * n /\ (j + 1) \div 2 = i /\ j % 2 = 0
    BY <1>1, <1>2
  <2> HIDE DEF j
  <2>2. x[j] = HexDigit(v[i], j % 2 = 1) /\ y[j] = HexDigit(w[i], j % 2 = 1)
    BY <1>3, <1>4, <2>1
  <2>3. (j % 2 = 1) = FALSE
    BY <2>1
  <2> QED
    BY <2>2, <2>3 DEF j
<1>8. CASE HexDigit(v[i], TRUE) < HexDigit(w[i], TRUE)
  <2> DEFINE j == 2 * i - 1
  <2>1. x[j] < y[j]
    BY <1>6, <1>8
  <2>2. j \in 1 .. 2 * n /\ j \in Int /\ j - 1 = 2 * i - 2
    BY <1>1, <1>2
  <2> HIDE DEF j
  <2>3. \A m \in 1 .. j - 1 : x[m] = y[m]
    BY <1>5, <2>2
  <2>4. Splits(x, y)
    BY <1>1, <2>1, <2>2, <2>3 DEF Splits
  <2> QED
    BY <2>4 DEF x, y
<1>9. CASE HexDigit(v[i], TRUE) = HexDigit(w[i], TRUE) /\ HexDigit(v[i], FALSE) < HexDigit(w[i], FALSE)
  <2> DEFINE j == 2 * i
  <2>1. \A m \in 1 .. j - 1 : x[m] = y[m]
    <3> TAKE m \in 1 .. j - 1
    <3>1. m \in 1 .. 2 * i - 2 \/ m = 2 * i - 1
      BY <1>2
    <3> QED
      BY <1>5, <1>6, <1>9, <3>1
  <2>2. x[j] < y[j]
    BY <1>7, <1>9
  <2>3. j \in 1 .. 2 * n
    BY <1>1, <1>2
  <2> HIDE DEF j
  <2>4. Splits(x, y)
    BY <1>1, <2>1, <2>2, <2>3 DEF Splits
  <2> QED
    BY <2>4 DEF x, y
<1>10. v[i] \in Byte /\ w[i] \in Byte
  BY <1>1, <1>2
<1> QED
  BY <1>2, <1>8, <1>9, <1>10, HexDigitOrder

\* The order of byte arrays of one length is that of their encodings.
LEMMA HexOrder ==
  ASSUME NEW v \in Seq(Byte), NEW w \in Seq(Byte), Len(v) = Len(w)
  PROVE  Less(EncodeHex(v), EncodeHex(w)) <=> Less(v, w)
<1> DEFINE x == EncodeHex(v)
           y == EncodeHex(w)
<1>1. x \in Str /\ y \in Str /\ Len(x) = Len(y)
  BY HexString
<1>2. v \in Str /\ w \in Str
  BY BytesType
<1>3. Splits(v, w) => Splits(x, y)
  BY HexSplits
<1>4. Splits(w, v) => Splits(y, x)
  BY HexSplits
<1>5. v = w => x = y
  OBVIOUS
<1> HIDE DEF x, y
<1>6. Less(v, w) => Less(x, y)
  BY <1>1, <1>2, <1>3, SameLengthLess
<1>7. Less(w, v) => Less(y, x)
  BY <1>1, <1>2, <1>4, SameLengthLess
<1>8. Less(v, w) \/ Less(w, v) \/ v = w
  BY <1>2, SameLengthLess
<1>9. /\ ~(Less(x, y) /\ Less(y, x)) /\ (x = y => ~Less(x, y))
  BY <1>1, SameLengthLess
<1>10. Less(x, y) <=> Less(v, w)
  BY <1>5, <1>6, <1>7, <1>8, <1>9
<1> QED
  BY <1>10 DEF x, y

\* The segments of an encoder of a fixed width are of one length, and their
\* order is that of the values.  A ULID has to be of ASCII: EncodeULID lets
\* through others, and makes them shorter (encode.go 147-150).
THEOREM FixedOrder ==
  ASSUME NEW enc, NEW goType, NEW v, NEW w, Takes(enc, goType, v), Takes(enc, goType, w),
         FixedWidth(enc, goType), AsciiULID(enc, v), AsciiULID(enc, w),
         EncodeValue(enc, goType, v) # Refused, EncodeValue(enc, goType, w) # Refused
  PROVE  /\ Len(EncodeValue(enc, goType, v)) = Len(EncodeValue(enc, goType, w))
         /\ Less(EncodeValue(enc, goType, v), EncodeValue(enc, goType, w))
              <=> ValueLess(enc, goType, v, w)
<1>0. Len(EncodeValue(enc, goType, v)) = Len(EncodeValue(enc, goType, w))
  BY FixedSegment
<1> DEFINE n == Number(enc, goType, v)
           m == Number(enc, goType, w)
           p == PadWidth(enc)
<1>1. CASE Padding(enc) /\ enc.name \notin {"ulid", "hex"}
  <2>1. n \in Int /\ m \in Int /\ p \in Nat \ {0}
        /\ EncodeValue(enc, goType, v) = padInt(n, p) /\ EncodeValue(enc, goType, w) = padInt(m, p)
    BY <1>1, PaddedNumber
  <2>2. ValueLess(enc, goType, v, w) <=> n < m
    BY <1>1 DEF ValueLess
  <2> HIDE DEF n, m, p
  <2>3. n \in Nat /\ n < Tens[p] /\ padInt(n, p) = Decimal(n, p)
    BY <2>1, PaddedString
  <2>4. m \in Nat /\ m < Tens[p] /\ padInt(m, p) = Decimal(m, p)
    BY <2>1, PaddedString
  <2>5. Less(Decimal(n, p), Decimal(m, p)) <=> n < m
    BY <2>1, <2>3, <2>4, DecimalOrder
  <2> QED
    BY <1>0, <2>1, <2>2, <2>3, <2>4, <2>5
<1>2. CASE enc.name = "ulid"
  <2>1. EncodeValue(enc, goType, v) = Upper(v)
    BY <1>2, ULIDValue, ULIDString
  <2>2. EncodeValue(enc, goType, w) = Upper(w)
    BY <1>2, ULIDValue, ULIDString
  <2> QED
    BY <1>0, <1>2, <2>1, <2>2 DEF ValueLess
<1>3. CASE enc.name = "hex" /\ goType \in ByteArrays
  <2>1. v \in Seq(Byte) /\ w \in Seq(Byte) /\ Len(v) = Len(w)
        /\ EncodeValue(enc, goType, v) = EncodeHex(v) /\ EncodeValue(enc, goType, w) = EncodeHex(w)
    BY <1>3, ArrayBytes
  <2>2. Less(EncodeHex(v), EncodeHex(w)) <=> Less(v, w)
    BY <2>1, HexOrder
  <2> QED
    BY <1>0, <1>3, <2>1, <2>2 DEF ValueLess
<1> QED
  BY <1>1, <1>2, <1>3, FixedKinds DEF Takes

\* The predecessor of a number's segment is the number below it.
LEMMA PadPredecessor ==
  ASSUME NEW n \in Int, NEW m \in Int, NEW p \in Nat \ {0}, padInt(n, p) # Refused, padInt(m, p) # Refused
  PROVE  /\ PredPad(n, p) = Refused => ~Less(padInt(m, p), padInt(n, p))
         /\ PredPad(n, p) # Refused =>
              /\ PredPad(n, p) \in HashFree /\ Len(PredPad(n, p)) = p
              /\ Less(padInt(m, p), padInt(n, p)) <=> ~Less(PredPad(n, p), padInt(m, p))
<1>1. n \in Nat /\ n < Tens[p] /\ padInt(n, p) = Decimal(n, p)
  BY PaddedString
<1>2. m \in Nat /\ m < Tens[p] /\ padInt(m, p) = Decimal(m, p)
  BY PaddedString
<1>3. Less(Decimal(m, p), Decimal(n, p)) <=> m < n
  BY <1>1, <1>2, DecimalOrder
<1>4. CASE n <= 0
  BY <1>1, <1>2, <1>3, <1>4 DEF PredPad
<1>5. CASE n > 0
  <2>1. n - 1 \in Nat /\ n - 1 \in Int /\ n - 1 < Tens[p]
    <3>1. Tens[p] \in Nat
      BY PowersOfTen
    <3> QED
      BY <1>1, <1>5, <3>1
  <2>2. PredPad(n, p) = padInt(n - 1, p) /\ padInt(n - 1, p) = Decimal(n - 1, p)
    BY <1>5, <2>1 DEF PredPad, padInt, Fits
  <2>3. Decimal(n - 1, p) # Refused
    <3>1. Len(Decimal(n - 1, p)) = p /\ \A i \in 1 .. p : Plain(Decimal(n - 1, p)[i])
      BY <2>1, DecimalString
    <3>2. 1 \in 1 .. p /\ Refused[1] = -1
      BY DEF Refused
    <3> QED
      BY <3>1, <3>2 DEF Plain
  <2>4. PredPad(n, p) \in HashFree /\ Len(PredPad(n, p)) = p
    BY <2>1, <2>2, <2>3, PaddedString
  <2>5. Less(Decimal(n - 1, p), Decimal(m, p)) <=> n - 1 < m
    BY <1>2, <2>1, DecimalOrder
  <2> QED
    BY <1>1, <1>2, <1>3, <2>1, <2>2, <2>3, <2>4, <2>5
<1> QED
  BY <1>4, <1>5

------------------------------------------------------------------------------
\* An alphabet in ascending order, and a text in it.
Ascending(A) ==
  /\ A \in Str /\ Len(A) >= 1
  /\ \A i, j \in 1 .. Len(A) : i < j => A[i] < A[j]
TextIn(A, s) == s \in Str /\ \A i \in 1 .. Len(s) : \E k \in 1 .. Len(A) : s[i] = A[k]

\* A set of places has a greatest one.
LEMMA GreatestPlace ==
  ASSUME NEW n, n \in Nat, NEW S, S \subseteq 1 .. n, S # {}
  PROVE  \E i \in S : \A j \in S : j <= i
<1> DEFINE D == {k \in Nat : \E j \in S : k = n - j}
<1>1. D \subseteq Nat /\ D # {}
  <2>1. PICK j \in S : TRUE
    OBVIOUS
  <2>2. j \in 1 .. n
    BY <2>1
  <2>3. n - j \in Nat
    BY <2>2
  <2> QED
    BY <2>1, <2>3
<1>2. PICK d \in D : \A k \in D : d <= k
  <2> HIDE DEF D
  <2> QED
    BY <1>1, LeastOfNat
<1>3. PICK i \in S : d = n - i
  BY <1>2
<1>4. ASSUME NEW j \in S PROVE j <= i
  <2>1. j \in 1 .. n /\ i \in 1 .. n
    OBVIOUS
  <2>2. n - j \in Nat
    BY <2>1
  <2>3. n - j \in D
    BY <2>2
  <2>4. d <= n - j
    BY <1>2, <2>3
  <2> QED
    BY <1>3, <2>1, <2>4
<1> QED
  BY <1>4

\* Where predAlphabet steps back, and what it makes of a text.
LEMMA PredecessorShape ==
  ASSUME NEW A, NEW y, Ascending(A), TextIn(A, y)
  PROVE  \/ /\ predAlphabet(y, A) = Refused
            /\ \A i \in 1 .. Len(y) : y[i] = A[1]
         \/ \E l \in 1 .. Len(y) : \E k \in 2 .. Len(A) :
              /\ y[l] = A[k]
              /\ \A i \in 1 .. Len(y) : i > l => y[i] = A[1]
              /\ predAlphabet(y, A) = [i \in 1 .. Len(y) |->
                                         IF i < l THEN y[i] ELSE IF i = l THEN A[k - 1] ELSE A[Len(A)]]
<1> DEFINE above == {i \in DOMAIN y : y[i] # A[1]}
           last == CHOOSE i \in above : \A j \in above : j <= i
           at == CHOOSE k \in DOMAIN A : A[k] = y[last]
           c(i) == CASE i < last -> y[i]
                     [] i = last -> A[at - 1]
                     [] i > last -> A[Len(A)]
           p == [i \in DOMAIN y |-> c(i)]
<1>1. predAlphabet(y, A) = IF above = {} \/ ~Contains(A, y[last]) THEN Refused ELSE p
  BY DEF predAlphabet
<1>2. DOMAIN y = 1 .. Len(y) /\ DOMAIN A = 1 .. Len(A) /\ Len(y) \in Nat /\ Len(A) \in Nat
  BY DEF TextIn, Ascending, Str
<1>3. CASE above = {}
  <2>1. \A i \in 1 .. Len(y) : y[i] = A[1]
    BY <1>2, <1>3
  <2> HIDE DEF above, last, p
  <2> QED
    BY <1>1, <1>3, <2>1
<1>4. CASE above # {}
  <2>1. above \subseteq 1 .. Len(y)
    BY <1>2
  <2>2. (\A i \in above : y[i] # A[1]) /\ \A i \in 1 .. Len(y) : i \notin above => y[i] = A[1]
    BY <1>2
  <2> HIDE DEF above
  <2>3. last \in above /\ last \in 1 .. Len(y) /\ \A j \in above : j <= last
    <3>1. \E i \in above : \A j \in above : j <= i
      BY <1>2, <1>4, <2>1, GreatestPlace
    <3> QED
      BY <2>1, <3>1
  <2>10. \A i \in 1 .. Len(y) : i > last => y[i] = A[1]
    BY <2>2, <2>3
  <2> HIDE DEF last
  <2>4. \E k \in 1 .. Len(A) : y[last] = A[k]
    BY <2>3 DEF TextIn
  <2>5. at \in 1 .. Len(A) /\ A[at] = y[last]
    BY <1>2, <2>4
  <2> HIDE DEF at
  <2>6. at # 1
    BY <2>2, <2>3, <2>5
  <2>7. at \in 2 .. Len(A) /\ Contains(A, y[last])
    BY <1>2, <2>4, <2>5, <2>6 DEF Contains
  <2> DEFINE q == [i \in 1 .. Len(y) |->
                     IF i < last THEN y[i] ELSE IF i = last THEN A[at - 1] ELSE A[Len(A)]]
  <2>8. p = q
    <3>1. ASSUME NEW i \in 1 .. Len(y) PROVE p[i] = q[i]
      <4>1. CASE i < last
        BY <1>2, <2>3, <4>1
      <4>2. CASE i = last
        BY <1>2, <2>3, <4>2
      <4>3. CASE i > last
        BY <1>2, <2>3, <4>3
      <4> QED
        BY <2>3, <4>1, <4>2, <4>3
    <3>2. DOMAIN p = 1 .. Len(y) /\ p = [i \in DOMAIN p |-> p[i]]
      <4>1. DOMAIN p = DOMAIN y
        OBVIOUS
      <4> HIDE DEF c
      <4>2. p = [i \in DOMAIN p |-> p[i]]
        OBVIOUS
      <4> QED
        BY <1>2, <4>1, <4>2
    <3>3. DOMAIN q = 1 .. Len(y) /\ q = [i \in DOMAIN q |-> q[i]]
      OBVIOUS
    <3> HIDE DEF p, q
    <3> QED
      BY <3>1, <3>2, <3>3
  <2>9. predAlphabet(y, A) = q
    <3> HIDE DEF p, q
    <3> QED
      BY <1>1, <1>4, <2>7, <2>8
  <2> QED
    BY <2>3, <2>5, <2>7, <2>9, <2>10
<1> QED
  BY <1>3, <1>4

\* A text and what predAlphabet makes of it, as sequences.
LEMMA PredecessorText ==
  ASSUME NEW A, NEW y, Ascending(A), TextIn(A, y), NEW l \in 1 .. Len(y), NEW k \in 2 .. Len(A),
         y[l] = A[k],
         NEW p, p = [i \in 1 .. Len(y) |->
                       IF i < l THEN y[i] ELSE IF i = l THEN A[k - 1] ELSE A[Len(A)]]
  PROVE  /\ TextIn(A, p) /\ Len(p) = Len(y)
         /\ \A i \in 1 .. Len(y) : /\ i < l => p[i] = y[i]
                                   /\ i > l => p[i] = A[Len(A)]
         /\ p[l] = A[k - 1]
<1>1. Len(y) \in Nat /\ Len(A) \in Nat /\ Len(A) \in 1 .. Len(A) /\ k - 1 \in 1 .. Len(A)
      /\ \A j \in 1 .. Len(A) : A[j] \in Int
  BY DEF TextIn, Ascending, Str
<1>2. \A i \in 1 .. Len(y) : p[i] = IF i < l THEN y[i] ELSE IF i = l THEN A[k - 1] ELSE A[Len(A)]
  OBVIOUS
<1>3. ASSUME NEW i \in 1 .. Len(y) PROVE p[i] \in Int /\ \E j \in 1 .. Len(A) : p[i] = A[j]
  <2>1. \E j \in 1 .. Len(A) : y[i] = A[j]
    BY DEF TextIn
  <2>2. \E j \in 1 .. Len(A) : p[i] = A[j]
    BY <1>1, <1>2, <2>1
  <2> QED
    BY <1>1, <2>2
<1>4. p \in [1 .. Len(y) -> Int]
  BY <1>3
<1>5. p \in Str /\ Len(p) = Len(y)
  BY <1>1, <1>4, FunctionIsSeq DEF Str
<1> QED
  BY <1>2, <1>3, <1>5 DEF TextIn

\* Of the texts of one length in an alphabet, the predecessor is the last
\* before a text, and a text without one is the first of all.
LEMMA AlphabetPredecessor ==
  ASSUME NEW A, NEW x, NEW y, Ascending(A), TextIn(A, x), TextIn(A, y), Len(x) = Len(y)
  PROVE  \/ predAlphabet(y, A) = Refused /\ ~Less(x, y)
         \/ /\ TextIn(A, predAlphabet(y, A)) /\ Len(predAlphabet(y, A)) = Len(y)
            /\ Len(y) # 0
            /\ Less(x, y) <=> ~Less(predAlphabet(y, A), x)
<1>1. x \in Str /\ y \in Str /\ Len(y) \in Nat
      /\ \A i \in 1 .. Len(y) : x[i] \in Int /\ y[i] \in Int
  BY DEF TextIn, Str
<1>2. Len(A) \in Nat /\ 1 \in 1 .. Len(A) /\ Len(A) \in 1 .. Len(A)
      /\ (\A i \in 1 .. Len(A) : A[i] \in Int)
      /\ \A i, j \in 1 .. Len(A) : i < j => A[i] < A[j]
  BY DEF Ascending, Str
<1>3. \A i \in 1 .. Len(y) : \E k \in 1 .. Len(A) : x[i] = A[k]
  BY DEF TextIn
<1>4. \A i \in 1 .. Len(A) : A[1] <= A[i] /\ A[i] <= A[Len(A)]
  <2>1. ASSUME NEW i \in 1 .. Len(A) PROVE A[1] <= A[i] /\ A[i] <= A[Len(A)]
    <3>1. (i = 1 \/ 1 < i) /\ (i = Len(A) \/ i < Len(A))
      BY <1>2
    <3> QED
      BY <1>2, <3>1
  <2> QED
    BY <2>1
<1>5. CASE predAlphabet(y, A) = Refused /\ \A i \in 1 .. Len(y) : y[i] = A[1]
  <2>1. SUFFICES ASSUME Splits(x, y) PROVE FALSE
    BY <1>1, <1>5, SameLengthLess
  <2>2. PICK i \in 1 .. Len(y) : x[i] < y[i]
    BY <2>1 DEF Splits
  <2>3. PICK k \in 1 .. Len(A) : x[i] = A[k]
    BY <1>3
  <2> QED
    BY <1>2, <1>4, <1>5, <2>2, <2>3
<1>6. ASSUME NEW l \in 1 .. Len(y), NEW k \in 2 .. Len(A), y[l] = A[k],
             \A i \in 1 .. Len(y) : i > l => y[i] = A[1],
             NEW p, p = [i \in 1 .. Len(y) |->
                           IF i < l THEN y[i] ELSE IF i = l THEN A[k - 1] ELSE A[Len(A)]]
      PROVE  TextIn(A, p) /\ Len(p) = Len(y) /\ Len(y) # 0 /\ (Less(x, y) <=> ~Less(p, x))
  <2>1. /\ TextIn(A, p) /\ Len(p) = Len(y) /\ p \in Str
        /\ \A i \in 1 .. Len(y) : /\ i < l => p[i] = y[i]
                                  /\ i > l => p[i] = A[Len(A)]
        /\ p[l] = A[k - 1]
    <3>1. y[l] = A[k] /\ p = [i \in 1 .. Len(y) |->
                              IF i < l THEN y[i] ELSE IF i = l THEN A[k - 1] ELSE A[Len(A)]]
      BY <1>6
    <3>2. /\ TextIn(A, p) /\ Len(p) = Len(y)
          /\ \A i \in 1 .. Len(y) : /\ i < l => p[i] = y[i]
                                    /\ i > l => p[i] = A[Len(A)]
          /\ p[l] = A[k - 1]
      BY <3>1, PredecessorText
    <3> QED
      BY <3>2 DEF TextIn
  <2>2. k - 1 \in 1 .. Len(A) /\ k \in 1 .. Len(A) /\ k - 1 < k /\ A[k - 1] < A[k] /\ Len(y) # 0
    <3>1. k - 1 \in 1 .. Len(A) /\ k \in 1 .. Len(A) /\ k - 1 < k
      BY <1>2
    <3> QED
      BY <1>1, <1>2, <3>1
  <2>3. ASSUME Splits(x, y), Splits(p, x) PROVE FALSE
    <3>1. PICK i \in 1 .. Len(y) : x[i] < y[i] /\ \A j \in 1 .. i - 1 : x[j] = y[j]
      BY <2>3 DEF Splits
    <3>2. PICK m \in 1 .. Len(y) : p[m] < x[m] /\ \A j \in 1 .. m - 1 : p[j] = x[j]
      BY <2>1, <2>3 DEF Splits
    <3>3. PICK a \in 1 .. Len(A) : x[i] = A[a]
      BY <1>3
    <3>4. PICK b \in 1 .. Len(A) : x[m] = A[b]
      BY <1>3
    <3>5. i <= l
      <4>1. SUFFICES ASSUME i > l PROVE FALSE
        BY <1>1
      <4>2. y[i] = A[1] /\ A[1] <= x[i]
        BY <1>4, <1>6, <3>3, <4>1
      <4> QED
        BY <1>2, <3>1, <3>3, <4>2
    <3>6. m <= i
      <4>1. SUFFICES ASSUME i < m PROVE FALSE
        BY <1>1
      <4>2. i \in 1 .. m - 1
        BY <4>1
      <4>3. p[i] = x[i]
        BY <3>2, <4>2
      <4>4. CASE i < l
        BY <1>1, <2>1, <3>1, <4>3, <4>4
      <4>5. CASE i = l
        <5>1. m > l /\ p[m] = A[Len(A)]
          BY <2>1, <4>1, <4>5
        <5> QED
          BY <1>2, <1>4, <3>2, <3>4, <5>1
      <4> QED
        BY <1>1, <3>5, <4>4, <4>5
    <3>7. ~(m < i)
      <4>1. SUFFICES ASSUME m < i PROVE FALSE
        OBVIOUS
      <4>2. m \in 1 .. i - 1 /\ m < l
        BY <3>5, <4>1
      <4>3. p[m] = y[m] /\ x[m] = y[m]
        BY <2>1, <3>1, <4>2
      <4> QED
        BY <1>1, <3>2, <4>3
    <3>8. m = i
      BY <3>6, <3>7
    <3>9. CASE i < l
      BY <1>1, <2>1, <3>1, <3>2, <3>8, <3>9
    <3>10. CASE i = l
      <4>1. A[k - 1] < A[a] /\ A[a] < A[k]
        BY <1>6, <2>1, <3>1, <3>2, <3>3, <3>8, <3>10
      <4>2. a < k
        <5>1. SUFFICES ASSUME k <= a PROVE FALSE
          BY <2>2
        <5>2. A[a] \in Int /\ A[k] \in Int
          BY <1>2, <2>2
        <5>3. CASE k = a
          BY <4>1, <5>2, <5>3
        <5>4. CASE k < a
          <6>1. A[k] < A[a]
            BY <1>2, <2>2, <5>4
          <6> QED
            BY <4>1, <5>2, <6>1
        <5> QED
          BY <2>2, <5>1, <5>3, <5>4
      <4>3. k - 1 < a
        <5>1. SUFFICES ASSUME a <= k - 1 PROVE FALSE
          BY <2>2
        <5>2. A[a] \in Int /\ A[k - 1] \in Int
          BY <1>2, <2>2
        <5>3. CASE a = k - 1
          BY <4>1, <5>2, <5>3
        <5>4. CASE a < k - 1
          <6>1. A[a] < A[k - 1]
            BY <1>2, <2>2, <5>4
          <6> QED
            BY <4>1, <5>2, <6>1
        <5> QED
          BY <2>2, <5>1, <5>3, <5>4
      <4> QED
        BY <2>2, <4>2, <4>3
    <3> QED
      BY <1>1, <3>5, <3>9, <3>10
  <2>4. Splits(p, y)
    <3>1. p[l] < y[l] /\ \A j \in 1 .. l - 1 : p[j] = y[j]
      <4>1. \A j \in 1 .. l - 1 : j \in 1 .. Len(y) /\ j < l
        OBVIOUS
      <4> QED
        BY <1>6, <2>1, <2>2, <4>1
    <3> QED
      BY <2>1, <3>1 DEF Splits
  <2>5. Less(x, y) => ~Less(p, x)
    BY <1>1, <2>1, <2>3, SameLengthLess
  <2>6. ASSUME ~Less(x, y) PROVE Less(p, x)
    <3>1. x = y \/ Splits(y, x)
      BY <1>1, <2>6, SameLengthLess
    <3>2. Splits(p, x)
      BY <1>1, <2>1, <2>4, <3>1, SplitsTransitive
    <3> QED
      BY <1>1, <2>1, <3>2, SameLengthLess
  <2> QED
    BY <2>1, <2>2, <2>5, <2>6
<1>7. CASE \E l \in 1 .. Len(y) : \E k \in 2 .. Len(A) :
             /\ y[l] = A[k]
             /\ \A i \in 1 .. Len(y) : i > l => y[i] = A[1]
             /\ predAlphabet(y, A) = [i \in 1 .. Len(y) |->
                                        IF i < l THEN y[i] ELSE IF i = l THEN A[k - 1] ELSE A[Len(A)]]
  BY <1>6, <1>7
<1> QED
  BY <1>5, <1>7, PredecessorShape

HexAlphabet == [d \in 1 .. 16 |-> Digit(d - 1, 97)]

\* The alphabets that predAlphabet steps through ascend.
LEMMA HexLetters ==
  /\ Ascending(HexAlphabet) /\ Len(HexAlphabet) = 16
  /\ \A i \in 1 .. 16 : Plain(HexAlphabet[i])
  /\ \A c \in HexDigits : \E k \in 1 .. 16 : c = HexAlphabet[k]
<1>1. ASSUME NEW d \in 1 .. 16
      PROVE  HexAlphabet[d] = (IF d < 11 THEN 47 + d ELSE 86 + d)
  BY DEF HexAlphabet, Digit, Zero
<1>2. \A d \in 1 .. 16 : HexAlphabet[d] \in Int /\ Plain(HexAlphabet[d])
  BY <1>1 DEF Plain
<1>3. HexAlphabet \in [1 .. 16 -> Int]
  <2> DEFINE c(d) == Digit(d - 1, 97)
  <2>1. HexAlphabet = [d \in 1 .. 16 |-> c(d)] /\ \A d \in 1 .. 16 : c(d) \in Int
    BY <1>2 DEF HexAlphabet
  <2> HIDE DEF c
  <2> QED
    BY <2>1
<1>4. HexAlphabet \in Seq(Int) /\ Len(HexAlphabet) = 16
  BY <1>3, FunctionIsSeq
<1>5. Ascending(HexAlphabet)
  <2>1. ASSUME NEW i \in 1 .. 16, NEW j \in 1 .. 16, i < j PROVE HexAlphabet[i] < HexAlphabet[j]
    BY <1>1, <2>1
  <2> QED
    BY <1>4, <2>1 DEF Ascending, Str
<1>6. ASSUME NEW c \in HexDigits PROVE \E k \in 1 .. 16 : c = HexAlphabet[k]
  <2>1. c \in Int /\ ((48 <= c /\ c <= 57) \/ (97 <= c /\ c <= 102))
    BY DEF HexDigits, Zero
  <2>2. CASE 48 <= c /\ c <= 57
    <3>1. c - 47 \in 1 .. 16 /\ HexAlphabet[c - 47] = 47 + (c - 47)
      BY <1>1, <2>1, <2>2
    <3> QED
      BY <2>1, <3>1
  <2>3. CASE 97 <= c /\ c <= 102
    <3>1. c - 86 \in 1 .. 16 /\ HexAlphabet[c - 86] = 86 + (c - 86)
      BY <1>1, <2>1, <2>3
    <3> QED
      BY <2>1, <3>1
  <2> QED
    BY <2>1, <2>2, <2>3
<1> QED
  BY <1>2, <1>4, <1>5, <1>6

LEMMA CrockfordAlphabet == Ascending(Crockford)
  BY CrockfordLetters DEF Ascending

\* What hex and ulid write are texts of their alphabets.
LEMMA HexText ==
  ASSUME NEW b \in Seq(Byte)
  PROVE  TextIn(HexAlphabet, EncodeHex(b)) /\ Lower(EncodeHex(b)) = EncodeHex(b)
<1> DEFINE y == EncodeHex(b)
<1>1. y \in Str /\ Len(y) = 2 * Len(b)
      /\ \A i \in 1 .. 2 * Len(b) : y[i] \in HexDigits /\ y[i] \notin 65 .. 90 /\ y[i] \in Ascii
  <2>1. HexDigits \subseteq Ascii
    BY DEF HexDigits, Zero, Ascii
  <2> HIDE DEF y
  <2> QED
    BY <2>1, HexString DEF y
<1> HIDE DEF y
<1>2. TextIn(HexAlphabet, y)
  BY <1>1, HexLetters DEF TextIn
<1>3. Lower(y) = y
  BY <1>1, LowerString, SameString
<1> QED
  BY <1>2, <1>3 DEF y

LEMMA ULIDText ==
  ASSUME NEW s \in Str, EncodeULID(s) # Refused
  PROVE  TextIn(Crockford, EncodeULID(s))
  BY ULIDString, CrockfordLetters DEF TextIn, Contains

\* A text of an alphabet is a segment.
LEMMA TextSegment ==
  ASSUME NEW A, NEW p, Ascending(A), \A i \in 1 .. Len(A) : Plain(A[i]), TextIn(A, p), Len(p) # 0
  PROVE  p \in HashFree /\ p # Refused
<1>1. p \in Str /\ Len(p) \in Nat /\ \A i \in 1 .. Len(p) : Plain(p[i])
  BY DEF TextIn, Str
<1>2. p \in HashFree
  BY <1>1, BetweenHashAndSuffix
<1>3. 1 \in 1 .. Len(p)
  BY <1>1
<1>4. Plain(p[1])
  BY <1>1, <1>3
<1> QED
  BY <1>2, <1>4 DEF Refused, Plain

\* The predecessor of a bound is the last segment before the bound's, among
\* the segments of one length, which those of ULIDs of ASCII are.
THEOREM PredecessorOrder ==
  ASSUME NEW enc, NEW goType, NEW v, NEW w, Takes(enc, goType, v), Takes(enc, goType, w),
         FixedWidth(enc, goType), AsciiULID(enc, v), AsciiULID(enc, w),
         EncodeValue(enc, goType, v) # Refused, EncodeValue(enc, goType, w) # Refused
  PROVE  /\ Pred(enc, goType, v) = Refused
              => ~Less(EncodeValue(enc, goType, w), EncodeValue(enc, goType, v))
         /\ Pred(enc, goType, v) # Refused =>
              /\ Pred(enc, goType, v) \in HashFree
              /\ Len(Pred(enc, goType, v)) = Len(EncodeValue(enc, goType, v))
              /\ Less(EncodeValue(enc, goType, w), EncodeValue(enc, goType, v))
                   <=> ~Less(Pred(enc, goType, v), EncodeValue(enc, goType, w))
<1> DEFINE y == EncodeValue(enc, goType, v)
           x == EncodeValue(enc, goType, w)
           p == Pred(enc, goType, v)
           Goal == /\ p = Refused => ~Less(x, y)
                   /\ p # Refused => /\ p \in HashFree /\ Len(p) = Len(y)
                                     /\ Less(x, y) <=> ~Less(p, x)
<1>1. CASE Padding(enc) /\ enc.name \notin {"ulid", "hex"}
  <2> DEFINE n == Number(enc, goType, v)
             m == Number(enc, goType, w)
             k == PadWidth(enc)
  <2>1. n \in Int /\ k \in Nat \ {0} /\ y = padInt(n, k)
    BY <1>1, PaddedNumber
  <2>2. m \in Int /\ x = padInt(m, k)
    BY <1>1, PaddedNumber
  <2>3. p = PredPad(n, k)
    BY <1>1 DEF Pred
  <2>4. x # Refused /\ y # Refused
    OBVIOUS
  <2> HIDE DEF n, m, k, x, y, p
  <2>5. Len(y) = k
    BY <2>1, <2>4, PaddedString
  <2>6. Goal
    BY <2>1, <2>2, <2>3, <2>4, <2>5, PadPredecessor
  <2> QED
    BY <2>6 DEF x, y, p
<1>2. ASSUME NEW A, Ascending(A), \A i \in 1 .. Len(A) : Plain(A[i]),
             TextIn(A, x), TextIn(A, y), Len(x) = Len(y), p = predAlphabet(y, A)
      PROVE  Goal
  <2> HIDE DEF x, y, p
  <2>1. \/ p = Refused /\ ~Less(x, y)
        \/ /\ TextIn(A, p) /\ Len(p) = Len(y) /\ Len(y) # 0
           /\ Less(x, y) <=> ~Less(p, x)
    BY <1>2, AlphabetPredecessor
  <2>2. TextIn(A, p) /\ Len(p) # 0 => p \in HashFree /\ p # Refused
    BY <1>2, TextSegment
  <2> QED
    BY <2>1, <2>2
<1>3. CASE enc.name = "ulid"
  <2>1. v \in Str /\ y = EncodeULID(v) /\ w \in Str /\ x = EncodeULID(w)
    BY <1>3, ULIDValue
  <2>2. p = PredULID(v)
    BY <1>3 DEF Pred
  <2>3. x # Refused /\ y # Refused
    OBVIOUS
  <2>4. p = predAlphabet(y, Crockford)
    BY <2>1, <2>2, <2>3 DEF PredULID
  <2> HIDE DEF x, y, p
  <2>5. TextIn(Crockford, x) /\ TextIn(Crockford, y) /\ Len(x) = Len(y)
    <3>1. v \in Str /\ EncodeULID(v) # Refused /\ w \in Str /\ EncodeULID(w) # Refused
      BY <2>1, <2>3
    <3>2. AllAscii(v) /\ AllAscii(w)
      BY <1>3 DEF AsciiULID
    <3> QED
      BY <2>1, <3>1, <3>2, ULIDText, ULIDSegment
  <2>6. Ascending(Crockford) /\ \A i \in 1 .. Len(Crockford) : Plain(Crockford[i])
    BY CrockfordAlphabet, CrockfordLetters
  <2>7. Goal
    BY <1>2, <2>4, <2>5, <2>6
  <2> QED
    BY <2>7 DEF x, y, p
<1>4. CASE enc.name = "hex" /\ goType \in ByteArrays
  <2>1. v \in Seq(Byte) /\ Len(v) = ArrayLength[goType] /\ y = EncodeHex(v)
    BY <1>4, ArrayBytes
  <2>2. w \in Seq(Byte) /\ Len(w) = ArrayLength[goType] /\ x = EncodeHex(w)
    BY <1>4, ArrayBytes
  <2>3. p = PredHex(EncodeHex(v))
    BY <1>4 DEF Pred
  <2> HIDE DEF x, y, p
  <2>4. TextIn(HexAlphabet, x) /\ TextIn(HexAlphabet, y) /\ Lower(y) = y
    BY <2>1, <2>2, HexText
  <2>5. p = predAlphabet(y, HexAlphabet)
    BY <2>1, <2>3, <2>4 DEF PredHex, HexAlphabet
  <2>6. Len(x) = Len(y)
    BY <2>1, <2>2, HexString
  <2>7. Ascending(HexAlphabet) /\ \A i \in 1 .. Len(HexAlphabet) : Plain(HexAlphabet[i])
    BY HexLetters
  <2>8. Goal
    BY <1>2, <2>4, <2>5, <2>6, <2>7
  <2> QED
    BY <2>8 DEF x, y, p
<1>5. Goal
  BY <1>1, <1>3, <1>4, FixedKinds DEF Takes
<1> QED
  BY <1>5

\* A segment made of text below the suffix begins below it, like one of a
\* fixed width or of bytes.
LEMMA LowSegment ==
  ASSUME NEW enc, NEW goType, NEW v, Takes(enc, goType, v), EncodeValue(enc, goType, v) # Refused,
         goType = "string" => \A i \in 1 .. Len(v) : v[i] < MaxKeySuffix[1]
  PROVE  Low(EncodeValue(enc, goType, v))
<1> DEFINE x == EncodeValue(enc, goType, v)
<1>1. x \in Str /\ x # <<>>
  <2>1. x \in HashFree /\ x # <<>>
    BY EncodedSegment
  <2> HIDE DEF x
  <2> QED
    BY <2>1 DEF HashFree
<1>2. ASSUME NEW s, s \in Str, s[1] < MaxKeySuffix[1] \/ s = <<>>, x = CheckSegment(s)
      PROVE  x[1] < MaxKeySuffix[1]
  <2>1. x # Refused
    OBVIOUS
  <2> HIDE DEF x
  <2>2. x = s
    BY <1>2, <2>1, CheckedSegment
  <2> QED
    BY <1>1, <1>2, <2>2
<1>3. CASE enc.name \in {"", "upper", "lower", "urlenc"}
  <2>1. goType = "string" /\ v \in Seq(Char) /\ v \in Str
    <3>1. goType = "string"
      BY <1>3 DEF Takes, EncoderCompat, Strings
    <3>2. v \in Seq(Char)
      BY <3>1 DEF Takes, IsOf, ByteArrays
    <3> QED
      BY <3>1, <3>2, TextType
  <2>2. v = <<>> \/ 1 \in 1 .. Len(v)
    BY <2>1
  <2>3. v[1] < MaxKeySuffix[1] \/ v = <<>>
    BY <2>1, <2>2
  <2>4. /\ Upper(v) \in Str /\ Len(Upper(v)) = Len(v)
        /\ v # <<>> => Upper(v)[1] < MaxKeySuffix[1]
    BY <2>1, <2>2, <2>3, UpperString
  <2>5. /\ Lower(v) \in Str /\ Len(Lower(v)) = Len(v)
        /\ v # <<>> => Lower(v)[1] < MaxKeySuffix[1]
    BY <2>1, <2>2, <2>3, LowerString
  <2>6. EncodeURL(v) \in Str /\ (EncodeURL(v) # <<>> => EncodeURL(v)[1] < MaxKeySuffix[1])
    <3> DEFINE u == EncodeURL(v)
    <3>1. u \in Str /\ \A i \in 1 .. Len(u) : u[i] < MaxKeySuffix[1]
      BY <2>1, URLString
    <3> HIDE DEF u
    <3>2. u = <<>> \/ 1 \in 1 .. Len(u)
      BY <3>1 DEF Str
    <3> QED
      BY <3>1, <3>2 DEF u
  <2>7. v = <<>> => Upper(v) = <<>> /\ Lower(v) = <<>>
    <3> DEFINE u == Upper(v)
               l == Lower(v)
    <3> HIDE DEF u, l
    <3>1. u \in Str /\ l \in Str /\ Len(u) = Len(v) /\ Len(l) = Len(v)
      BY <2>4, <2>5 DEF u, l
    <3>2. v = <<>> => u = <<>> /\ l = <<>>
      BY <3>1 DEF Str
    <3> QED
      BY <3>2 DEF u, l
  <2>8. PICK s \in {v, Upper(v), Lower(v), EncodeURL(v)} : x = CheckSegment(s)
    BY <1>3 DEF EncodeValue
  <2>9. s \in Str /\ (s[1] < MaxKeySuffix[1] \/ s = <<>>)
    BY <2>1, <2>3, <2>4, <2>5, <2>6, <2>7
  <2>10. x[1] < MaxKeySuffix[1]
    BY <1>2, <2>8, <2>9
  <2> QED
    BY <1>1, <2>10 DEF Low
<1>4. CASE enc.name = "hex" /\ goType = "[]byte"
  <2>1. v \in Seq(Byte)
    BY <1>4 DEF Takes, IsOf, ByteArrays
  <2>2. EncodeHex(v) \in Str /\ x = CheckSegment(EncodeHex(v))
    BY <1>4, <2>1, HexString DEF EncodeValue
  <2>3. EncodeHex(v) = <<>> \/ EncodeHex(v)[1] < MaxKeySuffix[1]
    <3> DEFINE h == EncodeHex(v)
    <3>1. h \in Str /\ Len(h) = 2 * Len(v) /\ \A i \in 1 .. 2 * Len(v) : Plain(h[i])
      BY <2>1, HexString
    <3> HIDE DEF h
    <3>2. h = <<>> \/ 1 \in 1 .. Len(h)
      BY <3>1 DEF Str
    <3>3. h = <<>> \/ Plain(h[1])
      BY <3>1, <3>2
    <3>4. h = <<>> \/ h[1] < MaxKeySuffix[1]
      BY <3>3 DEF Plain, MaxKeySuffix
    <3> QED
      BY <3>4 DEF h
  <2>4. x[1] < MaxKeySuffix[1]
    BY <1>2, <2>2, <2>3
  <2> QED
    BY <1>1, <2>4 DEF Low
<1>5. CASE FixedWidth(enc, goType)
  BY <1>1, <1>5, FixedSegment DEF Low
<1>6. enc.name = "hex" => goType = "[]byte" \/ goType \in ByteArrays
  BY DEF Takes, EncoderCompat, Strings
<1>7. \/ enc.name \in {"", "upper", "lower", "urlenc"}
      \/ enc.name = "hex"
      \/ enc.name \in FixedEncoders
      \/ enc.name = "pad" /\ enc.width > 0
  <2>1. enc.name = "pad" => PadWidth(enc) \in Nat \ {0}
    BY PaddedNumber DEF Padding
  <2>2. enc.name = "pad" => enc.width > 0
    BY <2>1 DEF PadWidth
  <2>3. enc.name \in Strings \cup FixedEncoders \cup {"hex", "pad"}
    BY DEF Takes, Known
  <2> QED
    BY <2>2, <2>3 DEF Strings, FixedEncoders
<1> QED
  BY <1>3, <1>4, <1>5, <1>6, <1>7 DEF FixedWidth

------------------------------------------------------------------------------
(* The decoders of the generator's own engine (keytmpl/encode.go) undo the   *)
(* encoders: a key is split into its segments, and a segment decoded.        *)

\* f is the recursive function on 0 .. n.
Recurs(f, T, a, step, n) ==
  f \in [0 .. n -> T] /\ f[0] = a /\ \A k \in 1 .. n : f[k] = step[f[k - 1], k]

LEMMA RecursionExists ==
  ASSUME NEW n \in Nat, NEW T, NEW a \in T, NEW step \in [T \X (1 .. n) -> T]
  PROVE  \E f : Recurs(f, T, a, step, n)
<1> DEFINE Good == {m \in Nat : m <= n => \E f : Recurs(f, T, a, step, m)}
<1>1. 0 \in Good
  <2>1. Recurs([k \in 0 .. 0 |-> a], T, a, step, 0)
    BY DEF Recurs
  <2> QED
    BY <2>1
<1>2. ASSUME NEW m \in Good PROVE m + 1 \in Good
  <2> SUFFICES ASSUME m + 1 <= n PROVE \E f : Recurs(f, T, a, step, m + 1)
    OBVIOUS
  <2>0. m \in Nat /\ m <= n /\ m + 1 \in 1 .. n
    OBVIOUS
  <2>1. PICK f : Recurs(f, T, a, step, m)
    BY <2>0
  <2> HIDE DEF Good
  <2> DEFINE x == step[f[m], m + 1]
             g == [k \in 0 .. m + 1 |-> IF k <= m THEN f[k] ELSE x]
  <2>2. f \in [0 .. m -> T] /\ f[0] = a /\ \A k \in 1 .. m : f[k] = step[f[k - 1], k]
    BY <2>1 DEF Recurs
  <2>3. f[m] \in T /\ m \in 0 .. m /\ 0 \in 0 .. m
    <3>1. m \in 0 .. m /\ 0 \in 0 .. m
      BY <2>0
    <3>2. f \in [0 .. m -> T]
      BY <2>2
    <3> QED
      BY <3>1, <3>2
  <2>4. x \in T
    BY <2>0, <2>3
  <2> HIDE DEF x
  <2>5. /\ g \in [0 .. m + 1 -> T] /\ g[m + 1] = x
        /\ \A k \in 0 .. m : g[k] = f[k]
    <3>1. f \in [0 .. m -> T]
      BY <2>2
    <3>2. \A k \in 0 .. m + 1 : (k <= m => k \in 0 .. m) /\ (k = m + 1 => ~(k <= m))
      BY <2>0
    <3>3. m + 1 \in 0 .. m + 1 /\ \A k \in 0 .. m : k \in 0 .. m + 1 /\ k <= m
      BY <2>0
    <3> QED
      BY <2>4, <3>1, <3>2, <3>3
  <2> HIDE DEF g
  <2>6. ASSUME NEW k \in 1 .. m + 1 PROVE g[k] = step[g[k - 1], k]
    <3>1. CASE k \in 1 .. m
      <4>1. k \in 0 .. m /\ k - 1 \in 0 .. m
        BY <2>0, <3>1
      <4>2. g[k] = f[k] /\ g[k - 1] = f[k - 1]
        BY <2>5, <4>1
      <4> QED
        BY <2>2, <3>1, <4>2
    <3>2. CASE k = m + 1
      <4>1. k - 1 = m
        BY <2>0, <3>2
      <4>2. g[k - 1] = f[m] /\ g[k] = x
        BY <2>3, <2>5, <3>2, <4>1
      <4> QED
        BY <3>2, <4>2 DEF x
    <3>3. k \in 1 .. m \/ k = m + 1
      BY <2>0
    <3> QED
      BY <3>1, <3>2, <3>3
  <2>7. g[0] = a
    BY <2>2, <2>3, <2>5
  <2>8. Recurs(g, T, a, step, m + 1)
    BY <2>5, <2>6, <2>7 DEF Recurs
  <2> QED
    BY <2>8
<1>3. Good = Nat
  <2> HIDE DEF Good
  <2>1. Good \subseteq Nat
    BY DEF Good
  <2> QED
    BY <1>1, <1>2, <2>1, InductionOn
<1>4. n \in Good /\ n <= n
  BY <1>3
<1> QED
  BY <1>4

\* Parts of a text, at least one; and one character more.
Parts == {u \in Seq(HashFree) : Len(u) >= 1}

CutStep(before, c) ==
  IF c = Hash THEN Append(before, <<>>)
  ELSE [before EXCEPT ![Len(before)] = Append(@, c)]

LEMMA CutOne ==
  ASSUME NEW b \in Parts, NEW c \in Int
  PROVE  CutStep(b, c) \in Parts /\ Join(CutStep(b, c)) = Join(b) \o <<c>>
<1> DEFINE m == Len(b)
           u == CutStep(b, c)
<1>1. m \in Nat \ {0} /\ b \in Seq(HashFree) /\ b \in Seq(Str) /\ \A i \in 1 .. m : b[i] \in HashFree /\ b[i] \in Str
  <2>1. b \in Seq(HashFree) /\ m \in Nat \ {0}
    BY DEF Parts
  <2>2. b \in Seq(Str)
    BY <2>1, HashFreeSegments
  <2> QED
    BY <2>1, <2>2
<1>2. CASE c = Hash
  <2>1. u = Append(b, <<>>)
    BY <1>2 DEF CutStep
  <2>2. <<>> \in HashFree /\ <<>> \in Str
    BY DEF HashFree, Str
  <2>3. u \in Seq(HashFree) /\ Len(u) = m + 1 /\ u[m + 1] = <<>> /\ \A i \in 1 .. m : u[i] = b[i]
    BY <1>1, <2>1, <2>2
  <2>4. u \in Seq(Str) /\ b # <<>>
    BY <1>1, <2>3, HashFreeSegments
  <2> HIDE DEF u
  <2>5. Join(u) = Then(Join(b), u[m + 1])
    BY <1>1, <2>3, <2>4, JoinStep
  <2>6. Join(b) \in Str
    BY <1>1, <2>4, JoinType
  <2>7. <<Hash>> \o <<>> = <<Hash>>
    BY HashString, ConcatEmptySeq DEF Str
  <2> QED
    BY <1>1, <1>2, <2>3, <2>5, <2>7 DEF u, Then, Parts
<1>3. CASE c # Hash
  <2> DEFINE t == b[m]
             z == t \o <<c>>
  <2>1. <<c>> \in Str /\ Len(<<c>>) = 1 /\ <<c>>[1] = c
    BY DEF Str
  <2>2. t \in Str /\ Len(t) \in Nat /\ \A i \in 1 .. Len(t) : t[i] # Hash
    BY <1>1 DEF HashFree, Str
  <2>3. Append(t, c) = z
    BY <2>2 DEF Str
  <2> HIDE DEF t
  <2>4. z \in HashFree
    <3> DEFINE w == <<c>>
    <3> HIDE DEF w
    <3>1. w \in Str /\ Len(w) = 1 /\ w[1] = c
      BY <2>1 DEF w
    <3>2. t \o w \in Str /\ Len(t \o w) = Len(t) + Len(w) /\ (\A i \in 1 .. Len(t) : (t \o w)[i] = t[i])
          /\ \A i \in 1 .. Len(w) : (t \o w)[Len(t) + i] = w[i]
      BY <2>2, <3>1, Concat
    <3> DEFINE y == t \o w
    <3> HIDE DEF y
    <3>3. y \in Str /\ Len(y) = Len(t) + 1 /\ (\A i \in 1 .. Len(t) : y[i] = t[i]) /\ y[Len(t) + 1] = c
      <4>1. 1 \in 1 .. Len(w)
        BY <3>1
      <4> QED
        BY <3>1, <3>2, <4>1 DEF y
    <3>4. \A i \in 1 .. Len(y) : y[i] # Hash
      BY <1>3, <2>2, <3>3
    <3>5. y \in HashFree
      BY <3>3, <3>4 DEF HashFree
    <3> QED
      BY <3>5 DEF y, w
  <2> HIDE DEF z
  <2>5. u = [b EXCEPT ![m] = z]
    BY <1>3, <2>3 DEF CutStep, t
  <2>6. u \in Seq(HashFree) /\ Len(u) = m /\ u[m] = z /\ \A i \in 1 .. m - 1 : u[i] = b[i]
    BY <1>1, <2>4, <2>5
  <2> HIDE DEF u
  <2>7. u \in Seq(Str)
    BY <2>6, HashFreeSegments
  <2>8. CASE m = 1
    <3>1. Join(u) = u[1] /\ Join(b) = b[1]
      BY <1>1, <2>6, <2>7, <2>8, JoinOne
    <3>2. Join(u) = Join(b) \o <<c>>
      BY <2>6, <2>8, <3>1 DEF z, t
    <3> QED
      BY <1>1, <2>6, <3>2 DEF u, Parts
  <2>9. CASE m # 1
    <3> DEFINE n == m - 1
               w == FirstOf(b, n)
    <3>0. n \in Nat \ {0} /\ m = n + 1 /\ n \in 0 .. m /\ n \in 1 .. n
      <4> HIDE DEF m
      <4> QED
        BY <1>1, <2>9
    <3>01. b \in Seq(Str) /\ n \in 0 .. Len(b)
      BY <1>1, <3>0
    <3> HIDE DEF n
    <3>1. w \in Seq(Str) /\ Len(w) = n /\ \A i \in 1 .. n : w[i] = b[i]
      BY <3>01, Taken
    <3>2. \A i \in 1 .. n : u[i] = w[i]
      <4>1. \A i \in 1 .. n : i \in 1 .. m - 1
        BY <3>0
      <4> QED
        BY <2>6, <3>1, <4>1
    <3>3. w # <<>>
      BY <3>0, <3>1
    <3>4. Len(b) = n + 1 /\ Len(u) = n + 1 /\ b[n + 1] = t /\ u[n + 1] = z
      BY <1>1, <2>6, <3>0 DEF t
    <3> HIDE DEF w, n, m
    <3>5. Join(u) = Then(Join(w), u[n + 1])
      BY <2>7, <3>0, <3>1, <3>2, <3>4, JoinStep
    <3>6. Join(b) = Then(Join(w), b[n + 1])
      BY <1>1, <3>0, <3>1, <3>4, JoinStep
    <3>7. Join(w) \in Str
      BY <3>1, <3>3, JoinType
    <3>8. Then(Join(w), t) \o <<c>> = Then(Join(w), t \o <<c>>)
      <4> DEFINE a == Join(w)
                 d == <<c>>
      <4>1. a \in Str /\ d \in Str /\ t \in Str
        BY <2>1, <2>2, <3>7
      <4> HIDE DEF a, d
      <4>2. Then(a, t) \o d = Then(a, t \o d)
        BY <4>1, ThenString
      <4> QED
        BY <4>2 DEF a, d
    <3>9. Join(u) = Join(b) \o <<c>>
      BY <3>4, <3>5, <3>6, <3>8 DEF z
    <3> QED
      BY <1>1, <2>6, <3>9 DEF u, Parts, m
  <2> QED
    BY <2>8, <2>9
<1> QED
  BY <1>2, <1>3

\* Split takes a string apart into parts without a delimiter, of which it is
\* the join.
LEMMA SplitText ==
  ASSUME NEW s \in Str
  PROVE  Split(s) \in Parts /\ Join(Split(s)) = s
<1> DEFINE n == Len(s)
           F == CHOOSE f : f = [k \in 0 .. n |->
                  IF k = 0 THEN <<<<>>>>
                  ELSE LET before == f[k - 1]
                       IN  IF s[k] = Hash THEN Append(before, <<>>)
                           ELSE [before EXCEPT ![Len(before)] = Append(@, s[k])]]
           step == [p \in Parts \X (1 .. n) |-> CutStep(p[1], s[p[2]])]
<1>0. n \in Nat /\ \A k \in 1 .. n : s[k] \in Int
  BY DEF Str
<1>1. Split(s) = F[n]
  BY DEF Split
<1>2. <<<<>>>> \in Parts
  <2>1. <<>> \in HashFree
    BY DEF HashFree, Str
  <2> QED
    BY <2>1 DEF Parts
<1>3. step \in [Parts \X (1 .. n) -> Parts]
  BY <1>0, CutOne
<1>4. \A b \in Parts : \A k \in 1 .. n : step[b, k] = CutStep(b, s[k])
  OBVIOUS
<1> DEFINE one == <<<<>>>>
<1> HIDE DEF n, step, one
<1>5. PICK f : Recurs(f, Parts, one, step, n)
  BY <1>0, <1>2, <1>3, RecursionExists DEF one
<1>6. /\ f \in [0 .. n -> Parts] /\ f[0] = one
      /\ \A k \in 1 .. n : f[k] = CutStep(f[k - 1], s[k])
  <2>1. f \in [0 .. n -> Parts] /\ f[0] = one /\ \A k \in 1 .. n : f[k] = step[f[k - 1], k]
    BY <1>5 DEF Recurs
  <2>2. ASSUME NEW k \in 1 .. n PROVE f[k] = CutStep(f[k - 1], s[k])
    <3>1. k - 1 \in 0 .. n
      BY <1>0
    <3>2. f[k - 1] \in Parts
      BY <2>1, <3>1
    <3>3. f[k] = step[f[k - 1], k]
      BY <2>1
    <3> QED
      BY <1>4, <3>2, <3>3
  <2> QED
    BY <2>1, <2>2
<1>7. f = [k \in 0 .. n |->
            IF k = 0 THEN <<<<>>>>
            ELSE LET before == f[k - 1]
                 IN  IF s[k] = Hash THEN Append(before, <<>>)
                     ELSE [before EXCEPT ![Len(before)] = Append(@, s[k])]]
  <2> DEFINE G == [k \in 0 .. n |->
                    IF k = 0 THEN one ELSE CutStep(f[k - 1], s[k])]
  <2>1. \A k \in 0 .. n : f[k] = IF k = 0 THEN one ELSE CutStep(f[k - 1], s[k])
    <3>1. \A k \in 0 .. n : k # 0 => k \in 1 .. n
      BY <1>0
    <3> QED
      BY <1>6, <3>1
  <2>2. f = [k \in 0 .. n |-> f[k]]
    BY <1>6
  <2>3. f = G
    BY <2>1, <2>2
  <2> QED
    BY <2>3 DEF CutStep, one
<1>8. F = [k \in 0 .. n |->
            IF k = 0 THEN <<<<>>>>
            ELSE LET before == F[k - 1]
                 IN  IF s[k] = Hash THEN Append(before, <<>>)
                     ELSE [before EXCEPT ![Len(before)] = Append(@, s[k])]]
  BY <1>7
<1> HIDE DEF F
<1>9. F[0] = one /\ \A k \in 1 .. n : F[k] = CutStep(F[k - 1], s[k])
  <2>1. 0 \in 0 .. n /\ \A k \in 1 .. n : k \in 0 .. n /\ k # 0
    BY <1>0
  <2>2. F[0] = <<<<>>>>
    BY <1>8, <2>1
  <2>3. ASSUME NEW k \in 1 .. n PROVE F[k] = CutStep(F[k - 1], s[k])
    BY <1>8, <2>1, <2>3 DEF CutStep
  <2> QED
    BY <2>2, <2>3 DEF one
<1> DEFINE P(k) == k <= n => F[k] \in Parts /\ Join(F[k]) = FirstOf(s, k)
           S == {k \in Nat : P(k)}
<1>10. ASSUME NEW k \in 0 .. n
       PROVE  FirstOf(s, k) \in Str /\ Len(FirstOf(s, k)) = k /\ \A i \in 1 .. k : FirstOf(s, k)[i] = s[i]
  <2>1. s \in Seq(Int) /\ k \in 0 .. Len(s)
    BY <1>0 DEF Str, n
  <2> QED
    BY <2>1, Taken DEF Str
<1>11. P(0)
  <2>1. Join(one) = <<>>
    <3>1. one \in Seq(Str) /\ Len(one) = 1 /\ one[1] = <<>>
      <4>1. <<>> \in Str
        BY DEF Str
      <4> QED
        BY <4>1 DEF one
    <3> QED
      BY <3>1, JoinOne
  <2>2. FirstOf(s, 0) = <<>>
    <3>1. 0 \in 0 .. n
      BY <1>0
    <3>2. FirstOf(s, 0) \in Seq(Int) /\ Len(FirstOf(s, 0)) = 0
      BY <1>10, <3>1 DEF Str
    <3> QED
      BY <3>2, EmptySeq
  <2> QED
    BY <1>2, <1>9, <2>1, <2>2 DEF one
<1>12. ASSUME NEW k \in Nat, P(k) PROVE P(k + 1)
  <2> SUFFICES ASSUME k + 1 <= n PROVE F[k + 1] \in Parts /\ Join(F[k + 1]) = FirstOf(s, k + 1)
    OBVIOUS
  <2> DEFINE b == F[k]
             c == s[k + 1]
             x == FirstOf(s, k)
             y == FirstOf(s, k + 1)
  <2>1. k + 1 \in 1 .. n /\ k \in 0 .. n /\ k + 1 \in 0 .. n /\ (k + 1) - 1 = k /\ k <= n
    BY <1>0
  <2>2. b \in Parts /\ Join(b) = x
    BY <1>12, <2>1
  <2>3. F[k + 1] = CutStep(b, c) /\ c \in Int
    BY <1>0, <1>9, <2>1
  <2>4. CutStep(b, c) \in Parts /\ Join(CutStep(b, c)) = x \o <<c>>
    BY <2>2, <2>3, CutOne
  <2>5. x \in Str /\ Len(x) = k /\ (\A i \in 1 .. k : x[i] = s[i])
        /\ y \in Str /\ Len(y) = k + 1 /\ \A i \in 1 .. k + 1 : y[i] = s[i]
    BY <1>10, <2>1
  <2>6. <<c>> \in Str /\ Len(<<c>>) = 1 /\ <<c>>[1] = c /\ 1 \in 1 .. Len(<<c>>)
    BY <2>3 DEF Str
  <2>7. k + 1 \in 1 .. k + 1 /\ \A i \in 1 .. k + 1 : i \in 1 .. k \/ i = k + 1
    OBVIOUS
  <2> HIDE DEF x, y, b
  <2>8. x \o <<c>> \in Str /\ Len(x \o <<c>>) = k + 1 /\ (\A i \in 1 .. k : (x \o <<c>>)[i] = x[i])
        /\ (x \o <<c>>)[k + 1] = c
    BY <2>5, <2>6, Concat
  <2>9. \A i \in 1 .. k + 1 : (x \o <<c>>)[i] = y[i]
    BY <2>5, <2>7, <2>8
  <2>10. x \o <<c>> = y
    BY <2>5, <2>8, <2>9, SameString
  <2> QED
    BY <2>3, <2>4, <2>10 DEF y
<1> HIDE DEF P
<1>13. S \subseteq Nat /\ 0 \in S /\ \A k \in S : k + 1 \in S
  BY <1>11, <1>12
<1> HIDE DEF S
<1>14. S = Nat
  BY <1>13, InductionOn
<1>15. P(n)
  BY <1>0, <1>14 DEF S
<1>16. FirstOf(s, n) = s
  <2>1. n \in 0 .. n
    BY <1>0
  <2>2. FirstOf(s, n) \in Str /\ Len(FirstOf(s, n)) = Len(s) /\ \A i \in 1 .. Len(s) : FirstOf(s, n)[i] = s[i]
    BY <1>10, <2>1 DEF n
  <2> QED
    BY <2>2, SameString
<1>17. n <= n
  BY <1>0
<1> QED
  BY <1>1, <1>15, <1>16, <1>17 DEF P

\* Split undoes Join, of segments without a delimiter, and Join undoes Split
\* of any string (keytmpl/encode.go, strings.Join and strings.Split).
THEOREM SplitJoins ==
  /\ \A s \in Str : Split(s) \in Parts /\ Join(Split(s)) = s
  /\ \A u \in Parts : Split(Join(u)) = u
<1>1. ASSUME NEW u \in Parts PROVE Split(Join(u)) = u
  <2>1. u \in Seq(HashFree) /\ Len(u) >= 1 /\ u # <<>>
    BY DEF Parts
  <2>2. Join(u) \in Str
    BY <2>1, HashFreeSegments, JoinType
  <2>3. Split(Join(u)) \in Parts /\ Join(Split(Join(u))) = Join(u)
    BY <2>2, SplitText
  <2> DEFINE w == Split(Join(u))
  <2>4. w \in Seq(HashFree) /\ Len(w) >= 1 /\ Join(w) = Join(u)
    BY <2>3 DEF Parts
  <2> HIDE DEF w
  <2>5. w = u
    BY <2>1, <2>4, SegmentsTell
  <2> QED
    BY <2>5 DEF w
<1> QED
  BY <1>1, SplitText

\* A padded number has as many digits as it is wide.
LEMMA DecimalDigits ==
  ASSUME NEW n \in Nat, NEW w \in Nat
  PROVE  Digits(Decimal(n, w), w)
<1> DEFINE s == Decimal(n, w)
<1>1. /\ s \in Str /\ Len(s) = w
      /\ \A i \in 1 .. w : w - i \in Nat /\ s[i] = Zero + ((n \div Tens[w - i]) % 10)
  BY DecimalString
<1> HIDE DEF s
<1>2. ASSUME NEW i \in 1 .. w PROVE s[i] \in Zero .. Zero + 9
  <2>1. w - i \in Nat /\ Tens[w - i] \in Nat \ {0}
    BY <1>1, PowersOfTen
  <2> DEFINE q == n \div Tens[w - i]
  <2>2. q \in Nat
    BY <2>1, DivDiv
  <2>3. s[i] = Zero + (q % 10)
    BY <1>1
  <2> HIDE DEF q
  <2> QED
    BY <2>2, <2>3 DEF Zero
<1>3. DOMAIN s = 1 .. w
  BY <1>1 DEF Str
<1>4. ToSet(s) \subseteq Zero .. Zero + 9
  BY <1>2, <1>3 DEF ToSet
<1> QED
  BY <1>1, <1>4 DEF Digits, s

\* What the digits of a number say is the number, if it fits.
LEMMA DecimalParsed ==
  ASSUME NEW n \in Nat, NEW w \in Nat, n < Tens[w]
  PROVE  Parsed(Decimal(n, w)) = n
<1> DEFINE s == Decimal(n, w)
           F == CHOOSE f : f = [k \in 0 .. w |-> IF k = 0 THEN 0 ELSE 10 * f[k - 1] + s[k] - Zero]
           step == [p \in Int \X (1 .. w) |-> 10 * p[1] + s[p[2]] - Zero]
<1>1. /\ s \in Str /\ Len(s) = w
      /\ \A i \in 1 .. w : w - i \in Nat /\ s[i] = Zero + ((n \div Tens[w - i]) % 10)
  BY DecimalString
<1>2. Parsed(s) = F[w]
  BY <1>1 DEF Parsed
<1> HIDE DEF s
<1>3. Zero \in Int /\ \A k \in 1 .. w : s[k] \in Int
  BY <1>1 DEF Str, Zero
<1>4. step \in [Int \X (1 .. w) -> Int]
  BY <1>3
<1>5. \A b \in Int : \A k \in 1 .. w : step[b, k] = 10 * b + s[k] - Zero
  OBVIOUS
<1> HIDE DEF step
<1>6. PICK f : Recurs(f, Int, 0, step, w)
  <2> DEFINE T == Int
             zero == 0
  <2>1. zero \in T /\ step \in [T \X (1 .. w) -> T]
    BY <1>4
  <2> HIDE DEF T, zero
  <2>2. \E f : Recurs(f, T, zero, step, w)
    BY <2>1, RecursionExists
  <2> QED
    BY <2>2 DEF T, zero
<1>7. f = [k \in 0 .. w |-> IF k = 0 THEN 0 ELSE 10 * f[k - 1] + s[k] - Zero]
  <2>1. f \in [0 .. w -> Int] /\ f[0] = 0 /\ \A k \in 1 .. w : f[k] = step[f[k - 1], k]
    BY <1>6 DEF Recurs
  <2>2. ASSUME NEW k \in 1 .. w PROVE f[k] = 10 * f[k - 1] + s[k] - Zero
    <3>1. k - 1 \in 0 .. w
      OBVIOUS
    <3>2. f[k - 1] \in Int
      BY <2>1, <3>1
    <3>3. f[k] = step[f[k - 1], k]
      BY <2>1
    <3> QED
      BY <1>5, <3>2, <3>3
  <2> DEFINE G == [k \in 0 .. w |-> IF k = 0 THEN 0 ELSE 10 * f[k - 1] + s[k] - Zero]
  <2>3. \A k \in 0 .. w : k # 0 => k \in 1 .. w
    OBVIOUS
  <2>4. \A k \in 0 .. w : f[k] = G[k]
    BY <2>1, <2>2, <2>3
  <2>5. f = [k \in 0 .. w |-> f[k]] /\ G = [k \in 0 .. w |-> G[k]]
    BY <2>1
  <2> HIDE DEF G
  <2>6. f = G
    BY <2>4, <2>5
  <2> QED
    BY <2>6 DEF G
<1>8. F = [k \in 0 .. w |-> IF k = 0 THEN 0 ELSE 10 * F[k - 1] + s[k] - Zero]
  BY <1>7
<1> HIDE DEF F
<1>9. F[0] = 0 /\ \A k \in 1 .. w : F[k] = 10 * F[k - 1] + s[k] - Zero
  <2>1. 0 \in 0 .. w /\ \A k \in 1 .. w : k \in 0 .. w /\ k # 0
    OBVIOUS
  <2> QED
    BY <1>8, <2>1
<1> DEFINE P(k) == k <= w => F[k] = n \div Tens[w - k]
           S == {k \in Nat : P(k)}
<1>10. P(0)
  <2>1. Tens[w] \in Nat \ {0} /\ w - 0 = w
    BY PowersOfTen
  <2> DEFINE t == Tens[w]
  <2>2. t \in Nat \ {0} /\ n < t
    BY <2>1
  <2> HIDE DEF t
  <2>3. n \div t = 0
    BY <2>2
  <2> QED
    BY <1>9, <2>1, <2>3 DEF t
<1>11. ASSUME NEW k \in Nat, P(k) PROVE P(k + 1)
  <2> SUFFICES ASSUME k + 1 <= w PROVE F[k + 1] = n \div Tens[w - (k + 1)]
    OBVIOUS
  <2> DEFINE j == w - (k + 1)
             q == n \div Tens[j]
  <2>1. k + 1 \in 1 .. w /\ k <= w /\ (k + 1) - 1 = k /\ j \in Nat /\ w - k = j + 1
    OBVIOUS
  <2>2. F[k] = n \div Tens[j + 1]
    BY <1>11, <2>1
  <2>3. s[k + 1] = Zero + (q % 10)
    BY <1>1, <2>1
  <2>4. F[k + 1] = 10 * F[k] + s[k + 1] - Zero
    BY <1>9, <2>1
  <2> HIDE DEF j
  <2>5. Tens[j] \in Nat \ {0} /\ Tens[j + 1] = 10 * Tens[j]
    BY <2>1, PowersOfTen
  <2>6. q \in Nat /\ q \div 10 = n \div Tens[j + 1]
    BY <2>5, DivDiv
  <2> HIDE DEF q
  <2>7. q = 10 * (q \div 10) + (q % 10)
    BY <2>6
  <2>8. F[k + 1] = q
    <3> DEFINE h == q \div 10
               l == q % 10
    <3>1. h \in Int /\ l \in Int /\ q = 10 * h + l /\ F[k] = h /\ s[k + 1] = Zero + l
      BY <2>2, <2>3, <2>6, <2>7
    <3> HIDE DEF h, l
    <3> QED
      BY <1>3, <2>4, <3>1
  <2> QED
    BY <2>8 DEF q, j
<1> HIDE DEF P
<1>12. S \subseteq Nat /\ 0 \in S /\ \A k \in S : k + 1 \in S
  BY <1>10, <1>11
<1> HIDE DEF S
<1>13. S = Nat
  BY <1>12, InductionOn
<1>14. P(w)
  BY <1>13 DEF S
<1>15. F[w] = n
  <2>1. w <= w /\ w - w = 0 /\ Tens[0] = 1 /\ n \div 1 = n
    BY PowersOfTen
  <2> QED
    BY <1>14, <2>1 DEF P
<1> QED
  BY <1>2, <1>15 DEF s

\* DecodePad undoes what EncodePad wrote, if an int64 holds it, and
\* DecodeRFC3339 what EncodeRFC3339 did.
LEMMA PaddedBack ==
  ASSUME NEW n \in Nat, NEW w \in Nat, n < Tens[w]
  PROVE  /\ n <= MaxInt64 => unpadInt(Decimal(n, w), w) = <<n>>
         /\ w = Width["rfc3339"] => DecodeRFC3339(Decimal(n, w)) = <<n>>
  BY DecimalDigits, DecimalParsed DEF unpadInt, DecodeRFC3339

\* DecodeHex undoes EncodeHex.
LEMMA HexBack ==
  ASSUME NEW b \in Seq(Byte)
  PROVE  DecodeHex(EncodeHex(b)) = b
<1> DEFINE x == EncodeHex(b)
           n == Len(b)
<1>1. /\ x \in Str /\ Len(x) = 2 * n /\ n \in Nat
      /\ \A i \in 1 .. 2 * n : x[i] \in HexDigits
  BY HexString, SeqElements
<1>2. [i \in DOMAIN x |-> AsciiLower(x[i])] = x
  <2>1. \A i \in 1 .. 2 * n : x[i] \notin 65 .. 90
    BY HexString
  <2>2. x = [i \in DOMAIN x |-> x[i]] /\ DOMAIN x = 1 .. 2 * n
    BY <1>1 DEF Str
  <2> HIDE DEF x, n
  <2>3. \A i \in DOMAIN x : AsciiLower(x[i]) = x[i]
    BY <2>1, <2>2 DEF AsciiLower
  <2> QED
    BY <2>2, <2>3
<1>3. \A i \in 1 .. 2 * n : x[i] = HexDigit(b[(i + 1) \div 2], i % 2 = 1)
  BY HexPlace
<1>4. \A i \in 1 .. n : b[i] \in Byte
  BY SeqElements
<1> HIDE DEF x, n
<1>5. DOMAIN x = 1 .. 2 * n
  BY <1>1 DEF Str
<1>6. ToSet(x) \ HexDigits = {}
  BY <1>1, <1>5 DEF ToSet
<1>7. (Len(x) % 2 = 1) = FALSE /\ Len(x) \div 2 = n
  BY <1>1
<1> DEFINE val(i) == 16 * DigitValue(x[2 * i - 1], 97) + DigitValue(x[2 * i], 97)
<1>8. DecodeHex(x) = [i \in 1 .. n |-> val(i)]
  <2> DEFINE l == [i \in DOMAIN x |-> AsciiLower(x[i])]
             out(y) == [i \in 1 .. n |-> 16 * DigitValue(y[2 * i - 1], 97) + DigitValue(y[2 * i], 97)]
  <2>1. DecodeHex(x) = IF (Len(x) % 2 = 1) \/ ToSet(l) \ HexDigits # {} THEN Refused ELSE out(l)
    BY <1>7 DEF DecodeHex
  <2>2. l = x /\ out(x) = [i \in 1 .. n |-> val(i)]
    BY <1>2
  <2> HIDE DEF l, out
  <2> QED
    BY <1>6, <1>7, <2>1, <2>2
<1>9. ASSUME NEW i \in 1 .. n PROVE val(i) = b[i]
  <2> DEFINE c == b[i]
             first == (2 * i - 1) % 2 = 1
             second == (2 * i) % 2 = 1
  <2>1. 2 * i - 1 \in 1 .. 2 * n /\ 2 * i \in 1 .. 2 * n
        /\ ((2 * i - 1) + 1) \div 2 = i /\ (2 * i + 1) \div 2 = i
    BY <1>1
  <2>2. first = TRUE /\ second = FALSE
    OBVIOUS
  <2>3. x[2 * i - 1] = HexDigit(c, first) /\ x[2 * i] = HexDigit(c, second)
    BY <1>3, <2>1
  <2> HIDE DEF first, second
  <2>4. x[2 * i - 1] = Digit(c \div 16, 97) /\ x[2 * i] = Digit(c % 16, 97)
    BY <2>2, <2>3 DEF HexDigit
  <2>5. c \in 0 .. 255
    BY <1>4 DEF Byte
  <2> HIDE DEF c
  <2>6. c \div 16 \in 0 .. 15 /\ c % 16 \in 0 .. 15 /\ c = 16 * (c \div 16) + (c % 16)
    BY <2>5
  <2>7. \A d \in 0 .. 15 : DigitValue(Digit(d, 97), 97) = d
    BY DEF Digit, DigitValue, Zero
  <2>8. val(i) = 16 * (c \div 16) + (c % 16)
    BY <2>4, <2>6, <2>7
  <2> QED
    BY <2>6, <2>8 DEF c
<1>10. b = [i \in 1 .. n |-> b[i]]
  BY DEF n
<1> HIDE DEF val
<1>11. DecodeHex(x) = b
  BY <1>8, <1>9, <1>10
<1> QED
  BY <1>11 DEF x

\* Upper-casing twice is upper-casing, and likewise for lower case.
LEMMA CasedTwice ==
  ASSUME NEW s \in Str
  PROVE  Upper(Upper(s)) = Upper(s) /\ Lower(Lower(s)) = Lower(s)
<1> DEFINE u == [i \in 1 .. Len(s) |-> UpperLetter(s[i])]
           l == [i \in 1 .. Len(s) |-> LowerLetter(s[i])]
<1>1. DOMAIN s = 1 .. Len(s) /\ \A i \in 1 .. Len(s) : s[i] \in Int
  BY DEF Str
<1>2. \A c \in Int : UpperLetter(UpperLetter(c)) = UpperLetter(c)
  <2>1. ASSUME NEW c \in Int PROVE UpperLetter(UpperLetter(c)) = UpperLetter(c)
    <3>1. CASE c \in DOMAIN UpperOf
      BY <3>1, CaseAssumption DEF UpperLetter
    <3>2. CASE c \notin DOMAIN UpperOf /\ c \in 97 .. 122
      <4> DEFINE d == c - 32
      <4>1. UpperLetter(c) = d
        BY <3>2 DEF UpperLetter, AsciiUpper
      <4>2. d \in Ascii /\ d \notin 97 .. 122
        BY <3>2 DEF Ascii
      <4> HIDE DEF d
      <4>3. d \notin DOMAIN UpperOf
        BY <4>2, CaseAssumption DEF CaseTable
      <4>4. UpperLetter(d) = d
        BY <4>2, <4>3 DEF UpperLetter, AsciiUpper
      <4> QED
        BY <4>1, <4>4
    <3>3. CASE c \notin DOMAIN UpperOf /\ c \notin 97 .. 122
      BY <3>3 DEF UpperLetter, AsciiUpper
    <3> QED
      BY <3>1, <3>2, <3>3
  <2> QED
    BY <2>1
<1>3. \A c \in Int : LowerLetter(LowerLetter(c)) = LowerLetter(c)
  <2>1. ASSUME NEW c \in Int PROVE LowerLetter(LowerLetter(c)) = LowerLetter(c)
    <3>1. CASE c \in DOMAIN LowerOf
      BY <3>1, CaseAssumption DEF LowerLetter
    <3>2. CASE c \notin DOMAIN LowerOf /\ c \in 65 .. 90
      <4> DEFINE d == c + 32
      <4>1. LowerLetter(c) = d
        BY <3>2 DEF LowerLetter, AsciiLower
      <4>2. d \in Ascii /\ d \notin 65 .. 90
        BY <3>2 DEF Ascii
      <4> HIDE DEF d
      <4>3. d \notin DOMAIN LowerOf
        BY <4>2, CaseAssumption DEF CaseTable
      <4>4. LowerLetter(d) = d
        BY <4>2, <4>3 DEF LowerLetter, AsciiLower
      <4> QED
        BY <4>1, <4>4
    <3>3. CASE c \notin DOMAIN LowerOf /\ c \notin 65 .. 90
      BY <3>3 DEF LowerLetter, AsciiLower
    <3> QED
      BY <3>1, <3>2, <3>3
  <2> QED
    BY <2>1
<1>4. Upper(s) = u /\ Lower(s) = l
  BY <1>1 DEF Upper, Lower
<1>5. Upper(u) = [i \in 1 .. Len(s) |-> UpperLetter(u[i])]
      /\ Lower(l) = [i \in 1 .. Len(s) |-> LowerLetter(l[i])]
  BY DEF Upper, Lower
<1>6. \A i \in 1 .. Len(s) : UpperLetter(u[i]) = u[i] /\ LowerLetter(l[i]) = l[i]
  BY <1>1, <1>2, <1>3
<1>7. Upper(u) = u /\ Lower(l) = l
  BY <1>5, <1>6
<1> QED
  BY <1>4, <1>7

\* A ULID of ASCII is encoded to itself when it is encoded again.
LEMMA ULIDBack ==
  ASSUME NEW s \in Str, AllAscii(s), EncodeULID(s) # Refused
  PROVE  EncodeULID(EncodeULID(s)) = EncodeULID(s)
<1> DEFINE u == Upper(s)
<1>1. EncodeULID(s) = u /\ Len(s) = Width["ulid"] /\ TextIn(Crockford, u)
  BY ULIDString, ULIDText
<1>2. u \in Str /\ Len(u) = Len(s) /\ DOMAIN u = 1 .. Len(u)
  BY UpperString DEF Str
<1>3. Upper(u) = u
  BY CasedTwice
<1>4. ~(u[1] > 55) /\ ~\E i \in DOMAIN u : ~Contains(Crockford, u[i])
  <2> HIDE DEF u
  <2> QED
    BY DEF EncodeULID, u
<1> HIDE DEF u
<1>5. AllAscii(u)
  <2>1. \A i \in 1 .. 32 : Crockford[i] \in Ascii
    BY DEF Crockford, Ascii
  <2> QED
    BY <1>1, <1>2, <2>1, CrockfordLetters DEF TextIn, AllAscii
<1>6. Len(ToBytes(u)) = Width["ulid"]
  BY <1>1, <1>2, <1>5, AsciiBytes
<1>7. EncodeULID(u) = IF \/ Len(ToBytes(u)) # Width["ulid"]
                         \/ u[1] > 55
                         \/ \E i \in DOMAIN u : ~Contains(Crockford, u[i])
                      THEN Refused ELSE u
  BY <1>3, Zenon DEF EncodeULID
<1>8. EncodeULID(u) = u
  BY <1>4, <1>6, <1>7, Zenon
<1> QED
  BY <1>1, <1>8

\* The type that a decoded value is encoded again with: a time decoded from
\* epoch seconds or milliseconds comes as their number.
BackType(enc, goType) ==
  IF goType = "time.Time" /\ enc.name # "rfc3339" THEN "int64" ELSE goType

LEMMA PaddedInverts ==
  ASSUME NEW enc, NEW goType, NEW v, Takes(enc, goType, v), Padding(enc),
         EncodeValue(enc, goType, v) # Refused,
         enc.name = "pad" => v[1] <= MaxInt64
  PROVE  /\ DecodeSegment(enc, EncodeValue(enc, goType, v)) # Refused
         /\ EncodeValue(enc, BackType(enc, goType), DecodeSegment(enc, EncodeValue(enc, goType, v)))
              = EncodeValue(enc, goType, v)
<1> DEFINE n == Number(enc, goType, v)
           w == PadWidth(enc)
           x == EncodeValue(enc, goType, v)
<1>1. n \in Int /\ w \in Nat \ {0} /\ x = padInt(n, w) /\ x # Refused
  BY PaddedNumber
<1>2. goType # "time.Time" => n = v[1]
  BY DEF Number
<1>3. enc.name = "pad" => goType # "time.Time"
  BY DEF Takes, EncoderCompat, Strings, Unsigned
<1>4. enc.name = "rfc3339" => goType = "time.Time"
  BY DEF Takes, EncoderCompat, Strings, Unsigned
<1>5. \A m : Number(enc, BackType(enc, goType), <<m>>) = m
  BY DEF Number, BackType
<1>6. \A m : EncodeValue(enc, BackType(enc, goType), <<m>>) = padInt(m, w)
  BY <1>5 DEF EncodeValue, Padding
<1> HIDE DEF n, w, x
<1>7. n \in Nat /\ n < Tens[w] /\ x = Decimal(n, w)
  BY <1>1, PaddedString
<1>8. DecodeSegment(enc, x) = <<n>>
  <2>1. CASE enc.name = "rfc3339"
    <3>1. DecodeSegment(enc, x) = DecodeRFC3339(x) /\ w = Width["rfc3339"]
      BY <2>1 DEF DecodeSegment, w, PadWidth
    <3> QED
      BY <1>1, <1>7, <3>1, PaddedBack
  <2>2. CASE enc.name # "rfc3339"
    <3>1. DecodeSegment(enc, x) = unpadInt(x, w)
      BY <2>2 DEF DecodeSegment, Padding, w
    <3>2. n <= MaxInt64
      <4>1. CASE enc.name = "pad"
        BY <1>2, <1>3, <4>1
      <4>2. CASE enc.name \in {"epoch", "epochms"}
        <5>1. Tens[w] <= MaxInt64 + 1
          BY <4>2, EpochsFit DEF w, PadWidth
        <5>2. Tens[w] \in Nat /\ MaxInt64 \in Nat
          BY <1>1, PowersOfTen, MaxInt64Assumption
        <5> QED
          BY <1>7, <5>1, <5>2
      <4> QED
        BY <2>2, <4>1, <4>2 DEF Padding
    <3> QED
      BY <1>1, <1>7, <3>1, <3>2, PaddedBack
  <2> QED
    BY <2>1, <2>2
<1>9. <<n>> # Refused
  BY <1>7 DEF Refused
<1>10. EncodeValue(enc, BackType(enc, goType), <<n>>) = x
  BY <1>1, <1>6
<1> QED
  BY <1>8, <1>9, <1>10 DEF x

LEMMA TextInverts ==
  ASSUME NEW enc, NEW goType, NEW v, Takes(enc, goType, v), enc.name \in Strings, AsciiULID(enc, v),
         EncodeValue(enc, goType, v) # Refused
  PROVE  /\ DecodeSegment(enc, EncodeValue(enc, goType, v)) # Refused
         /\ EncodeValue(enc, BackType(enc, goType), DecodeSegment(enc, EncodeValue(enc, goType, v)))
              = EncodeValue(enc, goType, v)
<1> DEFINE x == EncodeValue(enc, goType, v)
<1>1. goType = "string" /\ v \in Seq(Char) /\ v \in Str
  <2>1. goType = "string"
    BY DEF Takes, EncoderCompat, Strings
  <2>2. v \in Seq(Char)
    BY <2>1 DEF Takes, IsOf, ByteArrays
  <2> QED
    BY <2>1, <2>2, TextType
<1>2. BackType(enc, goType) = "string"
  BY <1>1 DEF BackType
<1>3. ASSUME NEW s \in Str, x = CheckSegment(s)
      PROVE  x = s /\ CheckSegment(s) = s
  BY <1>3, CheckedSegment
<1>4. CASE enc.name = ""
  <2>1. x = CheckSegment(v) /\ DecodeSegment(enc, x) = x /\ EncodeValue(enc, "string", x) = CheckSegment(x)
    BY <1>4 DEF EncodeValue, DecodeSegment
  <2>2. x = v /\ CheckSegment(v) = v
    BY <1>1, <1>3, <2>1
  <2> HIDE DEF x
  <2> QED
    BY <1>2, <2>1, <2>2 DEF x
<1>5. CASE enc.name = "upper"
  <2>1. x = CheckSegment(Upper(v)) /\ DecodeSegment(enc, x) = x /\ EncodeValue(enc, "string", x) = CheckSegment(Upper(x))
    BY <1>5 DEF EncodeValue, DecodeSegment
  <2>2. Upper(v) \in Str /\ Upper(Upper(v)) = Upper(v)
    BY <1>1, UpperString, CasedTwice
  <2>3. x = Upper(v) /\ CheckSegment(Upper(v)) = Upper(v)
    BY <1>3, <2>1, <2>2
  <2> HIDE DEF x
  <2> QED
    BY <1>2, <2>1, <2>2, <2>3 DEF x
<1>6. CASE enc.name = "lower"
  <2>1. x = CheckSegment(Lower(v)) /\ DecodeSegment(enc, x) = x /\ EncodeValue(enc, "string", x) = CheckSegment(Lower(x))
    BY <1>6 DEF EncodeValue, DecodeSegment
  <2>2. Lower(v) \in Str /\ Lower(Lower(v)) = Lower(v)
    BY <1>1, LowerString, CasedTwice
  <2>3. x = Lower(v) /\ CheckSegment(Lower(v)) = Lower(v)
    BY <1>3, <2>1, <2>2
  <2> HIDE DEF x
  <2> QED
    BY <1>2, <2>1, <2>2, <2>3 DEF x
<1>7. CASE enc.name = "urlenc"
  <2>1. x = CheckSegment(EncodeURL(v)) /\ DecodeSegment(enc, x) = DecodeURL(x)
        /\ EncodeValue(enc, "string", v) = x
    BY <1>1, <1>7 DEF EncodeValue, DecodeSegment
  <2>2. EncodeURL(v) \in Str /\ DecodeURL(EncodeURL(v)) = v
    BY <1>1, URLString
  <2>3. x = EncodeURL(v)
    BY <1>3, <2>1, <2>2
  <2>4. v # Refused
    <3>1. ASSUME v = Refused PROVE FALSE
      <4>1. Len(v) = 1 /\ v[1] = -1
        BY <3>1 DEF Refused
      <4>2. v[1] \in Char
        BY <1>1, <4>1, SeqElements
      <4> QED
        BY <4>1, <4>2, CharSize
    <3> QED
      BY <3>1
  <2> HIDE DEF x
  <2> QED
    BY <1>2, <2>1, <2>2, <2>3, <2>4 DEF x
<1>8. CASE enc.name = "ulid"
  <2>1. x = EncodeULID(v) /\ DecodeSegment(enc, x) = EncodeULID(x)
        /\ EncodeValue(enc, "string", x) = EncodeULID(x)
    BY <1>8 DEF EncodeValue, DecodeSegment
  <2>2. EncodeULID(v) # Refused /\ AllAscii(v)
    BY <1>8, <2>1 DEF AsciiULID
  <2>3. EncodeULID(EncodeULID(v)) = EncodeULID(v)
    BY <1>1, <2>2, ULIDBack
  <2> HIDE DEF x
  <2> QED
    BY <1>2, <2>1, <2>2, <2>3 DEF x
<1> QED
  BY <1>4, <1>5, <1>6, <1>7, <1>8 DEF Strings

LEMMA BytesInvert ==
  ASSUME NEW enc, NEW goType, NEW v, Takes(enc, goType, v), enc.name = "hex",
         EncodeValue(enc, goType, v) # Refused
  PROVE  /\ DecodeSegment(enc, EncodeValue(enc, goType, v)) # Refused
         /\ EncodeValue(enc, BackType(enc, goType), DecodeSegment(enc, EncodeValue(enc, goType, v)))
              = EncodeValue(enc, goType, v)
<1> DEFINE x == EncodeValue(enc, goType, v)
<1>1. goType = "[]byte" \/ goType \in ByteArrays
  BY DEF Takes, EncoderCompat, Strings
<1>2. v \in Seq(Byte) /\ goType # "time.Time"
  BY <1>1 DEF Takes, IsOf, ByteArrays
<1>3. x = EncodeHex(v)
  <2>1. x = CheckSegment(EncodeHex(v)) \/ x = EncodeHex(v)
    BY DEF EncodeValue
  <2>2. EncodeHex(v) \in Str
    BY <1>2, HexString
  <2> QED
    BY <2>1, <2>2, CheckedSegment
<1>4. DecodeSegment(enc, EncodeHex(v)) = v
  BY <1>2, HexBack DEF DecodeSegment
<1>5. v # Refused
  <2>1. ASSUME v = Refused PROVE FALSE
    <3>1. Len(v) = 1 /\ v[1] = -1
      BY <2>1 DEF Refused
    <3>2. v[1] \in Byte
      BY <1>2, <3>1
    <3> QED
      BY <3>1, <3>2 DEF Byte
  <2> QED
    BY <2>1
<1>6. BackType(enc, goType) = goType
  BY <1>2 DEF BackType
<1> HIDE DEF x
<1> QED
  BY <1>3, <1>4, <1>5, <1>6 DEF x

\* A decoder takes a segment of the encoder to a value that is encoded to the
\* same segment.
THEOREM DecodersInvert ==
  ASSUME NEW enc, NEW goType, NEW v, Takes(enc, goType, v),
         EncodeValue(enc, goType, v) # Refused,
         enc.name = "pad" => v[1] <= MaxInt64, AsciiULID(enc, v)
  PROVE  /\ DecodeSegment(enc, EncodeValue(enc, goType, v)) # Refused
         /\ EncodeValue(enc, BackType(enc, goType), DecodeSegment(enc, EncodeValue(enc, goType, v)))
              = EncodeValue(enc, goType, v)
<1>1. Padding(enc) \/ enc.name \in Strings \/ enc.name = "hex"
  BY DEF Takes, Known, Padding, FixedEncoders, Strings
<1> QED
  BY <1>1, PaddedInverts, TextInverts, BytesInvert

\* The generator's own engine makes the same segment, of the Go types that
\* it takes.
LEMMA EnginesSegment ==
  ASSUME NEW enc, NEW goType, NEW v, Takes(enc, goType, v), EncodeValue(enc, goType, v) # Refused
  PROVE  EncodeSegment(enc, goType, v)
           = IF EngineTakes(enc, goType) THEN EncodeValue(enc, goType, v) ELSE Refused
<1>1. CASE enc.name = "hex"
  <2>1. goType = "[]byte" => v \in Seq(Byte)
    BY DEF Takes, IsOf, ByteArrays
  <2>2. CASE goType = "[]byte"
    <3>1. EncodeHex(v) \in Str
      BY <2>1, <2>2, HexString
    <3>2. EncodeValue(enc, goType, v) = CheckSegment(EncodeHex(v)) /\ EncodeSegment(enc, goType, v) = EncodeHex(v)
      BY <1>1, <2>2 DEF EncodeValue, EncodeSegment
    <3>3. EngineTakes(enc, goType)
      BY <1>1, <2>2 DEF EngineTakes
    <3> QED
      BY <3>1, <3>2, <3>3, CheckedSegment
  <2> QED
    BY <1>1, <2>2 DEF EncodeSegment, EngineTakes
<1>2. CASE enc.name = "urlenc"
  <2>1. v \in Seq(Char)
    BY <1>2 DEF Takes, IsOf, ByteArrays, EncoderCompat, Strings
  <2>2. EncodeURL(v) \in Str
    BY <2>1, URLString
  <2>3. EncodeValue(enc, goType, v) = CheckSegment(EncodeURL(v)) /\ EncodeSegment(enc, goType, v) = EncodeURL(v)
    BY <1>2 DEF EncodeValue, EncodeSegment
  <2>4. EngineTakes(enc, goType)
    BY <1>2 DEF EngineTakes
  <2> QED
    BY <2>2, <2>3, <2>4, CheckedSegment
<1>3. CASE enc.name \notin {"hex", "urlenc"}
  BY <1>3 DEF EncodeSegment, EngineTakes
<1> QED
  BY <1>1, <1>2, <1>3

\* The url escape is the way to keep any text in a key: the encoder refuses
\* no text but the empty one, what it writes has no delimiter, and different
\* texts are written differently (encode.go 168-172).
THEOREM EscapeHatch ==
  ASSUME NEW s \in Seq(Char), s # <<>>
  PROVE  LET x == EncodeValue(Enc("urlenc"), "string", s)
         IN  /\ x = EncodeURL(s) /\ x # Refused /\ x \in HashFree /\ x # <<>>
             /\ \A t \in Seq(Char) : EncodeURL(t) = x => t = s
<1> DEFINE y == EncodeURL(s)
<1>1. y \in Str /\ (\A i \in 1 .. Len(y) : y[i] # Hash) /\ DecodeURL(y) = s
  BY URLString
<1>2. \A t \in Seq(Char) : EncodeURL(t) = y => t = s
  <2> SUFFICES ASSUME NEW t \in Seq(Char), EncodeURL(t) = y PROVE t = s
    OBVIOUS
  <2>1. DecodeURL(EncodeURL(t)) = t
    BY URLString
  <2> HIDE DEF y
  <2> QED
    BY <1>1, <2>1
<1>3. EncodeValue(Enc("urlenc"), "string", s) = CheckSegment(y)
  BY DEF EncodeValue, Enc
<1>4. y # <<>>
  <2>1. EncodeURL(<<>>) = <<>>
    <3>1. ToBytes(<<>>) = <<>>
      BY NoBytes
    <3>2. Escape(<<>>) = <<>>
      <4> DEFINE q == [i \in DOMAIN <<>> |-> EscapeByte(<<>>[i])]
      <4>1. DOMAIN <<>> = 1 .. 0 /\ \A i \in 1 .. 0 : EscapeByte(<<>>[i]) \in Str
        OBVIOUS
      <4>2. q \in [1 .. 0 -> Str]
        BY <4>1
      <4> HIDE DEF q
      <4>3. q \in Seq(Str) /\ Len(q) = 0
        BY <4>2, FunctionIsSeq
      <4> QED
        BY <4>3, FlattenNone DEF Escape, q
    <3> QED
      BY <3>1, <3>2 DEF EncodeURL
  <2>2. <<>> \in Seq(Char)
    OBVIOUS
  <2>3. EncodeURL(<<>>) = y => <<>> = s
    BY <1>2, <2>2
  <2> QED
    BY <2>1, <2>3
<1>5. y # Refused
  <2>1. y \in Escapes
    BY BytesOfText, EscapedBytes DEF EncodeURL
  <2>2. Refused[1] = -1 /\ Len(Refused) = 1
    BY DEF Refused
  <2> HIDE DEF y
  <2>3. y # <<>> => 1 \in 1 .. Len(y)
    BY <1>1 DEF Str
  <2>4. y # <<>> => 36 < y[1]
    BY <2>1, <2>3 DEF Escapes
  <2> QED
    BY <1>4, <2>2, <2>4
<1> HIDE DEF y
<1>6. CheckSegment(y) = y
  BY <1>1, <1>4 DEF CheckSegment, Contains
<1>7. y \in HashFree
  BY <1>1 DEF HashFree
<1> QED
  BY <1>2, <1>3, <1>4, <1>5, <1>6, <1>7 DEF y
==============================================================================
