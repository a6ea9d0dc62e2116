----------------------------- MODULE BatchProofs ------------------------------
(***************************************************************************)
(* Proofs about BatchRetry, for every list, chunk size and number of       *)
(* attempts: what a call still has to do is a list of distinct keys of its *)
(* current chunk that the service has not processed; the chunks before it  *)
(* are done and those after it are untouched.                              *)
(***************************************************************************)
EXTENDS BatchRetry, FiniteSetTheorems, FunctionTheorems, SequenceTheorems,
        WellFoundedInduction, TLAPS

\* A list of distinct keys.
Distinct(l) == l \in Seq(Keys) /\ IsInjective(l)

\* The outer loop: chunks before the current one are done, later ones are not.
ListInv ==
  /\ Distinct(list)
  /\ \A i \in DOMAIN list : i <= start => handled[list[i]] = 1
  /\ \A i \in DOMAIN list : start + Chunk < i => handled[list[i]] = 0

\* The inner loop: what is still to do of the current chunk.
ChunkInv(todo) ==
  /\ Distinct(todo) /\ Len(todo) <= Chunk
  /\ \A k \in ToSet(todo) : handled[k] = 0
  /\ \A k \in ToSet(todo) : \E i \in DOMAIN list :
       start < i /\ i <= start + Chunk /\ list[i] = k
  /\ \A i \in DOMAIN list : start < i /\ i <= start + Chunk =>
       handled[list[i]] = 1 \/ list[i] \in ToSet(todo)

\* The inductive invariant.
IInv ==
  /\ TypeOK
  /\ HandledOnce
  /\ pc = "idle" => \A k \in Keys : handled[k] = 0
  /\ pc # "idle" => op \in {"get", "write"}
  /\ pc = "wait" => ListInv /\ ChunkInv(remaining) /\ remaining # <<>>
  /\ pc \in {"answered", "backoff"} => ListInv /\ ChunkInv(answer)
  /\ pc = "backoff" => answer # <<>> /\ ~Exhausted
  /\ pc \in {"wait", "answered", "backoff"} => ToSet(list) = ToSet(asked)
  /\ pc = "returned" /\ result = "UnprocessedError" =>
       ListInv /\ ChunkInv(leftover) /\ leftover # <<>>
  /\ NilMeansAll

------------------------------------------------------------------------------
(* Sets of places.                                                         *)

\* Sets of naturals have a least element.
LEMMA LeastOf ==
  ASSUME NEW S, S \subseteq Nat, S # {}
  PROVE  \E i \in S : \A j \in S : i <= j
<1>1. PICK i \in S : \A j \in S : ~(<<j, i>> \in OpToRel(<, Nat))
  BY NatLessThanWellFounded, WFMin
<1>2. \A j \in S : ~(j < i)
  BY <1>1 DEF OpToRel
<1> QED
  BY <1>2

\* The places of a list, counted in their order.
LEMMA Ranks ==
  ASSUME NEW m \in Nat, NEW S \in SUBSET (1 .. m)
  PROVE  /\ Cardinality(S) \in Nat
         /\ \A n \in 1 .. Cardinality(S) : \E i \in S : Cardinality({j \in S : j < i}) = n - 1
<1> DEFINE below(i) == {j \in S : j < i}
           r == [i \in S |-> Cardinality(below(i))]
           N == Cardinality(S)
<1>1. IsFiniteSet(S) /\ N \in Nat
  <2>1. IsFiniteSet(1 .. m)
    BY FS_Interval
  <2> QED
    BY <2>1, FS_Subset, FS_CardinalityType
<1>2. ASSUME NEW i \in S
      PROVE  IsFiniteSet(below(i)) /\ r[i] \in 0 .. N - 1
  <2>1. below(i) \in SUBSET S /\ below(i) # S
    BY <1>2
  <2>2. IsFiniteSet(below(i)) /\ Cardinality(below(i)) <= N /\ Cardinality(below(i)) # N
    BY <1>1, <2>1, FS_Subset
  <2>3. Cardinality(below(i)) \in Nat
    BY <2>2, FS_CardinalityType
  <2> QED
    BY <1>1, <2>2, <2>3
<1>3. ASSUME NEW i \in S, NEW k \in S, i < k
      PROVE  r[i] # r[k]
  <2>0. S \subseteq Int
    OBVIOUS
  <2>1. below(i) \in SUBSET below(k) /\ below(i) # below(k)
    <3>1. \A j \in S : j < i => j < k
      BY <1>3, <2>0
    <3>2. i \in below(k) /\ i \notin below(i)
      BY <1>3, <2>0
    <3> QED
      BY <3>1, <3>2
  <2> HIDE DEF below
  <2>2. Cardinality(below(i)) # Cardinality(below(k))
    BY <1>2, <2>1, FS_Subset
  <2> QED
    BY <2>2
<1>4. r \in Injection(S, 0 .. N - 1)
  <2>1. r \in [S -> 0 .. N - 1]
    BY <1>2
  <2>2. \A i, k \in S : r[i] = r[k] => i = k
    <3>1. \A i, k \in S : i = k \/ i < k \/ k < i
      OBVIOUS
    <3> HIDE DEF r
    <3> QED
      BY <1>3, <3>1
  <2> HIDE DEF r
  <2> QED
    BY <2>1, <2>2, Fun_IsInj
<1>5. IsFiniteSet(0 .. N - 1) /\ Cardinality(0 .. N - 1) = N
  <2> HIDE DEF N
  <2>1. 0 \in Int /\ N - 1 \in Int /\ N = IF 0 <= N - 1 THEN N - 1 - 0 + 1 ELSE 0
    BY <1>1
  <2> QED
    BY <2>1, FS_Interval
<1>6. r \in Surjection(S, 0 .. N - 1)
  <2>1. Cardinality(S) = N
    OBVIOUS
  <2> HIDE DEF r, N
  <2>2. Cardinality(S) = Cardinality(0 .. N - 1) <=> r \in Surjection(S, 0 .. N - 1)
    BY <1>4, <1>5, FS_Injection
  <2> QED
    BY <1>5, <2>1, <2>2
<1>7. \A t \in 0 .. N - 1 : \E i \in S : r[i] = t
  <2> HIDE DEF r, N
  <2> QED
    BY <1>6 DEF Surjection
<1>8. ASSUME NEW n \in 1 .. N
      PROVE  \E i \in S : Cardinality(below(i)) = n - 1
  <2>1. n - 1 \in 0 .. N - 1
    BY <1>1
  <2> QED
    BY <1>7, <2>1
<1> QED
  BY <1>1, <1>8

\* Deduplication keeps every key, once.
LEMMA DedupedIs ==
  ASSUME NEW l \in Seq(Keys)
  PROVE  Distinct(Deduped(l)) /\ ToSet(Deduped(l)) = ToSet(l)
<1> DEFINE S == FirstPlaces(l)
           N == Cardinality(S)
           nth(n) == CHOOSE i \in S : Cardinality({j \in S : j < i}) = n - 1
           d == [n \in 1 .. N |-> l[nth(n)]]
<1>0. l \in [1 .. Len(l) -> Keys] /\ Len(l) \in Nat
  OBVIOUS
<1>1. S \in SUBSET (1 .. Len(l)) /\ Len(l) \in Nat
  BY DEF FirstPlaces
<1>2. /\ N \in Nat
      /\ \A n \in 1 .. N : \E i \in S : Cardinality({j \in S : j < i}) = n - 1
  <2> HIDE DEF S
  <2> QED
    BY <1>1, Ranks
<1>3. \A n \in 1 .. N : nth(n) \in S /\ Cardinality({j \in S : j < nth(n)}) = n - 1
  BY <1>2
<1>4. Deduped(l) = d
  BY DEF Deduped
<1>5. \A i, k \in S : l[i] = l[k] => i = k
  BY <1>1 DEF FirstPlaces
<1> HIDE DEF S, nth
<1>6. d \in Seq(Keys)
  <2>1. ASSUME NEW n \in 1 .. N PROVE l[nth(n)] \in Keys
    <3>1. nth(n) \in 1 .. Len(l)
      BY <1>1, <1>3
    <3> QED
      BY <1>0, <3>1
  <2> QED
    BY <1>2, <2>1
<1>7. \A a, b \in 1 .. N : d[a] = d[b] => a = b
  <2> SUFFICES ASSUME NEW a \in 1 .. N, NEW b \in 1 .. N, d[a] = d[b] PROVE a = b
    OBVIOUS
  <2>1. nth(a) = nth(b)
    BY <1>3, <1>5
  <2>2. a - 1 = b - 1
    BY <1>3, <2>1
  <2> QED
    BY <2>2
<1>8. IsInjective(d)
  BY <1>7 DEF IsInjective
<1>9. ToSet(d) \subseteq ToSet(l)
  <2> SUFFICES ASSUME NEW n \in 1 .. N PROVE l[nth(n)] \in ToSet(l)
    BY DEF ToSet
  <2>1. nth(n) \in 1 .. Len(l)
    BY <1>1, <1>3
  <2> QED
    BY <1>0, <2>1 DEF ToSet
<1>10. ASSUME NEW k \in ToSet(l) PROVE k \in ToSet(d)
  <2> DEFINE P == {i \in DOMAIN l : l[i] = k}
  <2>1. P \subseteq Nat /\ P # {}
    BY DEF ToSet
  <2>2. PICK i \in P : \A j \in P : i <= j
    <3> HIDE DEF P
    <3> QED
      BY <2>1, LeastOf
  <2>3. i \in S /\ l[i] = k
    BY <2>2 DEF S, FirstPlaces
  <2> DEFINE B(x) == {j \in S : j < x}
             n == Cardinality(B(i)) + 1
  <2>4. IsFiniteSet(S)
    <3>1. IsFiniteSet(1 .. Len(l))
      BY <1>1, FS_Interval
    <3> QED
      BY <1>1, <3>1, FS_Subset
  <2>5. n \in 1 .. N
    <3>1. B(i) \in SUBSET S /\ B(i) # S
      BY <1>1, <2>3
    <3> HIDE DEF B
    <3>2. IsFiniteSet(B(i)) /\ Cardinality(B(i)) <= N /\ Cardinality(B(i)) # N
      BY <2>4, <3>1, FS_Subset
    <3>3. Cardinality(B(i)) \in Nat
      BY <3>2, FS_CardinalityType
    <3> QED
      BY <1>2, <3>2, <3>3
  <2>6. nth(n) = i
    <3>1. nth(n) \in S /\ Cardinality(B(nth(n))) = Cardinality(B(i))
      <4>1. Cardinality(B(i)) \in Int
        <5>1. B(i) \in SUBSET S
          OBVIOUS
        <5> HIDE DEF B
        <5> QED
          BY <2>4, <5>1, FS_Subset, FS_CardinalityType
      <4>2. nth(n) \in S /\ Cardinality(B(nth(n))) = n - 1
        BY <1>3, <2>5
      <4> HIDE DEF B
      <4> QED
        BY <4>1, <4>2
    <3>2. ASSUME NEW x \in S, NEW y \in S, x < y PROVE Cardinality(B(x)) # Cardinality(B(y))
      <4>0. S \subseteq Int
        BY <1>1
      <4>1. B(x) \in SUBSET B(y) /\ B(x) # B(y) /\ B(y) \in SUBSET S
        <5>1. \A j \in S : j < x => j < y
          BY <3>2, <4>0
        <5>2. x \in B(y) /\ x \notin B(x)
          BY <3>2, <4>0
        <5> QED
          BY <5>1, <5>2
      <4> HIDE DEF B
      <4> QED
        BY <2>4, <4>1, FS_Subset
    <3>3. nth(n) \in Nat /\ i \in Nat
      BY <1>1, <2>3, <3>1
    <3> HIDE DEF B, n
    <3> QED
      BY <2>3, <3>1, <3>2, <3>3
  <2>7. d[n] = k
    BY <2>3, <2>5, <2>6
  <2> HIDE DEF n
  <2> QED
    BY <2>5, <2>7 DEF ToSet
<1> HIDE DEF d
<1> QED
  BY <1>4, <1>6, <1>8, <1>9, <1>10 DEF Distinct

\* What the service may leave of a request, in any order.
LEMMA OrdersOf ==
  ASSUME NEW l \in Seq(Keys), NEW S \in SUBSET ToSet(l), NEW a \in SetToSeqs(S)
  PROVE  Distinct(a) /\ ToSet(a) = S /\ Len(a) <= Len(l)
<1> DEFINE C == Cardinality(S)
<1>1. Len(l) \in Nat /\ IsFiniteSet(1 .. Len(l)) /\ Cardinality(1 .. Len(l)) = Len(l)
  <2>1. Len(l) \in Nat
    OBVIOUS
  <2> QED
    BY <2>1, FS_Interval
<1>2. l \in Surjection(1 .. Len(l), ToSet(l))
  BY DEF Surjection, ToSet
<1>3. IsFiniteSet(ToSet(l)) /\ Cardinality(ToSet(l)) <= Len(l)
  BY <1>1, <1>2, FS_Surjection
<1>4. IsFiniteSet(S) /\ C <= Cardinality(ToSet(l))
  BY <1>3, FS_Subset
<1>5. C \in Nat /\ Cardinality(ToSet(l)) \in Nat
  BY <1>3, <1>4, FS_CardinalityType
<1>6. a \in [1 .. C -> S] /\ (\A i, j \in 1 .. C : a[i] = a[j] => i = j)
  BY DEF SetToSeqs
<1>7. a \in Injection(1 .. C, S)
  BY <1>6, Fun_IsInj
<1>8. Cardinality(1 .. C) = C
  BY <1>5, FS_Interval
<1>9. a \in Surjection(1 .. C, S)
  BY <1>4, <1>7, <1>8, FS_Injection
<1> HIDE DEF C
<1>10. ToSet(a) = S
  BY <1>6, <1>9 DEF Surjection, ToSet
<1>11. S \subseteq Keys
  BY DEF ToSet
<1>12. a \in Seq(Keys) /\ Len(a) = C
  BY <1>5, <1>6, <1>11
<1>13. IsInjective(a)
  BY <1>6 DEF IsInjective
<1> QED
  BY <1>1, <1>3, <1>4, <1>5, <1>10, <1>12, <1>13 DEF Distinct

------------------------------------------------------------------------------
(* The head of the outer loop.                                             *)

LEMMA ChunkType == Chunk \in Nat \ {0}
BY ChunkAssumption DEF Chunk

\* The places of a part of a list.
LEMMA PartOf ==
  ASSUME NEW l, Distinct(l), NEW s \in Nat, NEW e \in Nat, s < e, e <= Len(l)
  PROVE  /\ Distinct(SubSeq(l, s + 1, e))
         /\ Len(SubSeq(l, s + 1, e)) = e - s
         /\ \A k : k \in ToSet(SubSeq(l, s + 1, e)) <=> \E i \in s + 1 .. e : k = l[i]
<1> DEFINE p == SubSeq(l, s + 1, e)
<1>1. l \in Seq(Keys) /\ IsInjective(l) /\ Len(l) \in Nat
  BY DEF Distinct
<1>2. \A i \in s + 1 .. e : i \in DOMAIN l /\ l[i] \in Keys
  BY <1>1
<1>3. /\ p \in Seq(Keys)
      /\ Len(p) = e - s
      /\ \A i \in 1 .. e - s : p[i] = l[s + i]
  <2>1. s + 1 \in Int /\ e \in Int /\ e - (s + 1) + 1 = e - s /\ s + 1 <= e
    OBVIOUS
  <2>2. /\ p \in Seq(Keys)
        /\ Len(p) = IF s + 1 <= e THEN e - (s + 1) + 1 ELSE 0
        /\ \A i \in 1 .. e - (s + 1) + 1 : p[i] = l[(s + 1) + i - 1]
    BY <1>2, <2>1, SubSeqProperties
  <2>3. \A i \in 1 .. e - s : (s + 1) + i - 1 = s + i
    OBVIOUS
  <2> HIDE DEF p
  <2> QED
    BY <2>1, <2>2, <2>3
<1> HIDE DEF p
<1>4. DOMAIN p = 1 .. e - s
  BY <1>3
<1>5. IsInjective(p)
  <2> SUFFICES ASSUME NEW a \in 1 .. e - s, NEW b \in 1 .. e - s, p[a] = p[b] PROVE a = b
    BY <1>4 DEF IsInjective
  <2>1. l[s + a] = l[s + b] /\ s + a \in DOMAIN l /\ s + b \in DOMAIN l
    BY <1>2, <1>3
  <2>2. s + a = s + b
    BY <1>1, <2>1 DEF IsInjective
  <2> QED
    BY <2>2
<1>6. ASSUME NEW a \in 1 .. e - s
      PROVE  p[a] = l[s + a] /\ s + a \in s + 1 .. e
  BY <1>3
<1>7. ASSUME NEW i \in s + 1 .. e
      PROVE  l[i] \in ToSet(p)
  <2>1. i - s \in 1 .. e - s /\ s + (i - s) = i
    OBVIOUS
  <2>2. p[i - s] = l[i]
    BY <1>3, <2>1
  <2> QED
    BY <1>4, <2>1, <2>2 DEF ToSet
<1>8. \A k : k \in ToSet(p) <=> \E i \in s + 1 .. e : k = l[i]
  BY <1>4, <1>6, <1>7 DEF ToSet
<1> QED
  BY <1>1, <1>3, <1>5, <1>8 DEF Distinct, p

\* Entering the chunk at s: either the list is done, or the next request is
\* what is to do of its next chunk.
LEMMA Enter ==
  ASSUME NEW s \in Nat, EnterChunk(s, Chunk'), Distinct(list'),
         \A i \in DOMAIN list' : i <= s => handled'[list'[i]] = 1,
         \A i \in DOMAIN list' : s < i => handled'[list'[i]] = 0
  PROVE  /\ start' = s /\ attempt' = 0
         /\ \/ /\ pc' = "returned" /\ result' = "nil" /\ remaining' = remaining
               /\ \A i \in DOMAIN list' : handled'[list'[i]] = 1
            \/ /\ pc' = "wait" /\ result' = result
               /\ ListInv' /\ ChunkInv(remaining)' /\ remaining' # <<>>
<1> DEFINE c == Chunk'
           L == Len(list')
           e == IF s + c < L THEN s + c ELSE L
           p == SubSeq(list', s + 1, e)
<1>1. c \in Nat \ {0}
  BY ChunkAssumption DEF Chunk
<1>2. Len(list') \in Nat /\ DOMAIN list' = 1 .. Len(list')
  BY DEF Distinct
<1>3. start' = s /\ attempt' = 0
  BY DEF EnterChunk
<1>4. CASE s >= Len(list')
  <2>1. pc' = "returned" /\ result' = "nil" /\ remaining' = remaining
    BY <1>4 DEF EnterChunk, Return
  <2>2. \A i \in DOMAIN list' : i <= s
    BY <1>2, <1>4
  <2> QED
    BY <1>3, <2>1, <2>2
<1>5. CASE s < Len(list')
  <2>1. pc' = "wait" /\ result' = result /\ remaining' = p
    BY <1>2, <1>5 DEF EnterChunk, Request
  <2>20. L \in Nat /\ s < L
    BY <1>2, <1>5
  <2> HIDE DEF c, L
  <2>2. e \in Nat /\ s < e /\ e <= L /\ e <= s + c
    BY <1>1, <2>20
  <2>3. \A i \in 1 .. L : i <= s + c => i <= e
    BY <1>1, <2>20
  <2> USE DEF L
  <2> HIDE DEF e
  <2>4. /\ Distinct(p) /\ Len(p) = e - s
        /\ \A k : k \in ToSet(p) <=> \E i \in s + 1 .. e : k = list'[i]
    BY <2>2, PartOf
  <2>5. p # <<>> /\ Len(p) <= c
    BY <1>1, <2>2, <2>4
  <2>6. ListInv'
    <3>1. \A i \in DOMAIN list' : s + c < i => s < i
      BY <1>1, <1>2
    <3> QED
      BY <1>3, <3>1 DEF ListInv, c
  <2> HIDE DEF p
  <2>7. \A k \in ToSet(p) : \E i \in s + 1 .. e : k = list'[i]
    BY <2>4
  <2>8. \A i \in s + 1 .. e : i \in DOMAIN list' /\ s < i /\ i <= s + c
    BY <1>1, <1>2, <2>2
  <2>9. \A i \in DOMAIN list' : s < i /\ i <= s + c => i \in s + 1 .. e
    BY <1>2, <2>2, <2>3
  <2>10. \A k \in ToSet(p) : handled'[k] = 0
    BY <2>7, <2>8
  <2>11. \A k \in ToSet(p) : \E i \in DOMAIN list' : s < i /\ i <= s + c /\ list'[i] = k
    BY <2>7, <2>8
  <2>12. \A i \in DOMAIN list' : s < i /\ i <= s + c => list'[i] \in ToSet(p)
    BY <2>4, <2>9
  <2>13. ChunkInv(remaining)'
    BY <1>3, <2>1, <2>4, <2>5, <2>10, <2>11, <2>12 DEF ChunkInv, c
  <2> QED
    BY <1>3, <2>1, <2>5, <2>6, <2>13
<1> QED
  BY <1>2, <1>4, <1>5

------------------------------------------------------------------------------
(* The steps.                                                              *)

LEMMA InitIInv == Init => IInv
<1> SUFFICES ASSUME Init PROVE IInv
  OBVIOUS
<1>1. <<>> \in Seq(Keys) /\ 0 \in 0 .. MaxAttempts - 1 /\ 0 \in 0 .. MaxRounds
  BY AttemptsAssumption, RoundsAssumption
<1>2. TypeOK
  BY <1>1 DEF Init, TypeOK
<1> QED
  BY <1>2 DEF Init, IInv, HandledOnce, NilMeansAll

\* A call about keys the service has not processed.
LEMMA CallStep ==
  ASSUME TypeOK, HandledOnce, NEW name \in {"get", "write"}, NEW l \in Seq(Keys),
         \A k \in ToSet(l) : handled[k] = 0,
         Call(name, l), rounds' \in 0 .. MaxRounds
  PROVE  IInv'
<1>1. /\ op' = name /\ asked' = l
      /\ answer' = answer /\ leftover' = leftover /\ handled' = handled
  BY DEF Call
<1>2. TypeOK'
      /\ HandledOnce'
      /\ pc' # "idle"
      /\ pc' \notin {"answered", "backoff"}
      /\ (pc' = "wait" => ListInv' /\ ChunkInv(remaining)' /\ remaining' # <<>>
                          /\ ToSet(list') = ToSet(asked'))
      /\ (pc' = "returned" => result' # "UnprocessedError")
      /\ NilMeansAll'
  <2>1. CASE pc' = "returned" /\ result' = "ErrDuplicateKey" /\ list' = l
             /\ UNCHANGED <<start, remaining, attempt>>
    <3>1. TypeOK'
      BY <1>1, <2>1 DEF TypeOK
    <3> QED
      BY <1>1, <2>1, <3>1 DEF HandledOnce, NilMeansAll
  <2>2. CASE Distinct(list') /\ ToSet(list') = ToSet(l) /\ EnterChunk(0, Chunk')
    <3>1. DOMAIN list' = 1 .. Len(list') /\ list' \in Seq(Keys) /\ Len(list') \in Nat
      BY <2>2 DEF Distinct
    <3>2. \A i \in DOMAIN list' : ~(i <= 0)
      BY <3>1
    <3>3. \A i \in DOMAIN list' : handled'[list'[i]] = 0
      BY <1>1, <2>2 DEF ToSet
    <3>4. /\ start' = 0 /\ attempt' = 0
          /\ \/ /\ pc' = "returned" /\ result' = "nil" /\ remaining' = remaining
                /\ \A i \in DOMAIN list' : handled'[list'[i]] = 1
             \/ /\ pc' = "wait" /\ result' = result
                /\ ListInv' /\ ChunkInv(remaining)' /\ remaining' # <<>>
      <4>1. 0 \in Nat
        OBVIOUS
      <4>2. \A i \in DOMAIN list' : i <= 0 => handled'[list'[i]] = 1
        BY <3>2
      <4>3. \A i \in DOMAIN list' : 0 < i => handled'[list'[i]] = 0
        BY <3>3
      <4> QED
        BY <2>2, <4>1, <4>2, <4>3, Enter
    <3>5. 0 \in 0 .. MaxAttempts - 1
      BY AttemptsAssumption
    <3>6. CASE /\ pc' = "returned" /\ result' = "nil" /\ remaining' = remaining
               /\ \A i \in DOMAIN list' : handled'[list'[i]] = 1
      <4>1. TypeOK'
        BY <1>1, <3>1, <3>4, <3>5, <3>6 DEF TypeOK
      <4>2. \A k \in ToSet(asked') : handled'[k] = 1
        BY <1>1, <2>2, <3>6 DEF ToSet
      <4> QED
        BY <1>1, <3>6, <4>1, <4>2 DEF HandledOnce, NilMeansAll
    <3>7. CASE /\ pc' = "wait" /\ result' = result
               /\ ListInv' /\ ChunkInv(remaining)' /\ remaining' # <<>>
      <4>1. remaining' \in Seq(Keys)
        BY <3>7 DEF ChunkInv, Distinct
      <4>2. TypeOK'
        BY <1>1, <3>1, <3>4, <3>5, <3>7, <4>1 DEF TypeOK
      <4> QED
        BY <1>1, <2>2, <3>7, <4>2 DEF HandledOnce, NilMeansAll
    <3> QED
      BY <3>4, <3>6, <3>7
  <2>3. CASE name = "get"
    <3>1. BatchGet(l)
      BY <2>3 DEF Call
    <3>2. Chunk' = GetChunk
      BY <1>1, <2>3 DEF Chunk
    <3> QED
      BY <2>2, <3>1, <3>2, DedupedIs DEF BatchGet
  <2>4. CASE name = "write"
    <3>1. BatchWrite(l)
      BY <2>4 DEF Call
    <3>2. Chunk' = WriteChunk
      BY <1>1, <2>4 DEF Chunk
    <3> QED
      BY <2>1, <2>2, <3>1, <3>2 DEF BatchWrite, HasDuplicate, Return, Distinct
  <2> QED
    BY <2>3, <2>4
<1> QED
  BY <1>1, <1>2 DEF IInv

LEMMA ServeStep == ASSUME IInv, Serve PROVE IInv'
<1> USE DEF IInv
<1>1. pc = "wait" /\ pc' = "answered" /\ TypeOK /\ ListInv /\ ChunkInv(remaining)
  BY DEF Serve
<1>2. PICK done \in SUBSET ToSet(remaining) :
        Handle(remaining, done) /\ answer' \in SetToSeqs(ToSet(remaining) \ done)
  BY DEF Serve
<1>3. UNCHANGED <<op, asked, list, start, remaining, attempt, result, leftover, rounds>>
  BY DEF Serve
<1>4. Distinct(answer') /\ ToSet(answer') = ToSet(remaining) \ done
      /\ Len(answer') <= Len(remaining)
  <2>1. remaining \in Seq(Keys) /\ ToSet(remaining) \ done \in SUBSET ToSet(remaining)
    BY <1>1 DEF TypeOK
  <2> QED
    BY <1>2, <2>1, OrdersOf
<1>5. ToSet(remaining) \subseteq Keys
  BY <1>1 DEF TypeOK, ToSet
<1>6. /\ handled' \in [Keys -> Nat]
      /\ \A k \in Keys : k \in done => handled'[k] = 1
      /\ \A k \in Keys : k \notin done => handled'[k] = handled[k]
  <2>1. \A k \in done : handled[k] = 0
    BY <1>1, <1>2 DEF ChunkInv
  <2>2. handled' = [k \in Keys |-> IF k \in done THEN handled[k] + 1 ELSE handled[k]]
    BY <1>2 DEF Handle
  <2>3. handled \in [Keys -> Nat]
    BY <1>1 DEF TypeOK
  <2> QED
    BY <2>1, <2>2, <2>3
<1>7. TypeOK'
  BY <1>1, <1>3, <1>4, <1>6 DEF TypeOK, Distinct
<1>8. HandledOnce'
  BY <1>6 DEF HandledOnce
<1>9. DOMAIN list = 1 .. Len(list) /\ Len(list) \in Nat /\ \A i \in DOMAIN list : list[i] \in Keys
  BY <1>1 DEF TypeOK
<1>10. Chunk' = Chunk /\ Chunk \in Nat /\ start \in Nat
  BY <1>1, <1>3, ChunkType DEF Chunk, TypeOK
<1>11. \A i \in DOMAIN list : list[i] \in done => start < i /\ i <= start + Chunk
  <2> SUFFICES ASSUME NEW i \in DOMAIN list, list[i] \in done
               PROVE  start < i /\ i <= start + Chunk
    OBVIOUS
  <2>1. PICK j \in DOMAIN list : start < j /\ j <= start + Chunk /\ list[j] = list[i]
    BY <1>1, <1>2 DEF ChunkInv
  <2>2. i = j
    BY <1>1, <2>1 DEF ListInv, Distinct, IsInjective
  <2> QED
    BY <2>1, <2>2
<1>12. ListInv'
  <2>1. \A i \in DOMAIN list : i <= start => handled'[list[i]] = 1
    BY <1>1, <1>6, <1>9 DEF ListInv
  <2>2. \A i \in DOMAIN list : start + Chunk < i => handled'[list[i]] = 0
    <3> SUFFICES ASSUME NEW i \in DOMAIN list, start + Chunk < i PROVE handled'[list[i]] = 0
      OBVIOUS
    <3>1. list[i] \notin done
      BY <1>9, <1>10, <1>11
    <3> QED
      BY <1>1, <1>6, <1>9, <3>1 DEF ListInv
  <2> QED
    BY <1>1, <1>3, <1>10, <2>1, <2>2 DEF ListInv
<1>13. ChunkInv(answer)'
  <2>1. Len(answer') <= Chunk
    <3>1. Len(answer') \in Nat /\ Len(remaining) \in Nat /\ Len(remaining) <= Chunk
      BY <1>1, <1>4 DEF ChunkInv, Distinct
    <3> QED
      BY <1>4, <1>10, <3>1
  <2>2. \A k \in ToSet(answer') : handled'[k] = 0
    BY <1>1, <1>4, <1>5, <1>6 DEF ChunkInv
  <2>3. \A k \in ToSet(answer') : \E i \in DOMAIN list :
          start < i /\ i <= start + Chunk /\ list[i] = k
    BY <1>1, <1>4 DEF ChunkInv
  <2>4. \A i \in DOMAIN list : start < i /\ i <= start + Chunk =>
          handled'[list[i]] = 1 \/ list[i] \in ToSet(answer')
    BY <1>1, <1>4, <1>6, <1>9 DEF ChunkInv
  <2> QED
    BY <1>3, <1>4, <1>10, <2>1, <2>2, <2>3, <2>4 DEF ChunkInv
<1>14. NilMeansAll'
  BY <1>1 DEF NilMeansAll
<1> QED
  BY <1>1, <1>3, <1>7, <1>8, <1>12, <1>13, <1>14

LEMMA ServeErrorStep == ASSUME IInv, ServeError PROVE IInv'
<1> USE DEF IInv
<1>1. /\ pc = "wait" /\ TypeOK /\ ChunkInv(remaining)
      /\ pc' = "returned" /\ result' = "error"
      /\ UNCHANGED <<op, asked, list, start, remaining, attempt, answer, leftover, rounds>>
  BY DEF ServeError, Return
<1>2. PICK done \in SUBSET ToSet(remaining) :
        Handle(remaining, IF Accepts(remaining) THEN done ELSE {})
  BY DEF ServeError
<1>3. handled' \in [Keys -> Nat] /\ HandledOnce'
  <2> DEFINE S == IF Accepts(remaining) THEN done ELSE {}
  <2>1. S \subseteq ToSet(remaining) /\ Handle(remaining, S)
    BY <1>2
  <2> HIDE DEF S
  <2>2. \A k \in S : handled[k] = 0
    BY <1>1, <2>1 DEF ChunkInv
  <2>3. handled' = [k \in Keys |-> IF k \in S THEN handled[k] + 1 ELSE handled[k]]
    BY <2>1 DEF Handle
  <2>4. handled \in [Keys -> Nat]
    BY <1>1 DEF TypeOK
  <2> QED
    BY <2>2, <2>3, <2>4 DEF HandledOnce
<1>4. TypeOK'
  BY <1>1, <1>3 DEF TypeOK
<1> QED
  BY <1>1, <1>3, <1>4 DEF NilMeansAll

LEMMA NextChunkStep == ASSUME IInv, NextChunk PROVE IInv'
<1> USE DEF IInv
<1>1. /\ pc = "answered" /\ answer = <<>> /\ TypeOK /\ ListInv /\ ChunkInv(answer)
      /\ UNCHANGED <<op, asked, answer, leftover, handled, rounds, list>>
      /\ EnterChunk(start + Chunk, Chunk)
  BY DEF NextChunk
<1>2. Chunk' = Chunk /\ Chunk \in Nat \ {0} /\ start \in Nat
  BY <1>1, ChunkType DEF Chunk, TypeOK
<1>3. ToSet(answer) = {}
  BY <1>1 DEF ToSet
<1>4. /\ start' = start + Chunk /\ attempt' = 0
      /\ \/ /\ pc' = "returned" /\ result' = "nil" /\ remaining' = remaining
            /\ \A i \in DOMAIN list' : handled'[list'[i]] = 1
         \/ /\ pc' = "wait" /\ result' = result
            /\ ListInv' /\ ChunkInv(remaining)' /\ remaining' # <<>>
  <2>1. DOMAIN list \subseteq Nat
    BY <1>1 DEF TypeOK
  <2>2. \A i \in DOMAIN list : i <= start + Chunk => handled[list[i]] = 1
    <3>1. \A i \in DOMAIN list : i <= start \/ start < i
      BY <1>2, <2>1
    <3> QED
      BY <1>1, <1>3, <3>1 DEF ListInv, ChunkInv
  <2>3. \A i \in DOMAIN list : start + Chunk < i => handled[list[i]] = 0
    BY <1>1 DEF ListInv
  <2>4. start + Chunk \in Nat /\ EnterChunk(start + Chunk, Chunk')
    BY <1>1, <1>2
  <2>5. Distinct(list')
    BY <1>1 DEF ListInv
  <2>6. \A i \in DOMAIN list' : i <= start + Chunk => handled'[list'[i]] = 1
    BY <1>1, <2>2
  <2>7. \A i \in DOMAIN list' : start + Chunk < i => handled'[list'[i]] = 0
    BY <1>1, <2>3
  <2> QED
    BY <2>4, <2>5, <2>6, <2>7, Enter
<1>5. 0 \in 0 .. MaxAttempts - 1
  BY AttemptsAssumption
<1>6. CASE /\ pc' = "returned" /\ result' = "nil" /\ remaining' = remaining
           /\ \A i \in DOMAIN list' : handled'[list'[i]] = 1
  <2>1. TypeOK'
    BY <1>1, <1>2, <1>4, <1>5, <1>6 DEF TypeOK
  <2>2. \A k \in ToSet(asked') : handled'[k] = 1
    BY <1>1, <1>6 DEF ToSet
  <2> QED
    BY <1>1, <1>6, <2>1, <2>2 DEF HandledOnce, NilMeansAll
<1>7. CASE /\ pc' = "wait" /\ result' = result
           /\ ListInv' /\ ChunkInv(remaining)' /\ remaining' # <<>>
  <2>1. remaining' \in Seq(Keys)
    BY <1>7 DEF ChunkInv, Distinct
  <2>2. TypeOK'
    BY <1>1, <1>2, <1>4, <1>5, <1>7, <2>1 DEF TypeOK
  <2> QED
    BY <1>1, <1>7, <2>2 DEF HandledOnce, NilMeansAll
<1> QED
  BY <1>4, <1>6, <1>7

LEMMA GiveUpStep == ASSUME IInv, GiveUp PROVE IInv'
<1> USE DEF IInv
<1>1. /\ pc = "answered" /\ answer # <<>> /\ TypeOK /\ ListInv /\ ChunkInv(answer)
      /\ pc' = "returned" /\ result' = "UnprocessedError" /\ leftover' = answer
      /\ UNCHANGED <<op, asked, list, start, remaining, attempt, answer, handled, rounds>>
  BY DEF GiveUp, Return
<1>2. TypeOK'
  BY <1>1 DEF TypeOK
<1>3. ListInv' /\ ChunkInv(leftover)'
  BY <1>1 DEF ListInv, ChunkInv, Chunk
<1> QED
  BY <1>1, <1>2, <1>3 DEF HandledOnce, NilMeansAll

LEMMA BackOffStep == ASSUME IInv, BackOff PROVE IInv'
<1> USE DEF IInv
<1>1. /\ pc = "answered" /\ answer # <<>> /\ ~Exhausted /\ TypeOK
      /\ ListInv /\ ChunkInv(answer) /\ pc' = "backoff"
      /\ UNCHANGED <<op, asked, list, start, remaining, attempt, answer, result,
                     leftover, handled, rounds>>
  BY DEF BackOff
<1>2. TypeOK'
  BY <1>1 DEF TypeOK
<1>3. ListInv' /\ ChunkInv(answer)' /\ ~Exhausted'
  BY <1>1 DEF ListInv, ChunkInv, Chunk, Exhausted
<1> QED
  BY <1>1, <1>2, <1>3 DEF HandledOnce, NilMeansAll

LEMMA RetryStep == ASSUME IInv, Retry PROVE IInv'
<1> USE DEF IInv
<1>1. /\ pc = "backoff" /\ answer # <<>> /\ ~Exhausted /\ TypeOK
      /\ ListInv /\ ChunkInv(answer)
      /\ pc' = "wait" /\ remaining' = answer /\ result' = result
      /\ attempt' = attempt + 1
      /\ UNCHANGED <<op, asked, list, start, answer, leftover, handled, rounds>>
  BY DEF Retry, Request
<1>2. attempt' \in 0 .. MaxAttempts - 1
  BY <1>1, AttemptsAssumption DEF TypeOK, Exhausted
<1>3. TypeOK'
  BY <1>1, <1>2 DEF TypeOK
<1>4. ListInv' /\ ChunkInv(remaining)'
  BY <1>1 DEF ListInv, ChunkInv, Chunk
<1> QED
  BY <1>1, <1>3, <1>4 DEF HandledOnce, NilMeansAll

LEMMA CancelStep == ASSUME IInv, Cancel PROVE IInv'
<1> USE DEF IInv
<1>1. /\ pc = "backoff" /\ TypeOK
      /\ pc' = "returned" /\ result' = "error"
      /\ UNCHANGED <<op, asked, list, start, remaining, attempt, answer, leftover,
                     handled, rounds>>
  BY DEF Cancel, Return
<1>2. TypeOK'
  BY <1>1 DEF TypeOK
<1> QED
  BY <1>1, <1>2 DEF HandledOnce, NilMeansAll

LEMMA UnchangedStep == ASSUME IInv, UNCHANGED vars PROVE IInv'
<1> USE DEF IInv
<1>1. UNCHANGED <<op, asked, list, start, remaining, attempt, answer, pc, result,
                  leftover, handled, rounds>>
  BY DEF vars
<1>2. TypeOK'
  BY <1>1 DEF TypeOK
<1>3. /\ ListInv' = ListInv /\ ChunkInv(answer)' = ChunkInv(answer)
      /\ ChunkInv(leftover)' = ChunkInv(leftover)
      /\ ChunkInv(remaining)' = ChunkInv(remaining)
      /\ Exhausted' = Exhausted
  BY <1>1 DEF ListInv, ChunkInv, Chunk, Exhausted
<1> QED
  BY <1>1, <1>2, <1>3 DEF HandledOnce, NilMeansAll

LEMMA NextIInv == IInv /\ [Next]_vars => IInv'
<1> SUFFICES ASSUME IInv, [Next]_vars PROVE IInv'
  OBVIOUS
<1>1. CASE FirstCall
  <2>1. pc = "idle" /\ TypeOK /\ HandledOnce /\ (\A k \in Keys : handled[k] = 0)
    BY <1>1 DEF FirstCall, IInv
  <2>2. PICK name \in {"get", "write"}, l \in Inputs : Call(name, l)
    BY <1>1 DEF FirstCall
  <2>3. l \in Seq(Keys) /\ \A k \in ToSet(l) : k \in Keys
    BY InputsAssumption DEF ToSet
  <2>4. rounds' \in 0 .. MaxRounds
    BY <1>1, <2>1 DEF FirstCall, TypeOK
  <2> QED
    BY <2>1, <2>2, <2>3, <2>4, CallStep
<1>2. CASE CallWithLeftovers
  <2>1. /\ TypeOK /\ HandledOnce /\ op \in {"get", "write"} /\ ChunkInv(leftover)
    BY <1>2 DEF CallWithLeftovers, IInv
  <2>2. leftover \in Seq(Keys) /\ \A k \in ToSet(leftover) : handled[k] = 0
    BY <2>1 DEF ChunkInv, Distinct
  <2>3. rounds' \in 0 .. MaxRounds
    BY <1>2, <2>1, RoundsAssumption DEF CallWithLeftovers, TypeOK
  <2>4. Call(op, leftover)
    BY <1>2 DEF CallWithLeftovers
  <2> QED
    BY <2>1, <2>2, <2>3, <2>4, CallStep
<1> QED
  BY <1>1, <1>2, ServeStep, ServeErrorStep, NextChunkStep, GiveUpStep, BackOffStep,
     RetryStep, CancelStep, UnchangedStep DEF Next, Step

LEMMA AlwaysIInv == Spec => []IInv
BY InitIInv, NextIInv, PTL DEF Spec

------------------------------------------------------------------------------
(* The theorems.                                                           *)

LEMMA IInvGivesRequests == IInv => RequestsAccepted
<1> SUFFICES ASSUME IInv, pc = "wait" PROVE Accepts(remaining)
  BY DEF RequestsAccepted
<1>1. ChunkInv(remaining) /\ remaining # <<>>
  BY DEF IInv
<1>2. /\ remaining \in Seq(Keys) /\ IsInjective(remaining)
      /\ Len(remaining) <= Chunk
  BY <1>1 DEF ChunkInv, Distinct
<1>3. Len(remaining) \in 1 .. Chunk
  BY <1>1, <1>2, ChunkType, EmptySeq
<1> QED
  BY <1>2, <1>3 DEF Accepts

LEMMA IInvGivesLeftovers == IInv => LeftoversAreUndone
<1> SUFFICES ASSUME IInv, pc = "returned", result = "UnprocessedError"
             PROVE  /\ leftover # <<>>
                    /\ \A k \in ToSet(leftover) : handled[k] = 0
                    /\ \A i \in 1 .. Len(list) : i <= start + Chunk =>
                         handled[list[i]] = 1 \/ list[i] \in ToSet(leftover)
  BY DEF LeftoversAreUndone
<1>1. TypeOK /\ ListInv /\ ChunkInv(leftover) /\ leftover # <<>>
  BY DEF IInv
<1>2. \A k \in ToSet(leftover) : handled[k] = 0
  BY <1>1 DEF ChunkInv
<1>3. \A i \in 1 .. Len(list) : i <= start + Chunk =>
        handled[list[i]] = 1 \/ list[i] \in ToSet(leftover)
  <2>1. 1 .. Len(list) = DOMAIN list /\ start \in Nat /\ DOMAIN list \subseteq Nat
    BY <1>1 DEF TypeOK
  <2>2. \A i \in DOMAIN list : i <= start \/ start < i
    BY <2>1
  <2> QED
    BY <1>1, <2>1, <2>2 DEF ListInv, ChunkInv
<1> QED
  BY <1>1, <1>2, <1>3

\* The state of a call has its types.
THEOREM TypeCorrect == Spec => []TypeOK
<1>1. IInv => TypeOK
  BY DEF IInv
<1> QED
  BY <1>1, AlwaysIInv, PTL

\* Every request BatchGet and BatchWrite send is one the service accepts: no
\* key twice, between one key and its limit, whatever the list, the limits and
\* the order in which the service returns what it left (batch.go:78-163).
THEOREM EveryRequestAccepted == Spec => []RequestsAccepted
BY IInvGivesRequests, AlwaysIInv, PTL

\* No key is processed twice, however often its chunk is retried and however
\* often the caller goes on with the leftovers (batch.go:93-116, 141-161).
THEOREM NoKeyTwice == Spec => []HandledOnce
<1>1. IInv => HandledOnce
  BY DEF IInv
<1> QED
  BY <1>1, AlwaysIInv, PTL

\* A call that returns nil has had its whole list processed
\* (batch.go:90-118, 137-162).
THEOREM NilIsComplete == Spec => []NilMeansAll
<1>1. IInv => NilMeansAll
  BY DEF IInv
<1> QED
  BY <1>1, AlwaysIInv, PTL

\* The keys in an UnprocessedError are exactly what the chunks sent so far
\* have left to do (batch.go:106-108, 153-155).
THEOREM LeftoversAreExact == Spec => []LeftoversAreUndone
BY IInvGivesLeftovers, AlwaysIInv, PTL

------------------------------------------------------------------------------
(* How long a call can last.                                                *)

Working == pc \in {"wait", "answered", "backoff"}

\* A bound on the steps before the call returns: three for each attempt, and
\* as many attempts for each chunk, of one key at least.
StepsLeft ==
  IF ~Working THEN 0
  ELSE 3 * (MaxAttempts * (Len(list) - start) - attempt)
         + (IF pc = "wait" THEN 2 ELSE IF pc = "answered" THEN 1 ELSE 0)

\* Every step brings a call nearer to its return.
CallAdvances == [][Working => StepsLeft' \in 0 .. StepsLeft - 1]_vars

\* There is a chunk to work on.
StartInv == Working => start < Len(list)

LEMMA ProductGrows ==
  ASSUME NEW m \in Nat, NEW c \in Nat, NEW d \in Nat, c < d
  PROVE  m * c \in Nat /\ m * d \in Nat /\ m * c + m <= m * d
<1>1. PICK e \in Nat : d = c + 1 + e
  <2>1. d - c - 1 \in Nat /\ d = c + 1 + (d - c - 1)
    OBVIOUS
  <2> QED
    BY <2>1
<1>2. m * e \in Nat /\ m * c \in Nat
  OBVIOUS
<1>3. m * d = m * c + m + m * e
  BY <1>1
<1> QED
  BY <1>2, <1>3

LEMMA EnterStart ==
  ASSUME TypeOK', NEW s \in Nat, NEW n, EnterChunk(s, n), Working'
  PROVE  start' < Len(list') /\ pc' = "wait" /\ start' = s /\ attempt' = 0
<1>1. start' = s /\ attempt' = 0 /\ Len(list') \in Nat
  BY DEF EnterChunk, TypeOK
<1>2. ~(s >= Len(list')) /\ pc' = "wait"
  BY DEF EnterChunk, Return, Request, Working
<1> QED
  BY <1>1, <1>2

LEMMA StartStep == IInv /\ IInv' /\ StartInv /\ [Next]_vars => StartInv'
<1> SUFFICES ASSUME IInv, IInv', StartInv, [Next]_vars, Working'
             PROVE  start' < Len(list')
  BY DEF StartInv
<1>1. TypeOK /\ TypeOK' /\ start \in Nat
  BY DEF IInv, TypeOK
<1>2. ASSUME NEW name, NEW l, Call(name, l) PROVE start' < Len(list')
  <2>1. EnterChunk(0, GetChunk) \/ EnterChunk(0, WriteChunk)
    BY <1>2 DEF Call, BatchGet, BatchWrite, Return, Working
  <2> QED
    BY <1>1, <2>1, EnterStart
<1>3. CASE FirstCall \/ CallWithLeftovers
  BY <1>2, <1>3 DEF FirstCall, CallWithLeftovers
<1>4. CASE NextChunk
  <2>1. start + Chunk \in Nat /\ EnterChunk(start + Chunk, Chunk)
    BY <1>1, <1>4, ChunkType DEF NextChunk
  <2> QED
    BY <1>1, <2>1, EnterStart
<1>5. CASE ServeError \/ GiveUp \/ Cancel
  BY <1>5 DEF ServeError, GiveUp, Cancel, Return, Working
<1>6. CASE Serve \/ BackOff \/ Retry \/ UNCHANGED vars
  BY <1>6 DEF Serve, BackOff, Retry, Request, vars, StartInv, Working
<1> QED
  BY <1>3, <1>4, <1>5, <1>6 DEF Next, Step

LEMMA StepAdvances ==
  ASSUME IInv, IInv', StartInv, StartInv', Next, Working
  PROVE  StepsLeft' \in 0 .. StepsLeft - 1
<1> DEFINE M == MaxAttempts
           c == Len(list) - start
           r == IF pc = "wait" THEN 2 ELSE IF pc = "answered" THEN 1 ELSE 0
<1>1. TypeOK /\ TypeOK' /\ start < Len(list)
  BY DEF IInv, StartInv
<1>2. /\ start \in Nat /\ Len(list) \in Nat /\ M \in Nat /\ c \in Nat /\ 0 < c
      /\ attempt \in Nat /\ attempt < M
  BY <1>1, AttemptsAssumption DEF TypeOK
<1>3. M * c \in Nat /\ M <= M * c
  <2> HIDE DEF M, c
  <2>1. M * c \in Nat /\ M * 0 + M <= M * c
    BY <1>2, ProductGrows
  <2> QED
    BY <1>2, <2>1
<1>4. StepsLeft = 3 * (M * c - attempt) + r /\ r \in 0 .. 2
  BY DEF StepsLeft
<1> DEFINE x == M * c
<1>5. StepsLeft = 3 * (x - attempt) + r /\ x \in Nat /\ attempt < x
  <2>1. x \in Nat /\ M <= x /\ StepsLeft = 3 * (x - attempt) + r
    BY <1>3, <1>4
  <2> HIDE DEF x, M
  <2> QED
    BY <1>2, <2>1
<1> HIDE DEF x, r
<1>6. StepsLeft >= 3 /\ StepsLeft \in Nat
  BY <1>2, <1>4, <1>5
<1>7. CASE ~Working'
  <2>1. StepsLeft' = 0
    BY <1>7 DEF StepsLeft
  <2> QED
    BY <1>6, <2>1
<1>8. CASE NextChunk /\ Working'
  <2> DEFINE c2 == Len(list) - (start + Chunk)
             y == M * c2
  <2>1. start + Chunk \in Nat /\ EnterChunk(start + Chunk, Chunk) /\ list' = list /\ pc = "answered"
    BY <1>2, <1>8, ChunkType DEF NextChunk
  <2>2. start' < Len(list') /\ pc' = "wait" /\ start' = start + Chunk /\ attempt' = 0
    BY <1>1, <1>8, <2>1, EnterStart
  <2>3. StepsLeft' = 3 * (M * c2 - 0) + 2
    BY <1>8, <2>1, <2>2 DEF StepsLeft
  <2>4. c2 \in Nat /\ c2 < c
    BY <1>2, <2>1, <2>2, ChunkType
  <2>5. y \in Nat /\ y + M <= x
    <3> HIDE DEF c2, c, M
    <3> QED
      BY <1>2, <2>4, ProductGrows DEF x
  <2>6. r = 1
    BY <2>1 DEF r
  <2>7. StepsLeft' = 3 * (y - 0) + 2
    BY <2>3
  <2> HIDE DEF y, c2, M
  <2> QED
    BY <1>2, <1>5, <2>5, <2>6, <2>7
<1>9. CASE Retry
  <2>1. /\ pc = "backoff" /\ pc' = "wait" /\ attempt' = attempt + 1
        /\ list' = list /\ start' = start
    BY <1>9 DEF Retry, Request
  <2>2. StepsLeft' = 3 * (M * c - (attempt + 1)) + 2
    BY <2>1 DEF StepsLeft, Working
  <2>3. StepsLeft' = 3 * (x - (attempt + 1)) + 2 /\ r = 0
    BY <2>1, <2>2 DEF x, r
  <2> HIDE DEF M, c
  <2> QED
    BY <1>2, <1>5, <2>3
<1>10. CASE Serve \/ BackOff
  <2>1. /\ list' = list /\ start' = start /\ attempt' = attempt
        /\ \/ pc = "wait" /\ pc' = "answered"
           \/ pc = "answered" /\ pc' = "backoff"
    BY <1>10 DEF Serve, BackOff
  <2> DEFINE r2 == IF pc' = "answered" THEN 1 ELSE 0
  <2>2. StepsLeft' = 3 * (M * c - attempt) + r2
    BY <2>1 DEF StepsLeft, Working
  <2>3. StepsLeft' = 3 * (x - attempt) + r2
    BY <2>2 DEF x
  <2>4. r2 \in Nat /\ r2 + 1 = r
    BY <2>1 DEF r
  <2> HIDE DEF M, c, r2
  <2> QED
    BY <1>2, <1>4, <1>5, <2>3, <2>4
<1>11. CASE ServeError \/ GiveUp \/ Cancel
  <2>1. ~Working'
    BY <1>11 DEF ServeError, GiveUp, Cancel, Return, Working
  <2> QED
    BY <1>7, <2>1
<1>12. ~FirstCall /\ ~CallWithLeftovers
  BY DEF FirstCall, CallWithLeftovers, Working
<1> QED
  BY <1>7, <1>8, <1>9, <1>10, <1>11, <1>12 DEF Next, Step

\* A call of BatchGet or BatchWrite makes at most three times MaxAttempts steps
\* for each key of its list, whatever the service answers: no retry, no chunk
\* and no pause without one of the bounds coming nearer (batch.go:90-118,
\* 136-162).
THEOREM CallsAdvance == Spec => CallAdvances
<1>1. Init => StartInv
  BY DEF Init, StartInv, Working
<1>2. IInv /\ IInv' /\ StartInv /\ [Next]_vars => StartInv'
  BY StartStep
<1>3. IInv /\ IInv' /\ StartInv /\ StartInv' /\ [Next]_vars
        => [Working => StepsLeft' \in 0 .. StepsLeft - 1]_vars
  BY StepAdvances
<1> QED
  BY <1>1, <1>2, <1>3, AlwaysIInv, PTL DEF Spec, CallAdvances
==============================================================================
