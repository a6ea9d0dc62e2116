----------------------------- MODULE PagingProofs -----------------------------
(***************************************************************************)
(* Proofs about QueryPaging, for any items, sort keys, limits and writes   *)
(* of other clients: what a query hands out is ordered, is only what was   *)
(* asked for, and with what the cursor has still to come it is every item  *)
(* that stays put.                                                         *)
(***************************************************************************)
EXTENDS QueryPaging, FiniteSetTheorems, FunctionTheorems, SequenceTheorems, TLAPS

\* Where an item that stays put is found.
At(i) == [key |-> place[i], item |-> i]

\* An entry the caller may be handed: where its item is, and as asked for.
Sound(e) ==
  /\ place[e.item] # Busy => e.key = place[e.item]
  /\ api # "Collect" => e.item \in Own /\ e.key \in asked

\* The keys of the scope a condition selects.
Exact(c, keys) ==
  \A k \in First .. Last : k \in keys <=> (c.kind # "empty" /\ Selects(c, k))

\* The condition sent selects exactly the keys asked for.
CondInv ==
  /\ ~q.err => Exact(q.cond, asked)
  /\ ~q.err /\ ~q.refined =>
       /\ First .. Last \subseteq asked
       /\ q.cond = IF q.scoped THEN SKBegins ELSE SKNone
  /\ api = "Collect" => Fresh
  /\ pc \in {"request", "yield", "done"} => ~q.err
  /\ pc = "yield" => api # "Page"
  /\ pc = "build" => api = "All" /\ got = <<>> /\ page = {}

\* Between two requests: what was handed out is not beyond the cursor.
Waiting == pc = "request" \/ (pc = "failed" /\ api = "Page" /\ ~q.err)

CursorInv ==
  Waiting =>
    /\ cursor = None => got = <<>>
    /\ cursor # None => \A n \in DOMAIN got : got[n] = cursor \/ Precedes(got[n], cursor)

\* Within a page: it lies between what was handed out and the next cursor.
PageInv ==
  /\ \A e \in page : Sound(e)
  /\ pc = "yield" => \A n \in DOMAIN got, e \in page : Precedes(got[n], e)
  /\ pc = "yield" /\ next # None =>
       /\ \A e \in page : e = next \/ Precedes(e, next)
       /\ \A n \in DOMAIN got : got[n] = next \/ Precedes(got[n], next)

GotInv == InOrder /\ \A n \in DOMAIN got : Sound(got[n])

\* An item that stays put is handed out, in the page, or still ahead.
HandedOut(i) == \E n \in DOMAIN got : got[n] = At(i)
Ahead(i) ==
  \/ Waiting /\ (cursor = None \/ Precedes(cursor, At(i)))
  \/ pc = "yield" /\ (At(i) \in page \/ (next # None /\ Precedes(next, At(i))))

FoundInv ==
  Waiting \/ pc \in {"yield", "done"} =>
    \A i \in Items : Asked(i) => HandedOut(i) \/ Ahead(i)

\* The inductive invariant.
IInv == TypeOK /\ CondInv /\ CursorInv /\ PageInv /\ GotInv /\ FoundInv

------------------------------------------------------------------------------
(* The order of entries.                                                   *)

LEMMA EntryType ==
  ASSUME NEW e \in Entry
  PROVE  /\ e.key \in Nat /\ e.item \in Items /\ e.item \in Nat
         /\ e.key \in Places[e.item] /\ e # None
         /\ e = [key |-> e.key, item |-> e.item]
<1>1. e.item \in Items /\ e.key \in Places[e.item]
      /\ e = [key |-> e.key, item |-> e.item]
  BY DEF Entry
<1>2. e.key \in Nat /\ e.key # 0
  BY <1>1, PlacesAssumption
<1>3. e # None
  BY <1>2 DEF None, Absent
<1> QED
  BY <1>1, <1>2, <1>3, ItemsAssumption

LEMMA SameEntry ==
  ASSUME NEW a \in Entry, NEW b \in Entry, a.key = b.key, a.item = b.item
  PROVE  a = b
BY EntryType

LEMMA Irreflexive == ASSUME NEW a \in Entry PROVE ~Precedes(a, a)
BY EntryType DEF Precedes, Less

LEMMA Asymmetric ==
  ASSUME NEW a \in Entry, NEW b \in Entry, Precedes(a, b)
  PROVE  ~Precedes(b, a)
BY EntryType DEF Precedes, Less

LEMMA Transitive ==
  ASSUME NEW a \in Entry, NEW b \in Entry, NEW c \in Entry,
         Precedes(a, b), Precedes(b, c)
  PROVE  Precedes(a, c)
<1>1. /\ a.key \in Nat /\ b.key \in Nat /\ c.key \in Nat
      /\ a.item \in Nat /\ b.item \in Nat /\ c.item \in Nat
  BY EntryType
<1> QED
  BY <1>1 DEF Precedes, Less

LEMMA Total ==
  ASSUME NEW a \in Entry, NEW b \in Entry
  PROVE  a = b \/ Precedes(a, b) \/ Precedes(b, a)
<1>1. /\ a.key \in Nat /\ b.key \in Nat /\ a.item \in Nat /\ b.item \in Nat
  BY EntryType
<1>2. a.key = b.key /\ a.item = b.item => a = b
  BY SameEntry
<1> QED
  BY <1>1, <1>2 DEF Precedes, Less

\* The items of a page put in their order are those items, in order.
LEMMA InSequenceIs ==
  ASSUME NEW S \in SUBSET Entry, IsFiniteSet(S)
  PROVE  /\ InSequence(S) \in Seq(Entry)
         /\ \A m, n \in DOMAIN InSequence(S) :
              m < n => Precedes(InSequence(S)[m], InSequence(S)[n])
         /\ \A n \in DOMAIN InSequence(S) : InSequence(S)[n] \in S
         /\ \A e \in S : \E n \in DOMAIN InSequence(S) : InSequence(S)[n] = e
<1> DEFINE N == Cardinality(S)
           below(e) == {f \in S : Precedes(f, e)}
           r == [e \in S |-> Cardinality(below(e)) + 1]
<1>1. N \in Nat
  BY FS_CardinalityType
<1>2. ASSUME NEW e \in S
      PROVE  IsFiniteSet(below(e)) /\ r[e] \in 1 .. N
  <2>1. below(e) \in SUBSET S /\ below(e) # S
    BY <1>2, Irreflexive
  <2>2. r[e] = Cardinality(below(e)) + 1
    BY <1>2
  <2> HIDE DEF below, r
  <2>3. IsFiniteSet(below(e)) /\ Cardinality(below(e)) <= N /\ Cardinality(below(e)) # N
    BY <2>1, FS_Subset
  <2>4. Cardinality(below(e)) \in Nat
    BY <2>3, FS_CardinalityType
  <2> HIDE DEF N
  <2> QED
    BY <1>1, <2>2, <2>3, <2>4
<1>3. ASSUME NEW e \in S, NEW f \in S, Precedes(e, f)
      PROVE  r[e] < r[f]
  <2>1. below(e) \in SUBSET below(f) /\ below(e) # below(f)
    <3>1. \A g \in S : Precedes(g, e) => Precedes(g, f)
      BY <1>3, Transitive
    <3>2. e \in below(f) /\ e \notin below(e)
      BY <1>3, Irreflexive
    <3> QED
      BY <3>1, <3>2
  <2>2. r[e] = Cardinality(below(e)) + 1 /\ r[f] = Cardinality(below(f)) + 1
    OBVIOUS
  <2>3. IsFiniteSet(below(e)) /\ IsFiniteSet(below(f))
    BY <1>2
  <2> HIDE DEF below, r
  <2>4. Cardinality(below(e)) <= Cardinality(below(f))
        /\ Cardinality(below(e)) # Cardinality(below(f))
    BY <2>1, <2>3, FS_Subset
  <2>5. Cardinality(below(e)) \in Nat /\ Cardinality(below(f)) \in Nat
    BY <2>3, FS_CardinalityType
  <2> QED
    BY <2>2, <2>4, <2>5
<1>4. r \in [S -> 1 .. N]
  BY <1>2
<1> HIDE DEF r
<1>5. r \in Injection(S, 1 .. N)
  <2>1. \A e, f \in S : r[e] = r[f] => e = f
    <3> SUFFICES ASSUME NEW e \in S, NEW f \in S, r[e] = r[f] PROVE e = f
      OBVIOUS
    <3>1. r[e] \in Int /\ r[f] \in Int
      BY <1>1, <1>4
    <3>2. ~Precedes(e, f) /\ ~Precedes(f, e)
      BY <1>3, <3>1
    <3> QED
      BY <3>2, Total
  <2> QED
    BY <1>4, <2>1, Fun_IsInj
<1>6. IsFiniteSet(1 .. N) /\ Cardinality(1 .. N) = N
  BY <1>1, FS_Interval
<1>7. r \in Surjection(S, 1 .. N)
  BY <1>5, <1>6, FS_Injection
<1>8. \A n \in 1 .. N : \E e \in S : r[e] = n
  <2> HIDE DEF N
  <2> QED
    BY <1>7 DEF Surjection
<1> DEFINE s == [n \in 1 .. N |-> CHOOSE e \in S : r[e] = n]
           sorted(t) == \A m, n \in DOMAIN t : m < n => Precedes(t[m], t[n])
<1>9. s \in [1 .. N -> S] /\ \A n \in 1 .. N : r[s[n]] = n
  <2> HIDE DEF N
  <2> QED
    BY <1>8
<1>10. sorted(s)
  <2> SUFFICES ASSUME NEW m \in 1 .. N, NEW n \in 1 .. N, m < n
               PROVE  Precedes(s[m], s[n])
    BY <1>9
  <2> HIDE DEF s
  <2>1. s[m] \in S /\ s[n] \in S /\ r[s[m]] = m /\ r[s[n]] = n
    BY <1>9
  <2>2. s[m] # s[n]
    BY <2>1
  <2>3. ~Precedes(s[n], s[m])
    <3>1. Precedes(s[n], s[m]) => n < m
      BY <1>3, <2>1
    <3>2. ~(n < m)
      BY <1>1
    <3> QED
      BY <3>1, <3>2
  <2> QED
    BY <2>1, <2>2, <2>3, Total
<1> DEFINE t == InSequence(S)
<1>11. t \in [1 .. N -> S] /\ sorted(t)
  <2>1. \E u \in [1 .. N -> S] : sorted(u)
    <3> HIDE DEF s, sorted
    <3> QED
      BY <1>9, <1>10
  <2>2. t = CHOOSE u \in [1 .. N -> S] : sorted(u)
    BY DEF InSequence
  <2> HIDE DEF sorted, t, N
  <2> QED
    BY <2>1, <2>2
<1> HIDE DEF t, s
<1>12. t \in Seq(Entry) /\ DOMAIN t = 1 .. N
  BY <1>1, <1>11
<1>13. t \in Injection(1 .. N, S)
  <2>1. \A m, n \in 1 .. N : t[m] = t[n] => m = n
    <3> SUFFICES ASSUME NEW m \in 1 .. N, NEW n \in 1 .. N, t[m] = t[n] PROVE m = n
      OBVIOUS
    <3>1. ~(m < n) /\ ~(n < m)
      BY <1>11, <1>12, Irreflexive
    <3> QED
      BY <1>1, <3>1
  <2> QED
    BY <1>11, <2>1, Fun_IsInj
<1>14. t \in Surjection(1 .. N, S)
  BY <1>6, <1>13, FS_Injection
<1>15. \A e \in S : \E n \in DOMAIN t : t[n] = e
  BY <1>12, <1>14 DEF Surjection
<1> QED
  BY <1>11, <1>12, <1>15 DEF t

------------------------------------------------------------------------------
(* Conditions.                                                             *)

LEMMA ScopeType == /\ First \in Nat /\ First >= 1 /\ Last \in Nat /\ First <= Last
                   /\ \A k \in First .. Last : k \in Nat /\ k \in AllKeys
BY ScopeAssumption DEF AllKeys

LEMMA CondType ==
  ASSUME NEW kind \in {"empty", "none", "begins", "gt", "lt", "between"},
         NEW lo \in Nat, NEW hi \in Nat, kind = "between" => lo <= hi
  PROVE  /\ Cond(kind, lo, hi) \in Conds
         /\ Cond(kind, lo, hi).kind = kind
         /\ Cond(kind, lo, hi).lo = lo
         /\ Cond(kind, lo, hi).hi = hi
BY DEF Cond, Conds

LEMMA PlainConds ==
  /\ SKEmpty \in Conds /\ SKEmpty.kind = "empty"
  /\ SKNone \in Conds /\ SKNone.kind = "none" /\ Exact(SKNone, AllKeys)
  /\ SKBegins \in Conds /\ SKBegins.kind = "begins" /\ Exact(SKBegins, First .. Last)
<1>1. /\ SKEmpty \in Conds /\ SKEmpty.kind = "empty"
      /\ SKNone \in Conds /\ SKNone.kind = "none"
      /\ SKBegins \in Conds /\ SKBegins.kind = "begins"
  BY CondType DEF SKEmpty, SKNone, SKBegins
<1> QED
  BY <1>1, ScopeType DEF Exact, Selects

LEMMA AfterExact ==
  ASSUME NEW scoped \in BOOLEAN, NEW v \in First .. Last
  PROVE  SKAfter(scoped, v) \in Conds /\ Exact(SKAfter(scoped, v), {k \in AllKeys : k > v})
<1>1. v \in Nat /\ 3 * v + 2 \in Nat /\ 3 * (Last + 1) \in Nat
      /\ 3 * v + 2 <= 3 * (Last + 1)
  BY ScopeType
<1>2. CASE ~scoped
  <2> DEFINE c == Cond("gt", 3 * v + 2, 0)
  <2>1. c \in Conds /\ c.kind = "gt" /\ c.lo = 3 * v + 2
    BY <1>1, CondType
  <2>2. SKAfter(scoped, v) = c
    BY <1>2 DEF SKAfter, Suffixed
  <2> HIDE DEF c
  <2>3. \A k \in First .. Last : k > v <=> Selects(c, k)
    BY <1>1, <2>1, ScopeType DEF Selects, KeyOf
  <2> QED
    BY <2>1, <2>2, <2>3, ScopeType DEF Exact
<1>3. CASE scoped
  <2> DEFINE c == Cond("between", 3 * v + 2, 3 * (Last + 1))
  <2>1. c \in Conds /\ c.kind = "between" /\ c.lo = 3 * v + 2 /\ c.hi = 3 * (Last + 1)
    BY <1>1, CondType
  <2>2. SKAfter(scoped, v) = c
    BY <1>1, <1>3 DEF SKAfter, Suffixed, PrefixSuffixed, Encoded
  <2> HIDE DEF c
  <2>3. \A k \in First .. Last : k > v <=> Selects(c, k)
    BY <1>1, <2>1, ScopeType DEF Selects, KeyOf
  <2> QED
    BY <2>1, <2>2, <2>3, ScopeType DEF Exact
<1> QED
  BY <1>2, <1>3

LEMMA BeforeExact ==
  ASSUME NEW scoped \in BOOLEAN, NEW v \in First .. Last
  PROVE  SKBefore(scoped, v) \in Conds /\ Exact(SKBefore(scoped, v), {k \in AllKeys : k < v})
<1>1. v \in Nat /\ 3 * v \in Nat /\ 3 * First - 1 \in Nat
  BY ScopeType
<1>2. CASE ~scoped
  <2> DEFINE c == Cond("lt", 3 * v, 0)
  <2>1. c \in Conds /\ c.kind = "lt" /\ c.lo = 3 * v
    BY <1>1, CondType
  <2>2. SKBefore(scoped, v) = c
    BY <1>2 DEF SKBefore, Encoded
  <2> HIDE DEF c
  <2>3. \A k \in First .. Last : k < v <=> Selects(c, k)
    BY <1>1, <2>1, ScopeType DEF Selects, KeyOf
  <2> QED
    BY <2>1, <2>2, <2>3, ScopeType DEF Exact
<1>3. CASE scoped /\ v = First
  <2>1. SKBefore(scoped, v) = SKEmpty
    BY <1>3 DEF SKBefore
  <2>2. \A k \in First .. Last : ~(k < v)
    BY <1>3, ScopeType
  <2> QED
    BY <2>1, <2>2, PlainConds DEF Exact
<1>4. CASE scoped /\ v # First
  <2> DEFINE c == Cond("between", 3 * First - 1, 3 * (v - 1) + 2)
  <2>0. 3 * (v - 1) + 2 \in Nat /\ 3 * First - 1 <= 3 * (v - 1) + 2
    BY <1>1, <1>4, ScopeType
  <2>1. c \in Conds /\ c.kind = "between" /\ c.lo = 3 * First - 1 /\ c.hi = 3 * (v - 1) + 2
    BY <1>1, <2>0, CondType
  <2>2. SKBefore(scoped, v) = c
    BY <1>4 DEF SKBefore, Suffixed, Prefix, Encoded
  <2> HIDE DEF c
  <2>3. \A k \in First .. Last : k < v <=> Selects(c, k)
    BY <1>1, <2>1, ScopeType DEF Selects, KeyOf
  <2> QED
    BY <2>1, <2>2, <2>3, ScopeType DEF Exact
<1> QED
  BY <1>2, <1>3, <1>4

LEMMA BetweenExact ==
  ASSUME NEW lo \in First .. Last, NEW hi \in First .. Last
  PROVE  SKBetween(lo, hi) \in Conds /\ Exact(SKBetween(lo, hi), lo .. hi)
<1>1. lo \in Nat /\ hi \in Nat /\ 3 * lo \in Nat /\ 3 * hi + 2 \in Nat
  BY ScopeType
<1>2. CASE lo > hi
  <2>1. SKBetween(lo, hi) = SKEmpty
    BY <1>2 DEF SKBetween
  <2>2. lo .. hi = {}
    BY <1>1, <1>2
  <2> QED
    BY <2>1, <2>2, PlainConds DEF Exact
<1>3. CASE lo <= hi
  <2> DEFINE c == Cond("between", 3 * lo, 3 * hi + 2)
  <2>0. 3 * lo <= 3 * hi + 2
    BY <1>1, <1>3
  <2>1. c \in Conds /\ c.kind = "between" /\ c.lo = 3 * lo /\ c.hi = 3 * hi + 2
    BY <1>1, <2>0, CondType
  <2>2. SKBetween(lo, hi) = c
    BY <1>1, <1>3 DEF SKBetween, Suffixed, Encoded
  <2> HIDE DEF c
  <2>3. \A k \in First .. Last : k \in lo .. hi <=> Selects(c, k)
    BY <1>1, <2>1, ScopeType DEF Selects, KeyOf
  <2> QED
    BY <2>1, <2>2, <2>3 DEF Exact
<1> QED
  BY <1>1, <1>2, <1>3

------------------------------------------------------------------------------
(* Building.                                                               *)

LEMMA InitIInv == Init => IInv
<1> SUFFICES ASSUME Init PROVE IInv
  OBVIOUS
<1>1. PICK scoped \in BOOLEAN, err \in BOOLEAN :
        /\ q = [scoped |-> scoped, cond |-> IF scoped THEN SKBegins ELSE SKNone,
                refined |-> FALSE, desc |-> FALSE, limit |-> 0, err |-> err]
        /\ asked = IF err THEN {} ELSE IF scoped THEN First .. Last ELSE AllKeys
  BY DEF Init
<1>2. /\ q.cond \in Conds /\ q.err = err /\ q.refined = FALSE /\ q.scoped = scoped
      /\ q \in [scoped : BOOLEAN, cond : Conds, refined : BOOLEAN, desc : BOOLEAN,
                limit : Limits, err : BOOLEAN]
  BY <1>1, PlainConds, LimitsAssumption
<1>3. First .. Last \subseteq AllKeys
  BY ScopeType
<1>4. /\ pc = "build" /\ api = "All" /\ page = {} /\ cursor = None /\ next = None
      /\ got = <<>> /\ (\A i \in Items : place[i] \in Places[i] \cup {Absent, Busy})
  BY DEF Init
<1>5. TypeOK
  BY <1>1, <1>2, <1>3, <1>4 DEF TypeOK
<1>6. CondInv
  <2>1. q.cond = IF scoped THEN SKBegins ELSE SKNone
    BY <1>1
  <2>2. ~q.err => asked = IF scoped THEN First .. Last ELSE AllKeys
    BY <1>1, <1>2
  <2>3. ~q.err => Exact(q.cond, asked)
    BY <2>1, <2>2, PlainConds
  <2>4. ~q.err => First .. Last \subseteq asked
    BY <1>3, <2>2
  <2> QED
    BY <1>2, <1>4, <2>1, <2>3, <2>4 DEF CondInv
<1> QED
  BY <1>4, <1>5, <1>6
     DEF IInv, CursorInv, Waiting, PageInv, GotInv, InOrder, FoundInv

\* While a query is built nothing has been read.
LEMMA BuildStep ==
  ASSUME IInv, Building,
         q' \in [scoped : BOOLEAN, cond : Conds, refined : BOOLEAN, desc : BOOLEAN,
                 limit : Limits, err : BOOLEAN],
         asked' \subseteq AllKeys,
         ~q'.err => Exact(q'.cond, asked'),
         ~q'.err /\ ~q'.refined =>
           /\ First .. Last \subseteq asked'
           /\ q'.cond = IF q'.scoped THEN SKBegins ELSE SKNone
  PROVE  IInv'
<1>1. /\ pc = "build" /\ api = "All" /\ got = <<>> /\ page = {} /\ TypeOK
      /\ UNCHANGED <<place, pc, api, page, cursor, next, got>>
  BY DEF Building, IInv, CondInv
<1>2. TypeOK'
  BY <1>1 DEF TypeOK
<1>3. CondInv'
  BY <1>1 DEF CondInv, Exact
<1> QED
  BY <1>1, <1>2, <1>3
     DEF IInv, CursorInv, Waiting, PageInv, GotInv, InOrder, FoundInv

LEMMA RefineStep ==
  ASSUME IInv, Building, NEW encodes \in BOOLEAN, NEW c \in Conds, NEW keys,
         BeginRefine(encodes, c), Narrow(keys), encodes => Exact(c, keys)
  PROVE  IInv'
<1> DEFINE Query == [scoped : BOOLEAN, cond : Conds, refined : BOOLEAN, desc : BOOLEAN,
                     limit : Limits, err : BOOLEAN]
<1>1. q \in Query /\ asked \subseteq AllKeys /\ CondInv
  BY DEF IInv, TypeOK
<1>2. asked' = IF q'.err THEN {} ELSE asked \cap keys
  BY DEF Narrow
<1>3. asked' \subseteq AllKeys
  BY <1>1, <1>2
<1>4. CASE q.err
  <2>1. q' = q
    BY <1>4 DEF BeginRefine
  <2> QED
    BY <1>1, <1>3, <1>4, <2>1, BuildStep
<1>5. CASE ~q.err /\ (q.refined \/ ~encodes)
  <2>1. q' \in Query /\ q'.err
    BY <1>1, <1>5 DEF BeginRefine
  <2> QED
    BY <1>3, <2>1, BuildStep
<1>6. CASE ~q.err /\ ~q.refined /\ encodes
  <2>1. q' = [q EXCEPT !.refined = TRUE, !.cond = c]
    BY <1>6 DEF BeginRefine
  <2>2. q' \in Query /\ q'.refined /\ q'.cond = c /\ q'.err = q.err
    BY <1>1, <2>1
  <2>3. asked' = asked \cap keys
    BY <1>2, <1>6, <2>2
  <2>4. Exact(c, asked')
    <3>1. First .. Last \subseteq asked
      BY <1>1, <1>6 DEF CondInv
    <3> QED
      BY <1>6, <2>3, <3>1 DEF Exact
  <2> QED
    BY <1>3, <2>2, <2>4, BuildStep
<1> QED
  BY <1>1, <1>4, <1>5, <1>6

LEMMA AfterStep == ASSUME IInv, NEW v \in First .. Last, After(v) PROVE IInv'
<1>1. q.scoped \in BOOLEAN
  BY DEF IInv, TypeOK
<1> QED
  BY <1>1, AfterExact, RefineStep DEF After

LEMMA BeforeStep == ASSUME IInv, NEW v \in First .. Last, Before(v) PROVE IInv'
<1>1. q.scoped \in BOOLEAN
  BY DEF IInv, TypeOK
<1> QED
  BY <1>1, BeforeExact, RefineStep DEF Before

LEMMA BetweenStep ==
  ASSUME IInv, NEW lo \in First .. Last, NEW hi \in First .. Last, Between(lo, hi)
  PROVE  IInv'
BY BetweenExact, RefineStep DEF Between

LEMMA UnencodableStep == ASSUME IInv, RefineUnencodable PROVE IInv'
<1>1. Building /\ BeginRefine(FALSE, SKEmpty) /\ Narrow({})
  BY DEF RefineUnencodable
<1>2. SKEmpty \in Conds
  BY PlainConds
<1> QED
  BY <1>1, <1>2, RefineStep

LEMMA DescStep == ASSUME IInv, Desc PROVE IInv'
<1>1. /\ Building /\ q' = [q EXCEPT !.desc = TRUE] /\ asked' = asked
      /\ TypeOK /\ CondInv
  BY DEF Desc, IInv
<1>2. /\ q' \in [scoped : BOOLEAN, cond : Conds, refined : BOOLEAN, desc : BOOLEAN,
                 limit : Limits, err : BOOLEAN]
      /\ q'.cond = q.cond /\ q'.err = q.err /\ q'.refined = q.refined
      /\ q'.scoped = q.scoped /\ asked \subseteq AllKeys
  BY <1>1 DEF TypeOK
<1> QED
  BY <1>1, <1>2, BuildStep DEF CondInv

LEMMA LimitStep == ASSUME IInv, NEW n \in Limits, Limit(n) PROVE IInv'
<1>1. /\ Building /\ q' = [q EXCEPT !.limit = n] /\ asked' = asked
      /\ TypeOK /\ CondInv
  BY DEF Limit, IInv
<1>2. /\ q' \in [scoped : BOOLEAN, cond : Conds, refined : BOOLEAN, desc : BOOLEAN,
                 limit : Limits, err : BOOLEAN]
      /\ q'.cond = q.cond /\ q'.err = q.err /\ q'.refined = q.refined
      /\ q'.scoped = q.scoped /\ asked \subseteq AllKeys
  BY <1>1 DEF TypeOK
<1> QED
  BY <1>1, <1>2, BuildStep DEF CondInv

LEMMA RunStep ==
  ASSUME IInv, NEW method \in {"All", "Page", "Collect"}, Run(method)
  PROVE  IInv'
<1>1. /\ pc \in Resting /\ TypeOK /\ CondInv
      /\ method = "Collect" => Fresh
      /\ api' = method /\ pc' = IF q.err THEN "failed" ELSE "request"
      /\ page' = {} /\ cursor' = None /\ next' = None /\ got' = <<>>
      /\ UNCHANGED <<place, q, asked>>
  BY DEF Run, IInv
<1>2. TypeOK'
  BY <1>1 DEF TypeOK
<1>3. CondInv'
  BY <1>1 DEF CondInv, Exact, Fresh
<1>4. FoundInv'
  BY <1>1 DEF FoundInv, Waiting, Ahead
<1> QED
  BY <1>1, <1>2, <1>3, <1>4
     DEF IInv, CursorInv, Waiting, PageInv, GotInv, InOrder

------------------------------------------------------------------------------
(* Reading.                                                                *)

\* The entry of an item that stays put and was asked for.
LEMMA AskedEntry ==
  ASSUME TypeOK, NEW i \in Items, Asked(i)
  PROVE  /\ At(i) \in Entry /\ At(i).item = i /\ At(i).key = place[i]
         /\ Passes(At(i))
<1>1. place[i] \in Places[i]
  BY DEF TypeOK, Asked
<1>2. At(i) \in Entry /\ At(i).item = i /\ At(i).key = place[i]
  BY <1>1 DEF At, Entry
<1> QED
  BY <1>2 DEF Asked, Passes

\* A query asks for something only through a condition that selects it.
LEMMA AskedSelected ==
  ASSUME TypeOK, CondInv, pc = "request", NEW i \in Items, Asked(i)
  PROVE  q.cond.kind # "empty" /\ Selects(q.cond, place[i])
<1>1. ~q.err
  BY DEF CondInv
<1>2. CASE api = "Collect"
  <2>1. q.cond = SKNone
    BY <1>1, <1>2 DEF CondInv, Fresh
  <2> QED
    BY <2>1, PlainConds DEF Selects
<1>3. CASE api # "Collect"
  <2>1. i \in Own /\ place[i] \in asked /\ place[i] \in Places[i]
    BY <1>3 DEF Asked, TypeOK
  <2>2. place[i] \in First .. Last
    BY <2>1, OwnAssumption
  <2> QED
    BY <1>1, <2>1, <2>2 DEF CondInv, Exact
<1> QED
  BY <1>2, <1>3

\* One page: finite, sound, beyond the cursor and within the next one, and
\* whatever was asked for beyond the cursor is in it or beyond the next one.
LEMMA PageRawGives ==
  ASSUME IInv, pc = "request", PageRaw
  PROVE  /\ page' \in SUBSET Entry /\ IsFiniteSet(page')
         /\ next' \in Entry \cup {None}
         /\ \A e \in page' : Sound(e) /\ (cursor # None => Precedes(cursor, e))
         /\ next' # None =>
              /\ \A e \in page' : e = next' \/ Precedes(e, next')
              /\ cursor # None => Precedes(cursor, next')
         /\ \A i \in Items :
              Asked(i) /\ (cursor = None \/ Precedes(cursor, At(i))) =>
                At(i) \in page' \/ (next' # None /\ Precedes(next', At(i)))
<1>1. TypeOK /\ CondInv /\ ~q.err
  BY DEF IInv, CondInv
<1>2. CASE q.cond.kind = "empty"
  <2>1. page' = {} /\ next' = None
    BY <1>2 DEF PageRaw
  <2>2. \A i \in Items : ~Asked(i)
    BY <1>1, <1>2, AskedSelected
  <2> QED
    BY <2>1, <2>2, FS_EmptySet
<1>3. CASE q.cond.kind # "empty"
  <2>1. PICK view \in View : Answered(Hits(view))
    BY <1>3 DEF PageRaw
  <2> DEFINE hits == Hits(view)
  <2>2. /\ \A i \in Items : place[i] # Busy => view[i] = place[i]
        /\ \A i \in Items : place[i] = Busy => view[i] \in Places[i] \cup {Absent}
    BY DEF View
  <2>3. hits \in SUBSET Entry
    BY DEF Hits
  <2>4. IsFiniteSet(hits)
    <3> DEFINE f == [e \in hits |-> e.item]
    <3>1. f \in [hits -> Items]
      BY <2>3, EntryType
    <3>2. \A a, b \in hits : f[a] = f[b] => a = b
      <4> SUFFICES ASSUME NEW a \in hits, NEW b \in hits, a.item = b.item PROVE a = b
        OBVIOUS
      <4>1. a.key = view[a.item] /\ b.key = view[b.item]
        BY DEF Hits
      <4> QED
        BY <2>3, <4>1, SameEntry
    <3>3. f \in Injection(hits, Items)
      <4> HIDE DEF f, hits
      <4> QED
        BY <3>1, <3>2, Fun_IsInj
    <3>4. IsFiniteSet(Items)
      BY ItemsAssumption
    <3> HIDE DEF f, hits
    <3> QED
      BY <3>3, <3>4, FS_Injection
  <2>5. \A e \in hits : cursor # None => Precedes(cursor, e)
    BY DEF Hits
  <2>6. ASSUME NEW e \in hits, Passes(e) PROVE Sound(e)
    <3>1. e \in Entry /\ view[e.item] = e.key /\ Selects(q.cond, e.key)
      BY <2>6 DEF Hits
    <3>2. place[e.item] # Busy => e.key = place[e.item]
      BY <2>2, <3>1, EntryType
    <3>3. ASSUME api # "Collect" PROVE e.item \in Own /\ e.key \in asked
      <4>1. e.item \in Own
        BY <2>6, <3>3 DEF Passes
      <4>2. e.key \in First .. Last
        BY <3>1, <4>1, EntryType, OwnAssumption
      <4> QED
        BY <1>1, <1>3, <3>1, <4>1, <4>2 DEF CondInv, Exact
    <3> QED
      BY <3>2, <3>3 DEF Sound
  <2>7. ASSUME NEW i \in Items, Asked(i), cursor = None \/ Precedes(cursor, At(i))
        PROVE  At(i) \in hits
    <3>1. At(i) \in Entry /\ At(i).item = i /\ At(i).key = place[i]
      BY <1>1, <2>7, AskedEntry
    <3>2. Selects(q.cond, place[i])
      BY <1>1, <2>7, AskedSelected
    <3>3. view[i] = place[i]
      BY <2>2, <2>7 DEF Asked
    <3> QED
      BY <2>7, <3>1, <3>2, <3>3 DEF Hits
  <2> HIDE DEF hits
  <2>8. CASE hits = {} /\ page' = {} /\ next' = None
    BY <2>7, <2>8, FS_EmptySet
  <2>9. ASSUME NEW last \in hits,
               page' = {e \in {f \in hits : f = last \/ Precedes(f, last)} : Passes(e)},
               next' \in {last} \cup
                 (IF {f \in hits : f = last \/ Precedes(f, last)} = hits THEN {None} ELSE {})
        PROVE  /\ page' \in SUBSET Entry /\ IsFiniteSet(page')
               /\ next' \in Entry \cup {None}
               /\ \A e \in page' : Sound(e) /\ (cursor # None => Precedes(cursor, e))
               /\ next' # None =>
                    /\ \A e \in page' : e = next' \/ Precedes(e, next')
                    /\ cursor # None => Precedes(cursor, next')
               /\ \A i \in Items :
                    Asked(i) /\ (cursor = None \/ Precedes(cursor, At(i))) =>
                      At(i) \in page' \/ (next' # None /\ Precedes(next', At(i)))
    <3>1. page' \in SUBSET hits
      BY <2>9
    <3>2. page' \in SUBSET Entry /\ IsFiniteSet(page')
      BY <2>3, <2>4, <3>1, FS_Subset
    <3>3. next' = last \/ next' = None
      BY <2>9
    <3>4. \A e \in page' : Sound(e) /\ (cursor # None => Precedes(cursor, e))
      BY <2>5, <2>6, <2>9
    <3>5. last \in Entry /\ last # None
      BY <2>3, EntryType
    <3>6. ASSUME NEW i \in Items, Asked(i), cursor = None \/ Precedes(cursor, At(i))
          PROVE  At(i) \in page' \/ (next' # None /\ Precedes(next', At(i)))
      <4>1. At(i) \in hits /\ Passes(At(i)) /\ At(i) \in Entry
        BY <1>1, <2>7, <3>6, AskedEntry
      <4>2. CASE At(i) = last \/ Precedes(At(i), last)
        BY <2>9, <4>1, <4>2
      <4>3. CASE ~(At(i) = last \/ Precedes(At(i), last))
        <5>1. Precedes(last, At(i))
          BY <3>5, <4>1, <4>3, Total
        <5>2. {f \in hits : f = last \/ Precedes(f, last)} # hits
          BY <4>1, <4>3
        <5>3. next' = last
          BY <2>9, <5>2
        <5> QED
          BY <3>5, <5>1, <5>3
      <4> QED
        BY <4>2, <4>3
    <3> QED
      BY <2>5, <2>9, <3>2, <3>3, <3>4, <3>5, <3>6
  <2> QED
    BY <2>1, <2>8, <2>9 DEF Answered, hits
<1> QED
  BY <1>2, <1>3

LEMMA FetchPageStep == ASSUME IInv, FetchPage PROVE IInv'
<1>1. /\ pc = "request" /\ api # "Page" /\ PageRaw /\ pc' = "yield"
      /\ UNCHANGED <<place, q, asked, api, cursor, got>>
      /\ TypeOK /\ CondInv /\ CursorInv /\ GotInv /\ FoundInv
  BY DEF FetchPage, IInv
<1>2. /\ page' \in SUBSET Entry
      /\ next' \in Entry \cup {None}
      /\ \A e \in page' : Sound(e) /\ (cursor # None => Precedes(cursor, e))
      /\ next' # None =>
           /\ \A e \in page' : e = next' \/ Precedes(e, next')
           /\ cursor # None => Precedes(cursor, next')
      /\ \A i \in Items :
           Asked(i) /\ (cursor = None \/ Precedes(cursor, At(i))) =>
             At(i) \in page' \/ (next' # None /\ Precedes(next', At(i)))
  BY <1>1, PageRawGives
<1>3. TypeOK'
  BY <1>1, <1>2 DEF TypeOK
<1>4. CondInv'
  BY <1>1 DEF CondInv, Exact, Fresh
<1>5. /\ cursor \in Entry \cup {None}
      /\ \A n \in DOMAIN got : got[n] \in Entry
  BY <1>1 DEF TypeOK
<1>6. /\ cursor = None => got = <<>>
      /\ cursor # None => \A n \in DOMAIN got : got[n] = cursor \/ Precedes(got[n], cursor)
  BY <1>1 DEF CursorInv, Waiting
<1>7. ASSUME NEW e \in Entry, cursor # None => Precedes(cursor, e)
      PROVE  \A n \in DOMAIN got : Precedes(got[n], e)
  <2>1. CASE cursor = None
    BY <1>6, <2>1
  <2>2. CASE cursor # None
    BY <1>5, <1>6, <1>7, <2>2, Transitive
  <2> QED
    BY <2>1, <2>2
<1>8. PageInv'
  <2>1. \A e \in page' : Sound(e)'
    BY <1>1, <1>2 DEF Sound
  <2>2. \A n \in DOMAIN got, e \in page' : Precedes(got[n], e)
    BY <1>2, <1>7
  <2>3. next' # None => \A n \in DOMAIN got : Precedes(got[n], next')
    BY <1>2, <1>7
  <2> QED
    BY <1>1, <1>2, <2>1, <2>2, <2>3 DEF PageInv, Precedes
<1>9. GotInv'
  BY <1>1 DEF GotInv, InOrder, Precedes, Sound
<1>10. FoundInv'
  <2> SUFFICES ASSUME NEW i \in Items, Asked(i)'
               PROVE  HandedOut(i)' \/ Ahead(i)'
    BY DEF FoundInv
  <2>1. Asked(i) /\ At(i)' = At(i) /\ HandedOut(i)' = HandedOut(i)
    BY <1>1 DEF Asked, At, HandedOut
  <2>2. HandedOut(i) \/ cursor = None \/ Precedes(cursor, At(i))
    BY <1>1, <2>1 DEF FoundInv, Ahead, Waiting
  <2>3. HandedOut(i) \/ At(i) \in page' \/ (next' # None /\ Precedes(next', At(i)))
    BY <1>2, <2>1, <2>2
  <2> QED
    BY <1>1, <2>1, <2>3 DEF Ahead, Precedes
<1>11. CursorInv'
  BY <1>1 DEF CursorInv, Waiting
<1> QED
  BY <1>3, <1>4, <1>8, <1>9, <1>10, <1>11 DEF IInv

LEMMA QueryErrorStep == ASSUME IInv, QueryError PROVE IInv'
<1>1. /\ pc = "request" /\ pc' = "failed" /\ page' = {}
      /\ got' = IF api = "Collect" THEN <<>> ELSE got
      /\ UNCHANGED <<place, q, asked, api, cursor, next>>
      /\ TypeOK /\ CondInv /\ CursorInv /\ GotInv /\ FoundInv
  BY DEF QueryError, FailWith, IInv
<1>2. TypeOK'
  BY <1>1 DEF TypeOK
<1>3. CondInv'
  BY <1>1 DEF CondInv, Exact, Fresh
<1>4. CursorInv' /\ FoundInv'
  <2>1. CASE api = "Page"
    <3>1. got' = got
      BY <1>1, <2>1
    <3> QED
      BY <1>1, <3>1
         DEF CursorInv, Waiting, Precedes, FoundInv, Ahead, HandedOut, Asked, At
  <2>2. CASE api # "Page"
    BY <1>1, <2>2 DEF CursorInv, Waiting, FoundInv
  <2> QED
    BY <2>1, <2>2
<1>5. GotInv'
  <2>1. CASE got' = <<>>
    BY <2>1 DEF GotInv, InOrder
  <2>2. CASE got' = got
    BY <1>1, <2>2 DEF GotInv, InOrder, Precedes, Sound
  <2> QED
    BY <1>1, <2>1, <2>2
<1>6. PageInv'
  BY <1>1 DEF PageInv
<1> QED
  BY <1>2, <1>3, <1>4, <1>5, <1>6 DEF IInv

LEMMA YieldStep == ASSUME IInv, Yield PROVE IInv'
<1>1. /\ pc = "yield" /\ UNCHANGED <<place, q, asked, api, cursor, next>>
      /\ TypeOK /\ CondInv /\ PageInv /\ GotInv /\ FoundInv /\ api # "Page"
  BY DEF Yield, IInv, CondInv
<1>2. PICK e \in page :
        /\ IsFirst(e)
        /\ IF Unmarshals(e)
           THEN /\ got' = Append(got, e)
                /\ page' = page \ {e}
                /\ pc' \in {"yield"} \cup (IF api = "All" THEN {"stopped"} ELSE {})
           ELSE FailWith(got)
  BY DEF Yield
<1>3. CASE FailWith(got)
  <2>1. pc' = "failed" /\ page' = {} /\ got' = IF api = "Collect" THEN <<>> ELSE got
    BY <1>3 DEF FailWith
  <2>2. TypeOK'
    BY <1>1, <2>1 DEF TypeOK
  <2>3. CondInv'
    BY <1>1, <2>1 DEF CondInv, Exact, Fresh
  <2>4. GotInv'
    <3>1. CASE got' = <<>>
      BY <3>1 DEF GotInv, InOrder
    <3>2. CASE got' = got
      BY <1>1, <3>2 DEF GotInv, InOrder, Precedes, Sound
    <3> QED
      BY <2>1, <3>1, <3>2
  <2> QED
    BY <1>1, <2>1, <2>2, <2>3, <2>4 DEF IInv, CursorInv, Waiting, FoundInv, PageInv
<1>4. CASE /\ got' = Append(got, e)
           /\ page' = page \ {e}
           /\ pc' \in {"yield", "stopped"}
  <2>1. e \in Entry /\ got \in Seq(Entry) /\ page \subseteq Entry
    BY <1>1 DEF TypeOK
  <2>2. /\ got' \in Seq(Entry) /\ Len(got') = Len(got) + 1 /\ Len(got) \in Nat
        /\ \A n \in 1 .. Len(got) : got'[n] = got[n]
        /\ got'[Len(got) + 1] = e
    BY <1>4, <2>1
  <2>3. DOMAIN got = 1 .. Len(got) /\ DOMAIN got' = 1 .. Len(got) + 1
    BY <2>1, <2>2
  <2>4. \A n \in DOMAIN got' : got'[n] = e \/ (n \in DOMAIN got /\ got'[n] = got[n])
    BY <2>2, <2>3
  <2>5. TypeOK'
    BY <1>1, <1>4, <2>2 DEF TypeOK
  <2>6. CondInv'
    BY <1>1, <1>4 DEF CondInv, Exact, Fresh
  <2>7. Sound(e) /\ \A n \in DOMAIN got : Sound(got[n]) /\ Precedes(got[n], e)
    BY <1>1 DEF PageInv, GotInv
  <2>8. GotInv'
    <3>1. \A n \in DOMAIN got' : Sound(got'[n])
      BY <2>4, <2>7
    <3>2. ASSUME NEW m \in DOMAIN got', NEW n \in DOMAIN got', m < n
          PROVE  Precedes(got'[m], got'[n])
      <4>1. m \in DOMAIN got /\ got'[m] = got[m]
        BY <2>2, <2>3, <3>2
      <4>2. CASE n \in DOMAIN got
        BY <1>1, <2>2, <2>3, <3>2, <4>1, <4>2 DEF GotInv, InOrder
      <4>3. CASE n \notin DOMAIN got
        <5>1. got'[n] = e
          BY <2>4, <4>3
        <5> QED
          BY <2>7, <4>1, <5>1
      <4> QED
        BY <4>2, <4>3
    <3> QED
      BY <1>1, <3>1, <3>2 DEF GotInv, InOrder, Precedes, Sound
  <2>9. \A f \in page' : Precedes(e, f)
    BY <1>2, <1>4 DEF IsFirst
  <2>10. PageInv'
    <3>1. \A f \in page' : Sound(f)
      BY <1>1, <1>4 DEF PageInv
    <3>2. \A n \in DOMAIN got', f \in page' : Precedes(got'[n], f)
      BY <1>1, <1>4, <2>4, <2>9 DEF PageInv
    <3>3. next # None => /\ \A f \in page' : f = next \/ Precedes(f, next)
                         /\ \A n \in DOMAIN got' : got'[n] = next \/ Precedes(got'[n], next)
      BY <1>1, <1>4, <2>4 DEF PageInv
    <3> QED
      BY <1>1, <3>1, <3>2, <3>3 DEF PageInv, Precedes, Sound
  <2>11. FoundInv'
    <3> SUFFICES ASSUME NEW i \in Items, Asked(i)', pc' = "yield"
                 PROVE  HandedOut(i)' \/ Ahead(i)'
      BY <1>4 DEF FoundInv, Waiting
    <3>1. Asked(i) /\ At(i)' = At(i)
      BY <1>1 DEF Asked, At
    <3>2. HandedOut(i) \/ At(i) \in page \/ (next # None /\ Precedes(next, At(i)))
      BY <1>1, <3>1 DEF FoundInv, Ahead, Waiting
    <3>3. CASE HandedOut(i)
      BY <2>2, <2>3, <3>1, <3>3 DEF HandedOut
    <3>4. CASE At(i) = e
      <4>1. Len(got) + 1 \in DOMAIN got'
        BY <2>2, <2>3
      <4> QED
        BY <2>2, <3>1, <3>4, <4>1 DEF HandedOut
    <3>5. CASE At(i) \in page /\ At(i) # e
      BY <1>4, <3>1, <3>5 DEF Ahead
    <3>6. CASE next # None /\ Precedes(next, At(i))
      BY <1>1, <3>1, <3>6 DEF Ahead, Precedes
    <3> QED
      BY <3>2, <3>3, <3>4, <3>5, <3>6
  <2>12. CursorInv'
    BY <1>4 DEF CursorInv, Waiting
  <2> QED
    BY <2>5, <2>6, <2>8, <2>10, <2>11, <2>12 DEF IInv
<1> QED
  BY <1>2, <1>3, <1>4

LEMMA TurnPageStep == ASSUME IInv, TurnPage PROVE IInv'
<1>1. /\ pc = "yield" /\ page = {}
      /\ IF next = None
         THEN pc' = "done" /\ UNCHANGED cursor
         ELSE pc' = "request" /\ cursor' = next
      /\ UNCHANGED <<place, q, asked, api, page, next, got>>
      /\ TypeOK /\ CondInv /\ PageInv /\ GotInv /\ FoundInv
  BY DEF TurnPage, IInv
<1>2. TypeOK'
  BY <1>1 DEF TypeOK
<1>3. CondInv'
  BY <1>1 DEF CondInv, Exact, Fresh
<1>4. GotInv'
  BY <1>1 DEF GotInv, InOrder, Precedes, Sound
<1>5. PageInv'
  BY <1>1 DEF PageInv
<1>6. CursorInv'
  BY <1>1 DEF CursorInv, Waiting, PageInv, Precedes
<1>7. FoundInv'
  <2> SUFFICES ASSUME NEW i \in Items, Asked(i)'
               PROVE  HandedOut(i)' \/ Ahead(i)'
    BY DEF FoundInv
  <2>1. Asked(i) /\ At(i)' = At(i) /\ HandedOut(i)' = HandedOut(i)
    BY <1>1 DEF Asked, At, HandedOut
  <2>2. HandedOut(i) \/ (next # None /\ Precedes(next, At(i)))
    BY <1>1, <2>1 DEF FoundInv, Ahead, Waiting
  <2> QED
    BY <1>1, <2>1, <2>2 DEF Ahead, Waiting, Precedes
<1> QED
  BY <1>2, <1>3, <1>4, <1>5, <1>6, <1>7 DEF IInv

LEMMA PageStep == ASSUME IInv, Page PROVE IInv'
<1>1. /\ pc = "request" /\ api = "Page" /\ PageRaw
      /\ IF \E e \in page' : ~Unmarshals(e)
         THEN pc' = "failed" /\ UNCHANGED <<cursor, got>>
         ELSE /\ pc' = IF next' = None THEN "done" ELSE "request"
              /\ cursor' = next'
              /\ got' = got \o InSequence(page')
      /\ UNCHANGED <<place, q, asked, api>>
      /\ TypeOK /\ CondInv /\ CursorInv /\ GotInv /\ FoundInv
  BY DEF Page, IInv
<1>2. /\ page' \in SUBSET Entry /\ IsFiniteSet(page')
      /\ next' \in Entry \cup {None}
      /\ \A e \in page' : Sound(e) /\ (cursor # None => Precedes(cursor, e))
      /\ next' # None =>
           /\ \A e \in page' : e = next' \/ Precedes(e, next')
           /\ cursor # None => Precedes(cursor, next')
      /\ \A i \in Items :
           Asked(i) /\ (cursor = None \/ Precedes(cursor, At(i))) =>
             At(i) \in page' \/ (next' # None /\ Precedes(next', At(i)))
  BY <1>1, PageRawGives
<1>3. CondInv' /\ PageInv'
  <2>1. pc' \in {"failed", "done", "request"}
    BY <1>1
  <2>2. ~q.err
    BY <1>1 DEF CondInv
  <2>3. CondInv'
    BY <1>1, <2>1, <2>2 DEF CondInv, Exact, Fresh
  <2> QED
    BY <1>1, <1>2, <2>1, <2>3 DEF PageInv, Sound
<1>4. CASE pc' = "failed" /\ UNCHANGED <<cursor, got>>
  <2>1. TypeOK'
    BY <1>1, <1>2, <1>4 DEF TypeOK
  <2>2. CursorInv' /\ FoundInv'
    BY <1>1, <1>4
       DEF CursorInv, Waiting, Precedes, FoundInv, Ahead, HandedOut, Asked, At
  <2>3. GotInv'
    BY <1>1, <1>4 DEF GotInv, InOrder, Precedes, Sound
  <2> QED
    BY <1>3, <2>1, <2>2, <2>3 DEF IInv
<1>5. CASE /\ pc' = IF next' = None THEN "done" ELSE "request"
           /\ cursor' = next'
           /\ got' = got \o InSequence(page')
  <2> DEFINE t == InSequence(page')
  <2>1. /\ t \in Seq(Entry)
        /\ \A m, n \in DOMAIN t : m < n => Precedes(t[m], t[n])
        /\ \A n \in DOMAIN t : t[n] \in page'
        /\ \A e \in page' : \E n \in DOMAIN t : t[n] = e
    BY <1>2, InSequenceIs
  <2>2. got \in Seq(Entry) /\ cursor \in Entry \cup {None}
        /\ \A n \in DOMAIN got : got[n] \in Entry
    BY <1>1 DEF TypeOK
  <2>3. got' = got \o t
    BY <1>5
  <2> HIDE DEF t
  <2>4. /\ got' \in Seq(Entry) /\ Len(got') = Len(got) + Len(t)
        /\ Len(got) \in Nat /\ Len(t) \in Nat
        /\ \A n \in 1 .. Len(got') :
             got'[n] = IF n <= Len(got) THEN got[n] ELSE t[n - Len(got)]
    BY <2>1, <2>2, <2>3, ConcatProperties
  <2>5. /\ DOMAIN got = 1 .. Len(got) /\ DOMAIN t = 1 .. Len(t)
        /\ DOMAIN got' = 1 .. Len(got) + Len(t)
    BY <2>1, <2>2, <2>4
  <2>6. \A n \in DOMAIN got : n \in DOMAIN got' /\ got'[n] = got[n]
    BY <2>4, <2>5
  <2>7. \A n \in DOMAIN t : Len(got) + n \in DOMAIN got' /\ got'[Len(got) + n] = t[n]
    <3> SUFFICES ASSUME NEW n \in DOMAIN t
                 PROVE  Len(got) + n \in DOMAIN got' /\ got'[Len(got) + n] = t[n]
      OBVIOUS
    <3>1. Len(got) + n \in 1 .. Len(got') /\ ~(Len(got) + n <= Len(got))
          /\ (Len(got) + n) - Len(got) = n
      BY <2>4, <2>5
    <3> QED
      BY <2>4, <2>5, <3>1
  <2>8. ASSUME NEW n \in DOMAIN got', n \notin DOMAIN got
        PROVE  n - Len(got) \in DOMAIN t /\ got'[n] = t[n - Len(got)]
    <3>1. n \in 1 .. Len(got') /\ ~(n <= Len(got)) /\ n - Len(got) \in 1 .. Len(t)
      BY <2>4, <2>5, <2>8
    <3> QED
      BY <2>4, <2>5, <3>1
  <2>9. /\ cursor = None => got = <<>>
        /\ cursor # None => \A n \in DOMAIN got : got[n] = cursor \/ Precedes(got[n], cursor)
    BY <1>1 DEF CursorInv, Waiting
  <2>10. ASSUME NEW e \in Entry, cursor # None => Precedes(cursor, e)
         PROVE  \A n \in DOMAIN got : Precedes(got[n], e)
    <3>1. CASE cursor = None
      BY <2>9, <3>1
    <3>2. CASE cursor # None
      BY <2>2, <2>9, <2>10, <3>2, Transitive
    <3> QED
      BY <3>1, <3>2
  <2>11. \A n \in DOMAIN got, e \in page' : Precedes(got[n], e)
    BY <1>2, <2>10
  <2>12. TypeOK'
    BY <1>1, <1>2, <1>5, <2>4 DEF TypeOK
  <2>13. GotInv'
    <3>1. ASSUME NEW n \in DOMAIN got' PROVE Sound(got'[n])
      <4>1. CASE n \in DOMAIN got
        BY <1>1, <2>6, <4>1 DEF GotInv
      <4>2. CASE n \notin DOMAIN got
        BY <1>2, <2>1, <2>8, <4>2
      <4> QED
        BY <4>1, <4>2
    <3>2. ASSUME NEW m \in DOMAIN got', NEW n \in DOMAIN got', m < n
          PROVE  Precedes(got'[m], got'[n])
      <4>1. CASE n \in DOMAIN got
        <5>1. m \in DOMAIN got
          BY <2>5, <3>2, <4>1
        <5> QED
          BY <1>1, <2>6, <3>2, <4>1, <5>1 DEF GotInv, InOrder
      <4>2. CASE n \notin DOMAIN got /\ m \in DOMAIN got
        BY <2>1, <2>6, <2>8, <2>11, <4>2
      <4>3. CASE n \notin DOMAIN got /\ m \notin DOMAIN got
        <5>1. /\ n - Len(got) \in DOMAIN t /\ got'[n] = t[n - Len(got)]
              /\ m - Len(got) \in DOMAIN t /\ got'[m] = t[m - Len(got)]
          BY <2>8, <4>3
        <5>2. m - Len(got) < n - Len(got)
          BY <2>4, <2>5, <3>2
        <5> QED
          BY <2>1, <5>1, <5>2
      <4> QED
        BY <4>1, <4>2, <4>3
    <3> QED
      BY <1>1, <3>1, <3>2 DEF GotInv, InOrder, Precedes, Sound
  <2>14. CursorInv'
    <3> SUFFICES ASSUME next' # None
                 PROVE  \A n \in DOMAIN got' : got'[n] = next' \/ Precedes(got'[n], next')
      BY <1>1, <1>5 DEF CursorInv, Waiting, Precedes
    <3>1. \A n \in DOMAIN got : Precedes(got[n], next')
      BY <1>2, <2>10
    <3> TAKE n \in DOMAIN got'
    <3>2. CASE n \in DOMAIN got
      BY <2>6, <3>1, <3>2
    <3>3. CASE n \notin DOMAIN got
      BY <1>2, <2>1, <2>8, <3>3
    <3> QED
      BY <3>2, <3>3
  <2>15. FoundInv'
    <3> SUFFICES ASSUME NEW i \in Items, Asked(i)'
                 PROVE  HandedOut(i)' \/ Ahead(i)'
      BY DEF FoundInv
    <3>1. Asked(i) /\ At(i)' = At(i)
      BY <1>1 DEF Asked, At
    <3>2. HandedOut(i) \/ cursor = None \/ Precedes(cursor, At(i))
      BY <1>1, <3>1 DEF FoundInv, Ahead, Waiting
    <3>3. HandedOut(i) \/ At(i) \in page' \/ (next' # None /\ Precedes(next', At(i)))
      BY <1>2, <3>1, <3>2
    <3>4. CASE HandedOut(i)
      BY <2>6, <3>1, <3>4 DEF HandedOut
    <3>5. CASE At(i) \in page'
      <4>1. PICK n \in DOMAIN t : t[n] = At(i)
        BY <2>1, <3>5
      <4> QED
        BY <2>7, <3>1, <4>1 DEF HandedOut
    <3>6. CASE next' # None /\ Precedes(next', At(i))
      BY <1>1, <1>5, <3>1, <3>6 DEF Ahead, Waiting, Precedes
    <3> QED
      BY <3>3, <3>4, <3>5, <3>6
  <2> QED
    BY <1>3, <2>12, <2>13, <2>14, <2>15 DEF IInv
<1> QED
  BY <1>1, <1>4, <1>5

LEMMA RetryPageStep == ASSUME IInv, RetryPage PROVE IInv'
<1>1. /\ pc = "failed" /\ api = "Page" /\ ~q.err /\ pc' = "request"
      /\ UNCHANGED <<place, q, asked, api, page, cursor, next, got>>
      /\ TypeOK /\ CondInv /\ PageInv /\ CursorInv /\ GotInv /\ FoundInv
  BY DEF RetryPage, IInv
<1>2. TypeOK'
  BY <1>1 DEF TypeOK
<1>3. CondInv'
  BY <1>1 DEF CondInv, Exact, Fresh
<1>4. CursorInv' /\ FoundInv'
  BY <1>1 DEF CursorInv, Waiting, Precedes, FoundInv, Ahead, HandedOut, Asked, At
<1>5. GotInv' /\ PageInv'
  BY <1>1 DEF GotInv, PageInv, InOrder, Precedes, Sound
<1> QED
  BY <1>2, <1>3, <1>4, <1>5 DEF IInv

LEMMA UnchangedStep == ASSUME IInv, UNCHANGED vars PROVE IInv'
<1>1. /\ UNCHANGED <<place, q, asked, pc, api, page, cursor, next, got>>
      /\ TypeOK /\ CondInv /\ PageInv /\ CursorInv /\ GotInv /\ FoundInv
  BY DEF vars, IInv
<1>2. TypeOK'
  BY <1>1 DEF TypeOK
<1>3. CondInv'
  BY <1>1 DEF CondInv, Exact, Fresh
<1>4. CursorInv' /\ FoundInv'
  BY <1>1 DEF CursorInv, Waiting, Precedes, FoundInv, Ahead, HandedOut, Asked, At
<1>5. GotInv' /\ PageInv'
  BY <1>1 DEF GotInv, PageInv, InOrder, Precedes, Sound
<1> QED
  BY <1>2, <1>3, <1>4, <1>5 DEF IInv

LEMMA NextIInv == IInv /\ [Next]_vars => IInv'
BY AfterStep, BeforeStep, BetweenStep, UnencodableStep, DescStep, LimitStep, RunStep,
   FetchPageStep, QueryErrorStep, YieldStep, TurnPageStep, PageStep, RetryPageStep,
   UnchangedStep DEF Next, Reader

LEMMA AlwaysIInv == Spec => []IInv
BY InitIInv, NextIInv, PTL DEF Spec

------------------------------------------------------------------------------
(* The theorems.                                                           *)

LEMMA IInvGivesStable == IInv => StableItemsOnce
<1> SUFFICES ASSUME IInv, pc = "done", NEW i \in Items, Asked(i) PROVE Times(i) = 1
  BY DEF StableItemsOnce
<1>1. TypeOK /\ GotInv /\ HandedOut(i)
  BY DEF IInv, FoundInv, Ahead, Waiting
<1>2. PICK n \in DOMAIN got : got[n] = At(i)
  BY <1>1 DEF HandedOut
<1>3. DOMAIN got \subseteq Nat /\ \A m \in DOMAIN got : got[m] \in Entry
  BY <1>1 DEF TypeOK
<1>4. At(i) \in Entry /\ At(i).item = i /\ At(i).key = place[i]
  BY <1>1, AskedEntry
<1>5. ASSUME NEW m \in DOMAIN got, got[m].item = i PROVE m = n
  <2>1. got[m].key = place[i]
    BY <1>1, <1>5 DEF GotInv, Sound, Asked
  <2>2. got[m] = got[n]
    BY <1>2, <1>3, <1>4, <1>5, <2>1, SameEntry
  <2>3. ~(m < n) /\ ~(n < m)
    BY <1>1, <1>3, <2>2, Irreflexive DEF GotInv, InOrder
  <2> QED
    BY <1>3, <2>3
<1>6. {m \in DOMAIN got : got[m].item = i} = {n}
  BY <1>2, <1>4, <1>5
<1> QED
  BY <1>6, FS_Singleton DEF Times

\* The state of a query has its types.
THEOREM TypeCorrect == Spec => []TypeOK
<1>1. IInv => TypeOK
  BY DEF IInv
<1> QED
  BY <1>1, AlwaysIInv, PTL

\* Items are handed out in key order, across pages (query.go 196-277).
THEOREM KeyOrder == Spec => []InOrder
<1>1. IInv => InOrder
  BY DEF IInv, GotInv
<1> QED
  BY <1>1, AlwaysIInv, PTL

\* Nothing is handed out that was not asked for: the conditions of query.go
\* 14-92 select exactly what the range methods name, and the type filter
\* keeps foreign items out.
THEOREM NothingForeign == Spec => []NothingElse
<1>1. IInv => NothingElse
  BY DEF IInv, GotInv, Sound, NothingElse
<1> QED
  BY <1>1, AlwaysIInv, PTL

\* A query that ends without an error has handed out every item that stayed
\* put and was asked for, once, whatever others wrote meanwhile, wherever the
\* service cut the pages and whatever the caller's limit (query.go 196-277).
THEOREM EveryStableItemOnce == Spec => []StableItemsOnce
BY IInvGivesStable, AlwaysIInv, PTL

------------------------------------------------------------------------------
(* How long a query can last.                                               *)

\* A page that has a successor moves the cursor on.
MoveInv ==
  pc = "yield" /\ next # None =>
    next \in Entry /\ (cursor = None \/ Precedes(cursor, next))

LEMMA MoveStep == IInv /\ IInv' /\ MoveInv /\ [Next]_vars => MoveInv'
<1> SUFFICES ASSUME IInv, IInv', MoveInv, [Next]_vars, pc' = "yield", next' # None
             PROVE  next' \in Entry /\ (cursor = None \/ Precedes(cursor, next))'
  BY DEF MoveInv
<1>1. next' \in Entry \cup {None}
  BY DEF IInv, TypeOK
<1>2. CASE FetchPage
  <2>1. pc = "request" /\ PageRaw /\ cursor' = cursor /\ q' = q
    BY <1>2 DEF FetchPage
  <2>2. cursor # None => Precedes(cursor, next')
    BY <2>1, PageRawGives
  <2> QED
    BY <1>1, <2>1, <2>2 DEF Precedes
<1>3. CASE Yield \/ UNCHANGED vars
  <2>1. pc = "yield" /\ UNCHANGED <<cursor, next, q>>
    BY <1>3 DEF Yield, vars
  <2> QED
    BY <1>1, <2>1 DEF MoveInv, Precedes
<1>4. ASSUME Next, ~FetchPage, ~Yield PROVE FALSE
  BY <1>4 DEF Next, Reader, After, Before, Between, RefineUnencodable, Desc, Limit, Building, Run,
              Resting, QueryError, FailWith, TurnPage, Page, RetryPage
<1> QED
  BY <1>2, <1>3, <1>4

\* What is beyond a later cursor.
LEMMA BeyondShrinks ==
  ASSUME IsFiniteSet(Entry), NEW c \in Entry \cup {None}, NEW d \in Entry,
         c = None \/ Precedes(c, d)
  PROVE  /\ Cardinality(Beyond(d)) \in Nat /\ Cardinality(Beyond(c)) \in Nat
         /\ Cardinality(Beyond(d)) < Cardinality(Beyond(c))
<1>1. Beyond(c) \subseteq Entry /\ Beyond(d) \subseteq Entry
  BY DEF Beyond
<1>2. d \in Beyond(c)
  BY DEF Beyond
<1>3. d \notin Beyond(d)
  BY Irreflexive, EntryType DEF Beyond
<1>4. Beyond(d) \subseteq Beyond(c)
  <2> SUFFICES ASSUME NEW e \in Beyond(d) PROVE e \in Beyond(c)
    OBVIOUS
  <2>1. e \in Entry /\ Precedes(d, e)
    BY EntryType DEF Beyond
  <2>2. c = None \/ Precedes(c, e)
    BY <2>1, Transitive
  <2> QED
    BY <2>1, <2>2 DEF Beyond
<1>5. IsFiniteSet(Beyond(c)) /\ IsFiniteSet(Beyond(d))
  BY <1>1, FS_Subset
<1> HIDE DEF Beyond
<1>6. /\ Cardinality(Beyond(d)) <= Cardinality(Beyond(c))
      /\ Cardinality(Beyond(d)) = Cardinality(Beyond(c)) => Beyond(d) = Beyond(c)
  BY <1>4, <1>5, FS_Subset
<1>7. Cardinality(Beyond(d)) \in Nat /\ Cardinality(Beyond(c)) \in Nat
  BY <1>5, FS_CardinalityType
<1> QED
  BY <1>2, <1>3, <1>6, <1>7

LEMMA ProductGrows ==
  ASSUME NEW m \in Nat, NEW c \in Nat, NEW d \in Nat, c < d
  PROVE  m * c \in Nat /\ m * d \in Nat /\ m * c + m <= m * d
<1>1. PICK e \in Nat : d = c + 1 + e
  <2>1. d - c - 1 \in Nat /\ d = c + 1 + (d - c - 1)
    OBVIOUS
  <2> QED
    BY <2>1
<1>2. m * e \in Nat /\ m * c \in Nat
  OBVIOUS
<1>3. m * d = m * c + m + m * e
  BY <1>1
<1> QED
  BY <1>2, <1>3

LEMMA StepAdvances ==
  ASSUME IsFiniteSet(Entry), IInv, IInv', MoveInv, Next, Reading
  PROVE  StepsLeft' \in 0 .. StepsLeft - 1
<1> DEFINE E == Cardinality(Entry)
           K == E + 2
           b == Cardinality(Beyond(cursor))
           r == IF pc = "request" THEN E + 1 ELSE Cardinality(page)
<1>1. TypeOK /\ TypeOK'
  BY DEF IInv
<1>2. IsFiniteSet(Beyond(cursor)) /\ E \in Nat /\ b \in Nat
  <2>1. Beyond(cursor) \subseteq Entry
    BY DEF Beyond
  <2> HIDE DEF Beyond
  <2> QED
    BY <2>1, FS_Subset, FS_CardinalityType
<1>3. /\ IsFiniteSet(page) /\ Cardinality(page) \in Nat /\ Cardinality(page) <= E
      /\ IsFiniteSet(page') /\ Cardinality(page') \in Nat /\ Cardinality(page') <= E
  <2>1. page \subseteq Entry /\ page' \subseteq Entry
    BY <1>1 DEF TypeOK
  <2> QED
    BY <2>1, FS_Subset, FS_CardinalityType
<1> DEFINE x == K * b
<1>4. K \in Nat /\ r \in Nat /\ x \in Nat
  <2> HIDE DEF b, E
  <2> QED
    BY <1>2, <1>3
<1>5. StepsLeft = x + 1 + r
  BY DEF StepsLeft
<1> HIDE DEF x, r
<1>6. StepsLeft \in Nat /\ StepsLeft >= 1
  BY <1>4, <1>5
<1>7. CASE ~Reading'
  <2>1. StepsLeft' = 0
    BY <1>7 DEF StepsLeft
  <2> QED
    BY <1>6, <2>1
<1>8. CASE FetchPage
  <2>1. pc = "request" /\ pc' = "yield" /\ UNCHANGED <<q, api, cursor>>
    BY <1>8 DEF FetchPage
  <2>2. Beyond(cursor)' = Beyond(cursor)
    BY <2>1 DEF Beyond, Precedes
  <2>3. StepsLeft' = x + 1 + Cardinality(page') /\ r = E + 1
    BY <2>1, <2>2 DEF StepsLeft, Reading, x, r
  <2> HIDE DEF E
  <2> QED
    BY <1>2, <1>3, <1>4, <1>5, <2>3
<1>9. CASE Yield /\ Reading'
  <2>1. pc = "yield" /\ UNCHANGED <<q, api, cursor>>
    BY <1>9 DEF Yield
  <2>2. pc' = "yield" /\ \E e \in page : page' = page \ {e}
    BY <1>9 DEF Yield, FailWith, Reading
  <2>3. Cardinality(page') = Cardinality(page) - 1
    BY <1>3, <2>2, FS_RemoveElement
  <2>4. Beyond(cursor)' = Beyond(cursor)
    BY <2>1 DEF Beyond, Precedes
  <2>5. StepsLeft' = x + 1 + Cardinality(page') /\ r = Cardinality(page)
    BY <1>9, <2>1, <2>2, <2>4 DEF StepsLeft, x, r
  <2> HIDE DEF E
  <2> QED
    BY <1>3, <1>4, <1>5, <2>3, <2>5
<1>10. CASE TurnPage /\ Reading'
  <2>1. /\ pc = "yield" /\ next # None /\ pc' = "request" /\ cursor' = next
        /\ UNCHANGED <<q, api>>
    BY <1>10 DEF TurnPage, Reading
  <2>2. next \in Entry /\ (cursor = None \/ Precedes(cursor, next)) /\ cursor \in Entry \cup {None}
    BY <1>1, <2>1 DEF MoveInv, TypeOK
  <2> DEFINE b2 == Cardinality(Beyond(next))
             y == K * b2
  <2>3. b2 \in Nat /\ b2 < b
    BY <2>2, BeyondShrinks
  <2>4. Beyond(cursor)' = Beyond(next)
    BY <2>1 DEF Beyond, Precedes
  <2>5. StepsLeft' = y + 1 + (E + 1)
    BY <1>10, <2>1, <2>4 DEF StepsLeft
  <2>6. y \in Nat /\ y + K <= x
    <3> HIDE DEF b, b2, K
    <3> QED
      BY <1>2, <1>4, <2>3, ProductGrows DEF x
  <2> HIDE DEF y, E
  <2> QED
    BY <1>2, <1>4, <1>5, <2>5, <2>6
<1>11. CASE QueryError
  BY <1>7, <1>11 DEF QueryError, FailWith, Reading
<1>12. ASSUME ~FetchPage, ~Yield, ~TurnPage, ~QueryError PROVE FALSE
  BY <1>12 DEF Next, Reader, After, Before, Between, RefineUnencodable, Desc, Limit, Building, Run,
              Resting, Page, RetryPage, Reading
<1> QED
  BY <1>7, <1>8, <1>9, <1>10, <1>11, <1>12

\* Over finitely many keys All and Collect make no more steps than StepsLeft
\* says when they begin, whatever other clients write meanwhile and however
\* the service cuts the pages (query.go 223-277): there is no page they ask for
\* twice.
THEOREM QueriesAdvance == IsFiniteSet(Entry) => (Spec => QueryAdvances)
<1> SUFFICES ASSUME IsFiniteSet(Entry) PROVE Spec => QueryAdvances
  OBVIOUS
<1>1. Init => MoveInv
  BY DEF Init, MoveInv
<1>2. IInv /\ IInv' /\ MoveInv /\ [Next]_vars => MoveInv'
  BY MoveStep
<1>3. IInv /\ IInv' /\ MoveInv /\ [Next]_vars
        => [Reading => StepsLeft' \in 0 .. StepsLeft - 1]_vars
  BY StepAdvances
<1> QED
  BY <1>1, <1>2, <1>3, AlwaysIInv, PTL DEF Spec, QueryAdvances
==============================================================================
