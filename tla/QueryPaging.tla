----------------------------- MODULE QueryPaging -----------------------------
(***************************************************************************)
(* A generated pattern query (internal/codegen/emit.go 618-838) and the    *)
(* partition query Collect (emit.go 149-209) over the paging helpers of    *)
(* runtime/query.go, while other clients write to the same partition or    *)
(* index.  What they write is not followed write by write: an item they    *)
(* touch is Busy, and each read may find it anywhere or not at all.        *)
(*                                                                         *)
(* Sort keys are told apart by the value of the range field they carry: an *)
(* item at key v has the encoding of v and a continuation after it, the    *)
(* item's own identity.  On an index an item may move; on the main table   *)
(* it only comes and goes.                                                 *)
(***************************************************************************)
EXTENDS Integers, Sequences, FiniteSets

CONSTANTS
  Items,     \* item numbers; they order items that share a sort key
  Places,    \* the sort keys each item may have
  Own,       \* the items of the queried entity
  Known,     \* the items of any entity Collect has a type for
  Malformed, \* the entries unmarshalling refuses
  First, Last, \* the sort keys under the literal prefix of the sk template
  Limits     \* arguments of Limit; zero means none

ASSUME ItemsAssumption == Items \subseteq Nat /\ IsFiniteSet(Items)
ASSUME ScopeAssumption == First \in Nat \ {0} /\ Last \in Nat /\ First <= Last
ASSUME PlacesAssumption == Places \in [Items -> SUBSET (Nat \ {0})]
ASSUME OwnAssumption ==
  /\ Own \subseteq Known /\ Known \subseteq Items
  /\ \A i \in Own : Places[i] \subseteq First..Last
ASSUME LimitsAssumption == Limits \subseteq Nat /\ 0 \in Limits

Absent == 0
Busy == -1  \* written by others, or not yet the same in every replica
None == [key |-> Absent, item |-> 0]      \* the empty cursor
Entry == {e \in [key : UNION {Places[i] : i \in Items}, item : Items] :
            e.key \in Places[e.item]}
AllKeys == 1..(Last + 1)

VARIABLES
  place,   \* where each item is all through a query, Busy if it is not
  q,       \* the query builder
  asked,   \* the sort keys its methods asked for
  pc,      \* build, request, yield, or how the query ended
  api,     \* All, Page or Collect
  page,    \* items of the current page not yet handed out
  cursor,  \* ExclusiveStartKey of the current request
  next,    \* the cursor that came with the page
  got      \* what the caller has been handed

vars == <<place, q, asked, pc, api, page, cursor, next, got>>

------------------------------------------------------------------------------
(* Sort-key conditions (runtime/query.go 14-92).  A bound is a point in    *)
(* the order of keys: an encoded value, the keys that carry it, and the    *)
(* value with MaxKeySuffix, in this order; likewise the literal prefix.    *)

Encoded(v) == 3 * v
KeyOf(v) == 3 * v + 1
Suffixed(v) == 3 * v + 2

\* The prefix lies between the keys before the scope and the first in it.
Prefix == Encoded(First) - 1
PrefixSuffixed == Encoded(Last + 1)

Cond(kind, lo, hi) == [kind |-> kind, lo |-> lo, hi |-> hi]
SKEmpty == Cond("empty", 0, 0)
SKNone == Cond("none", 0, 0)
SKBegins == Cond("begins", 0, 0)

SKAfter(scoped, v) ==
  IF ~scoped THEN Cond("gt", Suffixed(v), 0)
  ELSE IF Suffixed(v) > PrefixSuffixed THEN SKEmpty
  ELSE Cond("between", Suffixed(v), PrefixSuffixed)

\* The encoder's smallest value is First: below it there is no predecessor.
SKBefore(scoped, v) ==
  IF ~scoped THEN Cond("lt", Encoded(v), 0)
  ELSE IF v = First THEN SKEmpty
  ELSE Cond("between", Prefix, Suffixed(v - 1))

\* Mutant of SKBetween: reversed bounds are not noticed.
SKBetweenUnchecked(lo, hi) == Cond("between", Encoded(lo), Suffixed(hi))

SKBetween(lo, hi) ==
  IF lo > hi THEN SKEmpty ELSE Cond("between", Encoded(lo), Suffixed(hi))

\* What the service makes of a condition.
Selects(c, v) ==
  CASE c.kind = "none" -> TRUE
    [] c.kind = "begins" -> v \in First..Last
    [] c.kind = "gt" -> KeyOf(v) > c.lo
    [] c.kind = "lt" -> KeyOf(v) < c.lo
    [] c.kind = "between" -> c.lo <= KeyOf(v) /\ KeyOf(v) <= c.hi

\* Conditions a client may send: a reversed BETWEEN is a validation error.
Conds ==
  {c \in [kind : {"empty", "none", "begins", "gt", "lt", "between"},
          lo : Nat, hi : Nat] : c.kind = "between" => c.lo <= c.hi}

TypeOK ==
  /\ \A i \in Items : place[i] \in Places[i] \cup {Absent, Busy}
  /\ q \in [scoped : BOOLEAN, cond : Conds, refined : BOOLEAN, desc : BOOLEAN,
            limit : Limits, err : BOOLEAN]
  /\ asked \subseteq AllKeys
  /\ pc \in {"build", "request", "yield", "done", "failed", "stopped"}
  /\ api \in {"All", "Page", "Collect"}
  /\ page \subseteq Entry
  /\ cursor \in Entry \cup {None} /\ next \in Entry \cup {None}
  /\ got \in Seq(Entry)

------------------------------------------------------------------------------
(* Building a query.                                                       *)

\* The pattern's constructor, which fails when the partition key cannot be
\* encoded.  Scoped patterns begin with the literal prefix of the sort key.
Init ==
  /\ place \in [Items -> {Absent, Busy} \cup UNION {Places[i] : i \in Items}]
  /\ \A i \in Items : place[i] \in Places[i] \cup {Absent, Busy}
  /\ \E scoped, err \in BOOLEAN :
       /\ q = [scoped |-> scoped, cond |-> IF scoped THEN SKBegins ELSE SKNone,
               refined |-> FALSE, desc |-> FALSE, limit |-> 0,
               err |-> err]
       /\ asked = IF err THEN {} ELSE IF scoped THEN First..Last ELSE AllKeys
  /\ pc = "build" /\ api = "All"
  /\ page = {} /\ cursor = None /\ next = None /\ got = <<>>

Resting == {"build", "done", "failed", "stopped"}

Building ==
  /\ pc = "build"
  /\ UNCHANGED <<place, pc, api, page, cursor, next, got>>

\* Mutant of BeginRefine: a second refinement replaces the first.
RefineAgain(encodes, c) ==
  q' = IF q.err THEN q
       ELSE IF encodes THEN [q EXCEPT !.refined = TRUE, !.cond = c]
       ELSE [q EXCEPT !.refined = TRUE, !.err = TRUE]

\* What the caller asks for, as long as there is no error to tell him.
Narrow(keys) == asked' = IF q'.err THEN {} ELSE asked \cap keys

\* A range method: the first error stays, a second refinement is one, and so
\* is a value the encoder refuses.
BeginRefine(encodes, c) ==
  q' = IF q.err THEN q
       ELSE IF q.refined THEN [q EXCEPT !.err = TRUE]
       ELSE IF encodes THEN [q EXCEPT !.refined = TRUE, !.cond = c]
       ELSE [q EXCEPT !.refined = TRUE, !.err = TRUE]

After(v) ==
  /\ Building
  /\ BeginRefine(TRUE, SKAfter(q.scoped, v))
  /\ Narrow({k \in AllKeys : k > v})

Before(v) ==
  /\ Building
  /\ BeginRefine(TRUE, SKBefore(q.scoped, v))
  /\ Narrow({k \in AllKeys : k < v})

Between(lo, hi) ==
  /\ Building
  /\ BeginRefine(TRUE, SKBetween(lo, hi))
  /\ Narrow(lo..hi)

\* Any of the three with a value that has no encoding.
RefineUnencodable ==
  /\ Building
  /\ BeginRefine(FALSE, SKEmpty)
  /\ Narrow({})

Desc == Building /\ q' = [q EXCEPT !.desc = TRUE] /\ UNCHANGED asked
Limit(n) == Building /\ q' = [q EXCEPT !.limit = n] /\ UNCHANGED asked

\* A partition query has no condition, order, limit or type filter.
Fresh == ~q.scoped /\ ~q.refined /\ ~q.desc /\ q.limit = 0

\* All, Page with a zero cursor, or Collect on a partition query.  A query is
\* a value: it may be run again after it has ended.
Run(method) ==
  /\ pc \in Resting
  /\ method = "Collect" => Fresh
  /\ api' = method
  /\ pc' = IF q.err THEN "failed" ELSE "request"
  /\ page' = {} /\ cursor' = None /\ next' = None /\ got' = <<>>
  /\ UNCHANGED <<place, q, asked>>

------------------------------------------------------------------------------
(* One page (QueryPageRaw and the service).                                *)

Passes(e) == api = "Collect" \/ e.item \in Own

Less(a, b) == a.key < b.key \/ (a.key = b.key /\ a.item < b.item)
Precedes(a, b) == IF q.desc THEN Less(b, a) ELSE Less(a, b)

\* What one read sees.  The writes of other clients, and the lag of a read
\* that is not strongly consistent, are that a busy item may be anywhere.
View ==
  {v \in [Items -> {Absent} \cup UNION {Places[i] : i \in Items}] :
     \A i \in Items :
       IF place[i] = Busy THEN v[i] \in Places[i] \cup {Absent}
                          ELSE v[i] = place[i]}

Hits(view) ==
  {e \in Entry :
     /\ view[e.item] = e.key
     /\ Selects(q.cond, e.key)
     /\ cursor # None => Precedes(cursor, e)}

\* The service reads up to some item, at most limit of them, and names it
\* unless nothing is left; after the last item it may name it all the same.
Answered(hits) ==
  \/ /\ hits = {}
     /\ page' = {} /\ next' = None
  \/ \E last \in hits :
       LET read == {e \in hits : e = last \/ Precedes(e, last)}
       IN  /\ q.limit > 0 => Cardinality(read) <= q.limit
           /\ page' = {e \in read : Passes(e)}
           /\ next' \in {last} \cup (IF read = hits THEN {None} ELSE {})

\* A provably empty range asks for nothing.
PageRaw ==
  IF q.cond.kind = "empty"
  THEN page' = {} /\ next' = None
  ELSE \E view \in View : Answered(Hits(view))

Unmarshals(e) ==
  e \notin Malformed \/ (api = "Collect" /\ e.item \notin Known)

\* Ending with an error: Collect returns nothing, and nothing is left over.
FailWith(items) ==
  /\ pc' = "failed"
  /\ got' = IF api = "Collect" THEN <<>> ELSE items
  /\ page' = {}

\* Mutant of FetchPage: an empty page is asked for again.
FetchNonEmptyPage ==
  /\ pc = "request" /\ api # "Page"
  /\ PageRaw
  /\ pc' = IF page' = {} /\ next' # None THEN "request" ELSE "yield"
  /\ UNCHANGED <<place, q, asked, api, cursor, got>>

\* All and Collect take a page to hand out item by item.
FetchPage ==
  /\ pc = "request" /\ api # "Page"
  /\ PageRaw
  /\ pc' = "yield"
  /\ UNCHANGED <<place, q, asked, api, cursor, got>>

QueryError ==
  /\ pc = "request" /\ q.cond.kind # "empty"
  /\ FailWith(got)
  /\ UNCHANGED <<place, q, asked, api, cursor, next>>

IsFirst(e) == e \in page /\ \A f \in page : f = e \/ Precedes(e, f)

\* The loop body runs for one item, and may stop the iteration.
Yield ==
  /\ pc = "yield"
  /\ \E e \in page :
       /\ IsFirst(e)
       /\ IF Unmarshals(e)
          THEN /\ got' = Append(got, e)
               /\ page' = page \ {e}
               /\ pc' \in {"yield"} \cup (IF api = "All" THEN {"stopped"} ELSE {})
          ELSE FailWith(got)
  /\ UNCHANGED <<place, q, asked, api, cursor, next>>

\* Mutants of TurnPage: the iteration ends at an empty page; the cursor stays.
TurnFullPage ==
  /\ pc = "yield" /\ page = {}
  /\ IF next = None \/ got = <<>>
     THEN pc' = "done" /\ UNCHANGED cursor
     ELSE pc' = "request" /\ cursor' = next
  /\ UNCHANGED <<place, q, asked, api, page, next, got>>

TurnInPlace ==
  /\ pc = "yield" /\ page = {}
  /\ pc' = IF next = None THEN "done" ELSE "request"
  /\ UNCHANGED <<place, q, asked, api, page, cursor, next, got>>

TurnPage ==
  /\ pc = "yield" /\ page = {}
  /\ IF next = None
     THEN pc' = "done" /\ UNCHANGED cursor
     ELSE pc' = "request" /\ cursor' = next
  /\ UNCHANGED <<place, q, asked, api, page, next, got>>

------------------------------------------------------------------------------
(* Page, called by a caller who passes each cursor on.                     *)

\* The items of a page in their order.
InSequence(items) ==
  CHOOSE s \in [1..Cardinality(items) -> items] :
    \A m, n \in DOMAIN s : m < n => Precedes(s[m], s[n])

\* An item that cannot be unmarshalled fails the page; the caller still has
\* the cursor he passed.
Page ==
  /\ pc = "request" /\ api = "Page"
  /\ PageRaw
  /\ IF \E e \in page' : ~Unmarshals(e)
     THEN pc' = "failed" /\ UNCHANGED <<cursor, got>>
     ELSE /\ pc' = IF next' = None THEN "done" ELSE "request"
          /\ cursor' = next'
          /\ got' = got \o InSequence(page')
  /\ UNCHANGED <<place, q, asked, api>>

\* He tries the page again.
RetryPage ==
  /\ pc = "failed" /\ api = "Page" /\ ~q.err
  /\ pc' = "request"
  /\ UNCHANGED <<place, q, asked, api, page, cursor, next, got>>

------------------------------------------------------------------------------
Reader == FetchPage \/ QueryError \/ Yield \/ TurnPage \/ Page

Next ==
  \/ \E v \in First..Last : After(v) \/ Before(v)
  \/ \E lo, hi \in First..Last : Between(lo, hi)
  \/ RefineUnencodable \/ Desc
  \/ \E n \in Limits : Limit(n)
  \/ \E method \in {"All", "Page", "Collect"} : Run(method)
  \/ Reader \/ RetryPage

\* A query is answered or fails in the end, and the caller's loop body ends.
Spec == Init /\ [][Next]_vars /\ WF_vars(Reader)

------------------------------------------------------------------------------
(* Properties.                                                             *)

Times(i) == Cardinality({n \in DOMAIN got : got[n].item = i})

Asked(i) ==
  /\ place[i] \notin {Absent, Busy}
  /\ api = "Collect" \/ (i \in Own /\ place[i] \in asked)

\* A query that ends without an error has returned each item that stayed put
\* and lies in every range the caller asked for, once: whatever was written
\* around it, however the pages were cut, empty pages and repeated ones
\* included.
StableItemsOnce ==
  pc = "done" => \A i \in Items : Asked(i) => Times(i) = 1

\* Nothing else is returned: no foreign item that shares the partition, no
\* key outside what the range methods say, no refinement forgotten.
NothingElse ==
  api # "Collect" =>
    \A n \in DOMAIN got : got[n].item \in Own /\ got[n].key \in asked

\* Items come in key order, across pages, so that one that does not move is
\* never returned twice even if it is deleted and written again.
InOrder ==
  \A m, n \in DOMAIN got : m < n => Precedes(got[m], got[n])

Reading == pc \in {"request", "yield"} /\ api # "Page"
Beyond(c) == {e \in Entry : c = None \/ Precedes(c, e)}

\* A bound on the steps that All and Collect have still to make: as many
\* pages as there are keys beyond the cursor, each of any size.
StepsLeft ==
  IF ~Reading THEN 0
  ELSE (Cardinality(Entry) + 2) * Cardinality(Beyond(cursor)) + 1
         + (IF pc = "request" THEN Cardinality(Entry) + 1 ELSE Cardinality(page))

\* Whatever others write, every page All or Collect ask for and every item
\* they hand out brings them nearer to the end, a page with nothing in it
\* included: no page is asked for twice.
QueryAdvances == [][Reading => StepsLeft' \in 0 .. StepsLeft - 1]_vars

\* All and Collect end although others keep writing: the cursor only moves on.
Ends == pc = "request" /\ api # "Page" ~> pc \in Resting
==============================================================================
