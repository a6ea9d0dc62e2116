---------------------------- MODULE TypedQueries -----------------------------
(***************************************************************************)
(* The queries generated for the patterns of a design                      *)
(* (internal/codegen/patterns.go and the query part of emit.go): from the  *)
(* static condition and the range methods of a pattern to a condition on   *)
(* the sort-key strings (runtime/query.go), and what the table returns.    *)
(* How the result is read in pages is QueryPaging's subject.               *)
(***************************************************************************)
EXTENDS TypedTable

------------------------------------------------------------------------------
(* Strings in byte order.                                                  *)

Less(s, t) ==
  \E i \in 1 .. Len(t) :
    /\ i <= Len(s) + 1
    /\ SubSeq(s, 1, i - 1) = SubSeq(t, 1, i - 1)
    /\ i = Len(s) + 1 \/ s[i] < t[i]
AtMost(s, t) == s = t \/ Less(s, t)

------------------------------------------------------------------------------
(* Sort-key conditions (runtime/query.go).                                 *)

SKCond(kind, lo, hi) == [kind |-> kind, lo |-> lo, hi |-> hi]
SKNone == SKCond("", <<>>, <<>>)
SKEmpty == SKCond("empty", <<>>, <<>>)
SKEq(v) == SKCond("eq", v, <<>>)
SKBegins(prefix) == SKCond("begins", prefix, <<>>)

SKAfter(scope, v) ==
  LET lo == v \o MaxKeySuffix
      hi == scope \o MaxKeySuffix
  IN  IF scope = <<>> THEN SKCond("gt", lo, <<>>)
      ELSE IF Less(hi, lo) THEN SKEmpty
      ELSE SKCond("between", lo, hi)

SKOnOrAfter(scope, v) ==
  LET hi == scope \o MaxKeySuffix
  IN  IF scope = <<>> THEN SKCond("gte", v, <<>>)
      ELSE IF Less(hi, v) THEN SKEmpty
      ELSE SKCond("between", v, hi)

SKBefore(scope, v, pred, predOK) ==
  IF scope = <<>> THEN SKCond("lt", v, <<>>)
  ELSE IF ~predOK THEN SKEmpty
  ELSE SKCond("between", scope, pred \o MaxKeySuffix)

SKOnOrBefore(scope, v) ==
  IF scope = <<>> THEN SKCond("lte", v \o MaxKeySuffix, <<>>)
  ELSE SKCond("between", scope, v \o MaxKeySuffix)

SKBetween(lo, hi) ==
  IF Less(hi, lo) THEN SKEmpty ELSE SKCond("between", lo, hi \o MaxKeySuffix)

\* What the service makes of a condition (BuildQueryInput).
Matches(cond, sk) ==
  CASE cond.kind = ""        -> TRUE
    [] cond.kind = "empty"   -> FALSE
    [] cond.kind = "eq"      -> sk = cond.lo
    [] cond.kind = "begins"  -> IsPrefix(cond.lo, sk)
    [] cond.kind = "lt"      -> Less(sk, cond.lo)
    [] cond.kind = "lte"     -> AtMost(sk, cond.lo)
    [] cond.kind = "gt"      -> Less(cond.lo, sk)
    [] cond.kind = "gte"     -> AtMost(cond.lo, sk)
    [] cond.kind = "between" -> AtMost(cond.lo, sk) /\ AtMost(sk, cond.hi)

\* The service refuses a BETWEEN whose bounds are the wrong way round.
Accepts(cond) == cond.kind = "between" => AtMost(cond.lo, cond.hi)

------------------------------------------------------------------------------
(* The view of a pattern (buildPatternView).  args maps the fields of its  *)
(* parameters to values.                                                   *)

SKOf(e, p) == e.keys[p.index].sk
Value(p) == p.value.segs
ArgFields(e, p) == FieldsOf(e.keys[p.index].pk) \cup FieldsOf(Value(p))
Args(n, p) == {[f \in ArgFields(Table[n], p) |-> row[f]] : row \in RowsOf(n)}

EncodeAt(e, t, i, vals) ==
  IF t[i].kind = "lit" THEN t[i].literal
  ELSE EncodeValue(t[i].enc, GoType(e.fields, t[i].field), vals[t[i].field])

\* Mutant of ValueString: a begins value is rendered as it was written.
ValueAsWritten(e, p, args, ensureDelim) ==
  Join([i \in DOMAIN Value(p) |-> EncodeAt(e, Value(p), i, args)])
    \o (IF p.value.delim THEN <<Hash>> ELSE <<>>)

\* valueExpr: the string of a condition value.
ValueString(e, p, args, ensureDelim) ==
  Join([i \in DOMAIN Value(p) |-> EncodeAt(e, Value(p), i, args)])
    \o (IF p.value.delim \/ ensureDelim THEN <<Hash>> ELSE <<>>)

Scope(e, p) == PrefixString(SKOf(e, p), LeadingLiteralCut(SKOf(e, p)))
Cut(e, p) == IF p.value = NoValue THEN LeadingLiteralCut(SKOf(e, p)) ELSE Len(Value(p))

CondKind(e, p) ==
  IF p.value # NoValue THEN p.cond
  ELSE IF SKOf(e, p) = NoSK \/ Scope(e, p) = <<>> THEN "" ELSE "implicit"

\* The prefix that begins and implicit conditions and the range methods use.
SKPrefix(e, p, args) ==
  IF p.value = NoValue THEN Scope(e, p)
  ELSE ValueString(e, p, args, Cut(e, p) < Len(SKOf(e, p)))

HasRange(e, p) ==
  /\ SKOf(e, p) # NoSK
  /\ CondKind(e, p) \in {"", "implicit", "begins"}
  /\ RangeEligible(SKOf(e, p), Cut(e, p), e.fields)
RangeSegment(e, p) == SKOf(e, p)[Cut(e, p) + 1]

\* The last placeholder of a condition value replaced by its predecessor.
BoundSegment(p) == Value(p)[Len(Value(p))]
PredOf(e, seg, vals) == Pred(seg.enc, GoType(e.fields, seg.field), vals[seg.field])
PredFull(e, p, args) ==
  Join([i \in DOMAIN Value(p) |->
          IF i = Len(Value(p)) THEN PredOf(e, BoundSegment(p), args)
          ELSE EncodeAt(e, Value(p), i, args)])

StaticCond(e, p, args) ==
  LET v == ValueString(e, p, args, FALSE)
      scope == Scope(e, p)
  IN  CASE CondKind(e, p) = "" -> SKNone
        [] CondKind(e, p) \in {"implicit", "begins"} -> SKBegins(SKPrefix(e, p, args))
        [] CondKind(e, p) = "eq"  -> SKEq(v)
        [] CondKind(e, p) = "gt"  -> SKAfter(scope, v)
        [] CondKind(e, p) = "gte" -> SKOnOrAfter(scope, v)
        [] CondKind(e, p) = "lte" -> SKOnOrBefore(scope, v)
        [] CondKind(e, p) = "lt"  -> SKBefore(scope, v, PredFull(e, p, args),
                                              PredOf(e, BoundSegment(p), args) # Refused)

\* A method of a pattern encodes all of its parameters, or fails.
CanQuery(e, p, args) ==
  /\ ~AnyRefused(KeyFunc(e, e.keys[p.index].pk, args))
  /\ \A i \in DOMAIN Value(p) : EncodeAt(e, Value(p), i, args) # Refused

\* After, Before and Between.
RangeEnc(e, p, v) ==
  EncodeValue(RangeSegment(e, p).enc, GoType(e.fields, RangeSegment(e, p).field), v)
After(e, p, args, v) ==
  SKAfter(SKPrefix(e, p, args), SKPrefix(e, p, args) \o RangeEnc(e, p, v))
Before(e, p, args, v) ==
  LET seg == RangeSegment(e, p)
      pred == Pred(seg.enc, GoType(e.fields, seg.field), v)
      prefix == SKPrefix(e, p, args)
  IN  SKBefore(prefix, prefix \o RangeEnc(e, p, v), prefix \o pred, pred # Refused)
Between(e, p, args, lo, hi) ==
  LET prefix == SKPrefix(e, p, args)
  IN  SKBetween(prefix \o RangeEnc(e, p, lo), prefix \o RangeEnc(e, p, hi))

------------------------------------------------------------------------------
(* What the table returns (spec and BuildQueryInput): the items of an      *)
(* index are those that have its key attributes, without their other       *)
(* attributes if it projects keys only; the filter keeps those whose       *)
(* entity-type attribute says that they are of the entity.                 *)

InIndex(item, e, ix) ==
  {PKAttrFor(ix)} \cup (IF ix \in Sorted(e) THEN {SKAttrFor(ix)} ELSE {}) \subseteq DOMAIN item.attrs

Projected(item, e, ix) ==
  DOMAIN item.attrs
    \cap (IF e.keys[ix].projection = "all" THEN DOMAIN item.attrs ELSE KeyAttrs(e))

\* Mutant of OfType: the filter is left out.
OfAnyType(item, e, ix) == TRUE

OfType(item, e, ix) == e.et \in Projected(item, e, ix) /\ item.attrs[e.et] = e.type

Result(e, p, args, cond) ==
  {it \in items :
     /\ InIndex(it, e, p.index)
     /\ it.attrs[PKAttrFor(p.index)] = KeyFunc(e, e.keys[p.index].pk, args)
     /\ SKOf(e, p) # NoSK => Matches(cond, Join(it.attrs[SKAttrFor(p.index)]))
     /\ OfType(it, e, p.index)}

------------------------------------------------------------------------------
(* What a caller wants of a pattern, in terms of the fields of the items.  *)
(* A field is compared at the granularity of its encoder: an upper-cased   *)
(* status in any case, an epoch in seconds.                                *)

Same(e, t, i, vals, args) == EncodeAt(e, t, i, vals) = EncodeAt(e, t, i, args)

ValueLess(enc, goType, v, w) ==
  CASE enc.name = "ulid" -> Less(Upper(v), Upper(w))
    [] enc.name = "hex"  -> Less(v, w)
    [] OTHER -> Number(enc, goType, v) < Number(enc, goType, w)

FieldLess(e, seg, v, w) == ValueLess(seg.enc, GoType(e.fields, seg.field), v, w)

\* The items of the entity in the partition of a pattern.
Members(n, p, args) ==
  LET e == Table[n]
  IN  {it \in items :
         /\ it.ent = n
         /\ \A i \in DOMAIN p.pk : Same(e, p.pk, i, Unmarshal(e, it.attrs), args)}

\* A bound on the first placeholder is one on the field's values; after
\* other placeholders it is one on the keys up to there, as strings.
Below(e, p, vals, args) ==
  LET n == Len(Value(p))
      seg == BoundSegment(p)
      head(v) == Join([i \in 1 .. n |-> EncodeAt(e, Value(p), i, v)])
  IN  IF n = LeadingLiteralCut(SKOf(e, p)) + 1
      THEN FieldLess(e, seg, vals[seg.field], args[seg.field])
      ELSE Less(head(vals), head(args))

SameHead(e, p, vals, args) == \A i \in DOMAIN Value(p) : Same(e, Value(p), i, vals, args)

\* A begins value that ends in the last placeholder of the key asks for a
\* prefix of its encoding.
Begins(e, p, vals, args) ==
  \A i \in DOMAIN Value(p) :
    \/ Same(e, Value(p), i, vals, args)
    \/ /\ i = Len(SKOf(e, p))
       /\ IsPrefix(EncodeAt(e, Value(p), i, args), EncodeAt(e, Value(p), i, vals))

Meets(e, p, vals, args) ==
  CASE p.value = NoValue -> TRUE
    [] p.value # NoValue /\ p.cond = "eq" -> SameHead(e, p, vals, args)
    [] p.value # NoValue /\ p.cond = "begins" -> Begins(e, p, vals, args)
    [] p.value # NoValue /\ p.cond = "lt" -> Below(e, p, vals, args)
    [] p.value # NoValue /\ p.cond = "lte" -> Below(e, p, vals, args) \/ SameHead(e, p, vals, args)
    [] p.value # NoValue /\ p.cond = "gte" -> ~Below(e, p, vals, args)
    [] p.value # NoValue /\ p.cond = "gt" ->
         ~(Below(e, p, vals, args) \/ SameHead(e, p, vals, args))

Wanted(n, p, args) ==
  {it \in Members(n, p, args) : Meets(Table[n], p, Unmarshal(Table[n], it.attrs), args)}

------------------------------------------------------------------------------
(* What the theorems about queries assume of designs and of their structs. *)
(* The gate checks none of it.                                             *)

\* Text is below the suffix that ends an upper bound ("\uffff", runtime.go 48).
TextBelowSuffix ==
  \A d \in DOMAIN Designs : \A n \in DOMAIN Designs[d] : \A row \in Rows[d][n] :
    LET fields == Designs[d][n].fields
    IN  \A f \in DOMAIN fields : fields[f].type = "string" =>
          \A i \in 1 .. Len(row[f]) : row[f][i] < MaxKeySuffix[1]

\* A template names no field twice with different encoders.
OneEncoderEach ==
  \A d \in DOMAIN Designs : \A n \in DOMAIN Designs[d] : \A a \in KeyAttrs(Designs[d][n]) :
    LET t == TemplateOf(Designs[d][n], a)
    IN  \A i, j \in Placeholders(t) : t[i].field = t[j].field => t[i].enc = t[j].enc

\* Keys take ULIDs of ASCII.  EncodeULID lets others through (encode.go
\* 147-150) and stores a text of fewer characters, which has not its place
\* in a range and is not decoded again.
AsciiULID(enc, v) == enc.name = "ulid" => AllAscii(v)
ULIDsAscii ==
  \A d \in DOMAIN Designs : \A n \in DOMAIN Designs[d] : \A a \in KeyAttrs(Designs[d][n]) :
    LET t == TemplateOf(Designs[d][n], a)
    IN  \A i \in Placeholders(t) : \A row \in Rows[d][n] : AsciiULID(t[i].enc, row[t[i].field])

\* Keys pad numbers that an int64 holds.  A uint64 can be greater, and then
\* its segment has no inverse: DecodePad parses an int64 (encode.go 94-97).
PadsFitInt64 ==
  \A d \in DOMAIN Designs : \A n \in DOMAIN Designs[d] : \A a \in KeyAttrs(Designs[d][n]) :
    LET t == TemplateOf(Designs[d][n], a)
    IN  \A i \in Placeholders(t) : t[i].enc.name = "pad" =>
          \A row \in Rows[d][n] : row[t[i].field][1] <= MaxInt64

\* The attribute that marks the items of an entity is nothing else in those
\* of another.
TypeMarksApart ==
  \A d \in DOMAIN Designs : \A n, m \in DOMAIN Designs[d] : n # m =>
    \/ Designs[d][n].et = Designs[d][m].et
    \/ Designs[d][n].et \notin FieldAttrs(Designs[d][m]) \cup KeyAttrs(Designs[d][m])

\* A static "lt" ends in the first placeholder of the sort key, or nothing is
\* literal before it: otherwise the run underflow shows what is lost.
BoundsFollowLiterals ==
  \A d \in DOMAIN Designs : \A n \in DOMAIN Designs[d] : \A x \in DOMAIN Designs[d][n].patterns :
    LET p == Designs[d][n].patterns[x]
        cut == LeadingLiteralCut(SKOf(Designs[d][n], p))
    IN  p.cond = "lt" /\ p.value # NoValue => cut = 0 \/ Len(Value(p)) = cut + 1

------------------------------------------------------------------------------
(* Properties.  Queries see the items alone, which change only in Put,     *)
(* Delete and Run, so it is enough to look while no builder is in use.     *)

Idle == verdict = "generated" /\ builder = None

Patterns(n) == {Table[n].patterns[x] : x \in DOMAIN Table[n].patterns}

\* A pattern's query returns the items of its entity whose fields meet the
\* declared condition, all of them and nothing else, whatever shares the
\* partition (README.md 44-47, docs/queries).
PatternsExact ==
  Idle => \A n \in Entities : \A p \in Patterns(n) : \A args \in Args(n, p) :
    CanQuery(Table[n], p, args) =>
      LET cond == StaticCond(Table[n], p, args)
      IN  Accepts(cond) /\ Result(Table[n], p, args, cond) = Wanted(n, p, args)

\* The field of an item that a range method is about, and the values the
\* method is asked about: those of the rows that the field's encoder takes.
FieldIn(e, p, it) == Unmarshal(e, it.attrs)[RangeSegment(e, p).field]

Bounds(n, p) ==
  {v \in {row[RangeSegment(Table[n], p).field] : row \in RowsOf(n)} : RangeEnc(Table[n], p, v) # Refused}

RangeAnswers(n, p, args, v, w) ==
  LET e == Table[n]
      seg == RangeSegment(e, p)
      returns(cond, S) == Accepts(cond) /\ Result(e, p, args, cond) = S
  IN  /\ returns(After(e, p, args, v),
                 {it \in Wanted(n, p, args) : FieldLess(e, seg, v, FieldIn(e, p, it))})
      /\ returns(Before(e, p, args, v),
                 {it \in Wanted(n, p, args) : FieldLess(e, seg, FieldIn(e, p, it), v)})
      /\ returns(Between(e, p, args, v, w),
                 {it \in Wanted(n, p, args) : /\ ~FieldLess(e, seg, FieldIn(e, p, it), v)
                                              /\ ~FieldLess(e, seg, w, FieldIn(e, p, it))})

\* After, Before and Between return, of what the pattern returns, the items
\* on that side of the value, in the order of the field's values; they never
\* send bounds the service refuses.
RangesExact ==
  Idle => \A n \in Entities : \A p \in Patterns(n) : \A args \in Args(n, p) :
    HasRange(Table[n], p) /\ CanQuery(Table[n], p, args) =>
      \A v, w \in Bounds(n, p) : RangeAnswers(n, p, args, v, w)

\* The string that is stored in a key attribute tells the key: no other item
\* has that string for other segments, and no struct would be given it.  What
\* the items are in sync and apart by is segments; DynamoDB has the strings.
StringsTellKeys ==
  Idle => \A it \in items : \A a \in KeyAttrs(Table[it.ent]) :
    /\ \A other \in items :
         a \in KeyAttrs(Table[other.ent]) /\ Join(other.attrs[a]) = Join(it.attrs[a])
           => other.attrs[a] = it.attrs[a]
    /\ \A n \in Entities : a \in KeyAttrs(Table[n]) => \A vals \in RowsOf(n) :
         LET key == KeyFunc(Table[n], TemplateOf(Table[n], a), vals)
         IN  ~AnyRefused(key) /\ Join(key) = Join(it.attrs[a]) => key = it.attrs[a]

\* The Go types that the engine has a case for: of the byte slices and arrays
\* that hex takes only the slices (keytmpl/encode.go 84-88), and not all the
\* integers (asInt64, 186-198).
EngineTakes(enc, goType) ==
  /\ enc.name = "hex" => goType = "[]byte"
  /\ enc.name = "pad" => goType \notin {"uint", "uint8", "uint16"}

\* The generator's own engine and the code it generates make the same key of
\* an item, if the engine takes the fields' types, and a stored key can be
\* taken apart again into the values that made it (keytmpl/encode.go 11-13
\* and 105-107; "upper/lower are normalizing: the stored form is canonical").
EngineAgrees ==
  Idle => \A it \in items : LET e == Table[it.ent]
                                vals == Unmarshal(e, it.attrs)
                            IN
    \A a \in KeyAttrs(e) : LET t == TemplateOf(e, a)
                               key == Join(it.attrs[a])
                               typed(f) == GoType(e.fields, f) IN
      /\ Split(key) = it.attrs[a]
      /\ Encode(t, e.fields, vals) =
           IF \A i \in Placeholders(t) : EngineTakes(t[i].enc, typed(t[i].field)) THEN key ELSE Refused
      /\ \E back \in Decode(t, key) : \A i \in Placeholders(t) :
           LET f == t[i].field
           IN  EncodeValue(t[i].enc, IF typed(f) = "time.Time" /\ t[i].enc.name # "rfc3339"
                                     THEN "int64" ELSE typed(f), back[f]) = it.attrs[a][i]
==============================================================================
