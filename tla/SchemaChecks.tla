---------------------------- MODULE SchemaChecks -----------------------------
(***************************************************************************)
(* What generate accepts (internal/analyze/analyze.go, checks DDB001 to    *)
(* DDB008, and the rules of the marker parser that precede them).          *)
(*                                                                         *)
(* A table is a map from entity names to entities.  An entity is a record: *)
(* type and et (what marks its items, and the attribute it is in), version *)
(* and ttl (fields or ""), fields (name to Go type and attribute), keys    *)
(* (index name, with "main" for the table itself, to pk, sk and            *)
(* projection) and patterns (name to index, pk, cond and value).           *)
(*                                                                         *)
(* The attribute names pk, sk, gsi1pk, gsi1sk are written as the pairs of  *)
(* the index and the part; any other attribute is paired with "".          *)
(***************************************************************************)
EXTENDS KeyTemplates

Ranges == {"gt", "gte", "lt", "lte"}
Conds == {"", "eq", "begins", "between"} \cup Ranges
NoValue == [segs |-> <<>>, delim |-> FALSE]

PKAttrFor(ix) == <<ix, "pk">>
SKAttrFor(ix) == <<ix, "sk">>

Sorted(e) == {ix \in DOMAIN e.keys : e.keys[ix].sk # NoSK}
KeyAttrs(e) == {PKAttrFor(ix) : ix \in DOMAIN e.keys} \cup {SKAttrFor(ix) : ix \in Sorted(e)}

\* templatesOf: the template of a key attribute.
TemplateOf(e, a) == IF a[2] = "pk" THEN e.keys[a[1]].pk ELSE e.keys[a[1]].sk

------------------------------------------------------------------------------
(* The parser (internal/parser) and Compile (internal/schema).             *)

\* parsePatternMarker, and buildEntity's check of the index.
PatternParses(e, p) ==
  /\ p.index \in DOMAIN e.keys
  /\ IsTemplate(p.pk)
  /\ p.cond \in Conds
  /\ p.cond \in {"", "between"} => p.value = NoValue
  /\ p.cond \in {"eq", "begins"} => p.value # NoValue
  /\ p.value # NoValue => IsCondition(p.value)

\* Of the keys, only an index's has a projection: the table itself has all.
EntityParses(e) ==
  /\ "main" \in DOMAIN e.keys /\ e.keys["main"].projection = "all"
  /\ "" \notin DOMAIN e.fields
  /\ \A ix \in DOMAIN e.keys :
       /\ IsTemplate(e.keys[ix].pk)
       /\ e.keys[ix].sk = NoSK \/ IsTemplate(e.keys[ix].sk)
       /\ e.keys[ix].projection \in {"all", "keys_only"}
  /\ \A p \in DOMAIN e.patterns : PatternParses(e, e.patterns[p])

\* mergeIndexes: the entities agree on what a table or an index looks like.
Compiles(table) ==
  \A e, f \in DOMAIN table : \A ix \in DOMAIN table[e].keys \cap DOMAIN table[f].keys :
    /\ (table[e].keys[ix].sk = NoSK) = (table[f].keys[ix].sk = NoSK)
    /\ table[e].keys[ix].projection = table[f].keys[ix].projection

Parses(table) == Compiles(table) /\ \A e \in DOMAIN table : EntityParses(table[e])

------------------------------------------------------------------------------
(* The checks of one entity.                                               *)

\* DDB008.
NoReservedAttrs(e) ==
  /\ \A f \in DOMAIN e.fields : e.fields[f].attr \notin KeyAttrs(e) \cup {e.et}
  /\ \A f, g \in DOMAIN e.fields : e.fields[f].attr = e.fields[g].attr => f = g

\* encoderCompat: an unsigned type is any whose name begins with "uint".
EncoderCompat(enc, goType) ==
  CASE enc.name \in Strings -> goType = "string"
    [] enc.name = "rfc3339" -> goType = "time.Time"
    [] enc.name \in {"epoch", "epochms"} -> goType \in {"time.Time", "int64"}
    [] enc.name = "hex" -> goType \in {"[]byte"} \cup ByteArrays
    [] enc.name = "pad" -> goType \in {"int64", "uintptr"} \cup Unsigned

\* Mutant of PlaceholdersResolve: only the keys of the table are looked at.
MainPlaceholdersResolve(e) ==
  \A a \in {b \in KeyAttrs(e) : b[1] = "main"} : FieldsOf(TemplateOf(e, a)) \subseteq DOMAIN e.fields

\* DDB007 and DDB004.
PlaceholdersResolve(e) ==
  \A a \in KeyAttrs(e) : LET t == TemplateOf(e, a) IN
    \A i \in Placeholders(t) :
      /\ t[i].field \in DOMAIN e.fields
      /\ EncoderCompat(t[i].enc, e.fields[t[i].field].type)

\* DDB005.
VersionAndTTL(e) ==
  /\ e.version # "" => /\ e.version \in DOMAIN e.fields
                       /\ e.fields[e.version].type \in {"int", "int32", "int64"}
  /\ e.ttl # "" => e.ttl \in DOMAIN e.fields /\ e.fields[e.ttl].type = "int64"
  /\ \A a \in KeyAttrs(e) : FieldsOf(TemplateOf(e, a)) \cap ({e.version, e.ttl} \ {""}) = {}

\* DDB003, of a range without a value: what follows the literals is ordered.
Sortable(e, p) ==
  p.value = NoValue /\ p.cond \in Ranges \cup {"between"} /\ p.index \in Sorted(e)
    => LET t == e.keys[p.index].sk IN RangeEligible(t, LeadingLiteralCut(t), e.fields)

\* DDB002, and DDB003 of a range with a value.
Satisfiable(e, p) ==
  LET key == e.keys[p.index]
      segs == p.value.segs
      n == Len(segs)
  IN  /\ p.index # "main" => key.projection # "keys_only"
      /\ StructurallyEqual(p.pk, key.pk)
      /\ p.cond # "" => key.sk # NoSK
      /\ p.value # NoValue =>
           /\ Aligns(key.sk, p.value, e.fields)
           /\ p.cond = "eq" => n = Len(key.sk) /\ ~p.value.delim
           /\ p.cond = "begins" => ~(n = Len(key.sk) /\ p.value.delim)
           /\ p.cond \in Ranges => /\ segs[n].kind = "ph" /\ ~p.value.delim
                                   /\ FixedAt(segs, n, e.fields)

EntityPasses(e) ==
  /\ PlaceholdersResolve(e)
  /\ VersionAndTTL(e)
  /\ NoReservedAttrs(e)
  /\ \A p \in DOMAIN e.patterns : Sortable(e, e.patterns[p]) /\ Satisfiable(e, e.patterns[p])

------------------------------------------------------------------------------
(* The checks of a table.                                                  *)

\* canOverlap: could two templates render one string?
CanOverlap(s, t) ==
  /\ Len(s) = Len(t)
  /\ \A i \in Literals(s) \cap Literals(t) : s[i].literal = t[i].literal

\* Mutant of Disjoint: templates that differ are taken to be disjoint.
DifferingKeys(a, b) == ~StructurallyEqual(a.pk, b.pk) \/ ~StructurallyEqual(a.sk, b.sk)

\* DDB001: can two entities write the same key on an index?
Disjoint(a, b) ==
  \/ ~CanOverlap(a.pk, b.pk)
  \/ a.sk # NoSK /\ b.sk # NoSK /\ ~CanOverlap(a.sk, b.sk)

NoCollisions(table) ==
  \A e, f \in DOMAIN table : e # f =>
    \A ix \in DOMAIN table[e].keys \cap DOMAIN table[f].keys :
      Disjoint(table[e].keys[ix], table[f].keys[ix])

\* DDB006.
NoDuplicates(table) ==
  \A e, f \in DOMAIN table : e # f =>
    /\ table[e].type # table[f].type
    /\ DOMAIN table[e].patterns \cap DOMAIN table[f].patterns = {}

Accepted(table) ==
  /\ NoCollisions(table)
  /\ NoDuplicates(table)
  /\ \A e \in DOMAIN table : EntityPasses(table[e])
==============================================================================
