------------------------------ MODULE TypedTable -----------------------------
(***************************************************************************)
(* One table under the code that ddbgen generates for its design           *)
(* (internal/codegen/model.go and emit.go, runtime/expr.go): generate      *)
(* checks the design, and then items of all its entities are put, deleted  *)
(* and changed through update builders, at any time and in any order.      *)
(*                                                                         *)
(* A value of the entity-type attribute is a string, like a field's; the   *)
(* value of a key attribute is the sequence of its segments.  Puts are     *)
(* unconditional (those of unversioned entities, BatchPut, TransactPut);   *)
(* the version conditions of the others are VersionedClient's subject.     *)
(***************************************************************************)
EXTENDS SchemaChecks, FiniteSets

CONSTANTS
  Designs,   \* design name -> table (see SchemaChecks)
  Rows,      \* design name -> entity name -> structs its programs make
  Deltas,    \* what AddX is called with
  MaxCalls,  \* design name -> calls on one builder (a bound)
  MaxItems, MaxNumber, MaxRuns,  \* the other bounds of the instance
  None

VARIABLES
  design,    \* the design that generate is run on
  verdict,   \* what generate said of it
  items,     \* the items in the table
  builder    \* an update builder in use, or None

vars == <<design, verdict, items, builder>>

Table == Designs[design]
Entities == DOMAIN Table
RowsOf(e) == Rows[design][e]

\* What the parser can hand on; et names none of the key attributes, which no
\* check looks at.
ASSUME DesignsParse ==
  \A d \in DOMAIN Designs :
    /\ Parses(Designs[d])
    /\ \A e \in DOMAIN Designs[d] : Designs[d][e].et \notin KeyAttrs(Designs[d][e])

\* A field of a struct has a value of its Go type.
IsOf(goType, v) ==
  CASE goType = "string" -> v \in Seq(Char)
    [] goType = "[]byte" -> v \in Seq(Byte)
    [] goType \in ByteArrays -> v \in Seq(Byte) /\ Len(v) = ArrayLength[goType]
    [] OTHER -> v \in Seq(Int) /\ Len(v) = 1

ASSUME RowsTyped ==
  \A d \in DOMAIN Designs : \A e \in DOMAIN Designs[d] : \A row \in Rows[d][e] :
    LET fields == Designs[d][e].fields
    IN  \A f \in DOMAIN fields : IsOf(fields[f].type, row[f])
ASSUME BoundAssumption == MaxRuns \in Nat
ASSUME NoneAssumption == \A d \in DOMAIN Designs : None \notin DOMAIN Designs[d]

------------------------------------------------------------------------------
(* Key functions (buildKeyFunc): a field that occurs twice in a template   *)
(* is encoded once, as where it occurs first.                              *)

EncoderOf(t, f) ==
  t[CHOOSE i \in Placeholders(t) :
      t[i].field = f /\ \A j \in Placeholders(t) : t[j].field = f => i <= j].enc

KeyFunc(e, t, vals) ==
  [i \in DOMAIN t |->
     IF t[i].kind = "lit" THEN t[i].literal
     ELSE EncodeValue(EncoderOf(t, t[i].field), GoType(e.fields, t[i].field), vals[t[i].field])]

\* The primary key of an item, from the fields and as stored.
KeyOf(e, vals) ==
  <<KeyFunc(e, e.keys["main"].pk, vals), KeyFunc(e, e.keys["main"].sk, vals)>>
StoredKey(item) ==
  <<item.attrs[PKAttrFor("main")],
    IF "main" \in Sorted(Table[item.ent]) THEN item.attrs[SKAttrFor("main")] ELSE NoSK>>

KeyParams(e) == FieldsOf(e.keys["main"].pk) \cup FieldsOf(e.keys["main"].sk)

------------------------------------------------------------------------------
(* marshal and unmarshal.                                                  *)

AttrOf(e, f) == e.fields[f].attr
FieldAttrs(e) == {AttrOf(e, f) : f \in DOMAIN e.fields}

\* The fields, then the keys over them, then the entity type.
Marshal(e, vals) ==
  [a \in FieldAttrs(e) \cup KeyAttrs(e) \cup {e.et} |->
     CASE a = e.et -> e.type
       [] a # e.et /\ a \in KeyAttrs(e) -> KeyFunc(e, TemplateOf(e, a), vals)
       [] OTHER -> vals[CHOOSE f \in DOMAIN e.fields : AttrOf(e, f) = a]]

\* Mutant of CanMarshal: an error of an index key is forgotten.
CanMarshalMain(e, vals) ==
  \A a \in {b \in KeyAttrs(e) : b[1] = "main"} : ~AnyRefused(KeyFunc(e, TemplateOf(e, a), vals))

CanMarshal(e, vals) == \A a \in KeyAttrs(e) : ~AnyRefused(KeyFunc(e, TemplateOf(e, a), vals))

ZeroValue(goType) == IF goType \in {"string", "[]byte"} THEN <<>> ELSE <<0>>

Unmarshal(e, attrs) ==
  [f \in DOMAIN e.fields |->
     IF AttrOf(e, f) \in DOMAIN attrs THEN attrs[AttrOf(e, f)] ELSE ZeroValue(e.fields[f].type)]

------------------------------------------------------------------------------
(* The update methods an entity has (buildUpdateMethods).                  *)

IntTypes == {"int", "int32", "int64"} \cup Unsigned

\* The synthesized index keys a field feeds.
Refs(e, f) == {a \in KeyAttrs(e) : a[1] # "main" /\ f \in FieldsOf(TemplateOf(e, a))}

Sole(e, a) == Cardinality(Placeholders(TemplateOf(e, a))) = 1

HasSet(e, f) ==
  /\ f \in DOMAIN e.fields \ (KeyParams(e) \cup {e.version})
  /\ \A a \in Refs(e, f) : Sole(e, a)
HasRemove(e, f) == HasSet(e, f) /\ Refs(e, f) = {}
HasAdd(e, f) == HasRemove(e, f) /\ e.fields[f].type \in IntTypes

------------------------------------------------------------------------------
(* Code generation can fail: an encoder without a call for a type          *)
(* (encodeExpr), a condition off the template or a bound without a         *)
(* predecessor (buildPatternView).                                         *)

\* A key function encodes a field once, a condition value at each place.
KeyEncodes(e, t) ==
  \A f \in FieldsOf(t) :
    f \in DOMAIN e.fields /\ EncodesType(EncoderOf(t, f), e.fields[f].type)

ValueEncodes(e, segs) ==
  \A i \in Placeholders(segs) :
    segs[i].field \in DOMAIN e.fields /\ EncodesType(segs[i].enc, e.fields[segs[i].field].type)

HasPred(enc) == enc.name \in FixedEncoders \cup {"hex", "pad"}

PatternBuilds(e, p) ==
  LET segs == p.value.segs
      sk == e.keys[p.index].sk
  IN  p.value # NoValue /\ sk # NoSK =>
        /\ Aligns(sk, p.value, e.fields)
        /\ ValueEncodes(e, segs)
        /\ p.cond = "lt" => segs[Len(segs)].kind = "ph" /\ ~p.value.delim
                              /\ HasPred(segs[Len(segs)].enc)

Builds(table) ==
  \A e \in DOMAIN table :
    /\ \A a \in KeyAttrs(table[e]) : KeyEncodes(table[e], TemplateOf(table[e], a))
    /\ \A p \in DOMAIN table[e].patterns : PatternBuilds(table[e], table[e].patterns[p])

------------------------------------------------------------------------------
(* Update builders.  The clauses of an expression are kept by attribute:   *)
(* overlap says that an attribute is in two of them, which the service     *)
(* refuses.  asked (what the caller called, by field) and calls (how often)*)
(* are for the properties and the bound; runs counts the version clauses.  *)

Builder(e, vals) ==
  LET bad == AnyRefused(KeyOf(Table[e], vals)[1]) \/ AnyRefused(KeyOf(Table[e], vals)[2])
  IN  [ent |-> e, key |-> KeyOf(Table[e], vals), err |-> bad, overlap |-> FALSE,
       sets |-> <<>>, removes |-> {}, adds |-> <<>>, asked |-> <<>>, calls |-> 0, runs |-> 0]

Clauses(b) == DOMAIN b.sets \cup b.removes \cup DOMAIN b.adds
Empty(b) == Clauses(b) = {}

\* f with the entries of g, which win.
Overlay(f, g) == [x \in DOMAIN f \cup DOMAIN g |-> IF x \in DOMAIN g THEN g[x] ELSE f[x]]

\* The builder after a call for a field.
Called(b, f, op, v) == [b EXCEPT !.calls = @ + 1,
             !.asked = Overlay(@, [g \in {f} |-> [op |-> op, value |-> v]])]

\* UpdateExpr.Set of several attributes.
AppendSets(b, sets) ==
  [b EXCEPT !.sets = Overlay(@, sets), !.overlap = @ \/ Clauses(b) \cap DOMAIN sets # {}]

\* What SetX writes: the field, and the keys it feeds.
SyncedKey(e, a, f, v) == KeyFunc(e, TemplateOf(e, a), [g \in {f} |-> v])
FieldClause(e, f, v) == [a \in {AttrOf(e, f)} |-> v]
SetClauses(e, f, v) ==
  Overlay(FieldClause(e, f, v), [a \in Refs(e, f) |-> SyncedKey(e, a, f, v)])

\* Mutant of SetX: the keys are left as they were.
SetFieldOnly(b, f, v) == Called(AppendSets(b, FieldClause(Table[b.ent], f, v)), f, "set", v)

\* A key that cannot be encoded is an error, which comes after the field's
\* own clause is in.
SetX(b, f, v) ==
  LET e == Table[b.ent]
      sound == \A a \in Refs(e, f) : ~AnyRefused(SyncedKey(e, a, f, v))
      next == Called(b, f, "set", v)
  IN  IF sound THEN AppendSets(next, SetClauses(e, f, v))
      ELSE [AppendSets(next, FieldClause(e, f, v)) EXCEPT !.err = TRUE]

AddX(b, f, d) ==
  LET a == AttrOf(Table[b.ent], f)
  IN  [Called(b, f, "add", <<d>>) EXCEPT
         !.adds = Overlay(@, [x \in {a} |-> d]), !.overlap = @ \/ a \in Clauses(b)]

RemoveX(b, f) ==
  LET a == AttrOf(Table[b.ent], f)
  IN  [Called(b, f, "remove", <<>>) EXCEPT
         !.removes = @ \cup {a}, !.overlap = @ \/ a \in Clauses(b)]

VersionAttrs(e) == IF e.version = "" THEN {} ELSE {AttrOf(e, e.version)}

\* The service applies an expression: ADD and if_not_exists start from zero.
NumberAt(attrs, a) == IF a \in DOMAIN attrs THEN attrs[a][1] ELSE 0
Applied(b, attrs) ==
  LET e == Table[b.ent]
  IN  [a \in (DOMAIN attrs \ b.removes) \cup DOMAIN b.sets \cup DOMAIN b.adds \cup VersionAttrs(e) |->
         IF a \in DOMAIN b.sets THEN b.sets[a]
         ELSE IF a \in DOMAIN b.adds THEN <<NumberAt(attrs, a) + b.adds[a]>>
         ELSE IF a \in VersionAttrs(e) THEN <<NumberAt(attrs, a) + 1>>
         ELSE attrs[a]]

\* A second Run of a versioned builder has two version clauses.
Refusable(b) == b.overlap \/ (Table[b.ent].version # "" /\ b.runs > 0)

------------------------------------------------------------------------------
Init ==
  /\ design \in DOMAIN Designs
  /\ verdict = "unchecked"
  /\ items = {}
  /\ builder = None

\* generate: the checks, then the code.
Generate ==
  /\ verdict = "unchecked"
  /\ verdict' = IF ~Accepted(Table) THEN "refused"
                ELSE IF Builds(Table) THEN "generated" ELSE "failed"
  /\ UNCHANGED <<design, items, builder>>

Put(e, vals) ==
  LET new == [ent |-> e, attrs |-> Marshal(Table[e], vals)]
  IN  /\ verdict = "generated"
      /\ CanMarshal(Table[e], vals)
      /\ items' = {it \in items : StoredKey(it) # StoredKey(new)} \cup {new}
      /\ Cardinality(items') <= MaxItems
      /\ UNCHANGED <<design, verdict, builder>>

Delete(e, vals) ==
  /\ verdict = "generated"
  /\ ~Builder(e, vals).err
  /\ items' = {it \in items : StoredKey(it) # KeyOf(Table[e], vals)}
  /\ UNCHANGED <<design, verdict, builder>>

StartUpdate(e, vals) ==
  /\ verdict = "generated"
  /\ builder = None
  /\ builder' = Builder(e, vals)
  /\ UNCHANGED <<design, verdict, items>>

\* After an error a setter does nothing.
Setter ==
  /\ builder # None
  /\ ~builder.err
  /\ builder.calls < MaxCalls[design]
  /\ LET e == Table[builder.ent] IN
       \E f \in DOMAIN e.fields :
         \/ /\ HasSet(e, f)
            /\ \E r \in RowsOf(builder.ent) : builder' = SetX(builder, f, r[f])
         \/ HasAdd(e, f) /\ \E d \in Deltas : builder' = AddX(builder, f, d)
         \/ HasRemove(e, f) /\ builder' = RemoveX(builder, f)
  /\ UNCHANGED <<design, verdict, items>>

\* The instance's bound on versions and counters.
Bounded(item) ==
  LET e == Table[item.ent]
  IN  \A f \in DOMAIN e.fields \ KeyParams(e) :
        e.fields[f].type \in IntTypes => Unmarshal(e, item.attrs)[f][1] <= MaxNumber

\* Mutant of Run: an error of a setter is forgotten.
RunAnyway ==
  /\ builder # None /\ ~Empty(builder) /\ builder.runs < MaxRuns
  /\ builder' = [builder EXCEPT !.runs = @ + 1]
  /\ items' = {IF StoredKey(it) = builder.key /\ ~Refusable(builder)
                THEN [it EXCEPT !.attrs = Applied(builder, @)] ELSE it : it \in items}
  /\ UNCHANGED <<design, verdict>>

\* Run: nothing is written after an error, without a clause, without the
\* item, or with two clauses for one attribute.
Run ==
  /\ builder # None /\ ~builder.err /\ ~Empty(builder)
  /\ builder.runs < MaxRuns
  /\ builder' = [builder EXCEPT !.runs = @ + 1]
  /\ items' = {IF StoredKey(it) = builder.key /\ ~Refusable(builder)
                THEN [it EXCEPT !.attrs = Applied(builder, @)] ELSE it : it \in items}
  /\ \A it \in items' : Bounded(it)
  /\ UNCHANGED <<design, verdict>>

\* The caller is done with the builder.
Drop ==
  /\ builder # None
  /\ builder' = None
  /\ UNCHANGED <<design, verdict, items>>

Next ==
  \/ Generate
  \/ \E e \in Entities : \E vals \in RowsOf(e) : Put(e, vals) \/ Delete(e, vals)
  \/ \E e \in Entities : \E vals \in RowsOf(e) : StartUpdate(e, vals)
  \/ Setter
  \/ Run
  \/ Drop

Spec == Init /\ [][Next]_vars

------------------------------------------------------------------------------
(* Properties.                                                             *)

\* Every variable has the shape it should have; the names in a builder and
\* in an item are entities of the design, and an item has all the key
\* attributes of its entity, none of them made of a value refused.
TypeOK ==
  /\ design \in DOMAIN Designs
  /\ verdict \in {"unchecked", "refused", "failed", "generated"}
  /\ \A it \in items :
       /\ it.ent \in Entities
       /\ KeyAttrs(Table[it.ent]) \subseteq DOMAIN it.attrs
       /\ \A a \in KeyAttrs(Table[it.ent]) : ~AnyRefused(it.attrs[a])
  /\ builder # None => /\ builder.ent \in Entities
                       /\ builder.runs \in 0 .. MaxRuns
                       /\ builder.err \in BOOLEAN /\ builder.overlap \in BOOLEAN

\* What the checks accept can be generated: encoders, boundaries and
\* predecessors are decided twice, in analyze and in codegen, and the second
\* must not fail on a schema the first let through.
AcceptedBuilds == verdict # "failed"

\* "so index keys can never drift from the data" (emit.go 241-243): every
\* stored key attribute is what its template makes of the item's own fields,
\* whatever builders did to it.
KeysInSync ==
  \A it \in items : LET e == Table[it.ent] IN
    \A a \in KeyAttrs(e) :
      a \in DOMAIN it.attrs
        /\ it.attrs[a] = KeyFunc(e, TemplateOf(e, a), Unmarshal(e, it.attrs))

\* No entity can ever write the key of another's item, on the table or on an
\* index (DDB001): a Put or a Run of one never takes an item of the other.
EntitiesApart ==
  \A it \in items : \A g \in Entities \ {it.ent} : LET e == Table[g] IN
    \A ix \in DOMAIN e.keys \cap DOMAIN Table[it.ent].keys : \A vals \in RowsOf(g) :
      \/ KeyFunc(e, e.keys[ix].pk, vals) # it.attrs[PKAttrFor(ix)]
      \/ /\ ix \in Sorted(e) /\ ix \in Sorted(Table[it.ent])
         /\ KeyFunc(e, e.keys[ix].sk, vals) # it.attrs[SKAttrFor(ix)]

\* What a caller asked of a builder, as a change of the struct.
AskedOf(b, fields) ==
  LET e == Table[b.ent]
  IN  [f \in DOMAIN fields |->
         IF f \in DOMAIN b.asked
         THEN CASE b.asked[f].op = "set" -> b.asked[f].value
                [] b.asked[f].op = "add" -> <<fields[f][1] + b.asked[f].value[1]>>
                [] b.asked[f].op = "remove" -> ZeroValue(e.fields[f].type)
         ELSE IF f = e.version THEN <<fields[f][1] + 1>>
         ELSE fields[f]]

\* A Run writes all that was asked of an error-free builder and one version
\* step, to the one item of its key, or it writes nothing.
AllOrNothingStep ==
  builder # None /\ builder' # None /\ builder'.runs # builder.runs /\ items' # items =>
    /\ ~builder.err
    /\ \E old \in items : \E new \in items' :
         /\ items' = (items \ {old}) \cup {new}
         /\ StoredKey(old) = builder.key /\ StoredKey(new) = builder.key
         /\ new.ent = old.ent /\ old.ent = builder.ent
         /\ LET e == Table[builder.ent]
            IN  Unmarshal(e, new.attrs) = AskedOf(builder, Unmarshal(e, old.attrs))
RunIsAllOrNothing == [][AllOrNothingStep]_vars
==============================================================================
