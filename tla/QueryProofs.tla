----------------------------- MODULE QueryProofs -----------------------------
(*****************************************************************************)
(* The queries that are generated for a pattern return the items that meet   *)
(* it, for every design that passes the gate and every table it can fill.    *)
(*                                                                           *)
(* A stored key is one segment for each part of its template, without        *)
(* delimiters (PlaceSegment, KeyIs); so two keys compare as their first      *)
(* segments that differ do (StringProofs), and those of a fixed width        *)
(* compare as the values do. What the items are must be known too: Kept      *)
(* says of every reachable state that an item is marked as its entity's,     *)
(* and that the fields its keys are made of are those of a struct.           *)
(*****************************************************************************)
EXTENDS KeyProofs, StringProofs

------------------------------------------------------------------------------
(* What is kept of stored items, besides that their keys are in sync.       *)

\* The fields that an entity's keys are made of.
KeyFields(e) == UNION {FieldsOf(TemplateOf(e, a)) : a \in KeyAttrs(e)}

\* An item is marked as its entity's, has attributes of that entity alone,
\* and the fields its keys are made of are those of a struct.
ItemKept(it) ==
  LET e == Table[it.ent]
  IN  /\ e.et \in DOMAIN it.attrs /\ it.attrs[e.et] = e.type
      /\ DOMAIN it.attrs \subseteq FieldAttrs(e) \cup KeyAttrs(e) \cup {e.et}
      /\ \A f \in KeyFields(e) :
           /\ AttrOf(e, f) \in DOMAIN it.attrs
           /\ \E r \in RowsOf(it.ent) : it.attrs[AttrOf(e, f)] = r[f]

\* What a builder will write keeps an item so.
BuilderKept(b) ==
  LET e == Table[b.ent]
  IN  ~b.err =>
        /\ DOMAIN b.sets \subseteq FieldAttrs(e) \cup KeyAttrs(e)
        /\ DOMAIN b.adds \cup b.removes \subseteq FieldAttrs(e)
        /\ \A f \in KeyFields(e) : AttrOf(e, f) \in DOMAIN b.sets =>
             \E r \in RowsOf(b.ent) : b.sets[AttrOf(e, f)] = r[f]

\* The inductive invariant of KeyProofs, and that items are kept so.
QInv ==
  /\ IInv
  /\ \A it \in items : ItemKept(it)
  /\ builder # None => BuilderKept(builder)

\* An accepted design has the fields its keys are made of.
LEMMA KeyFieldsAreFields ==
  ASSUME Accepted(Table), NEW n \in Entities, NEW f \in KeyFields(Table[n])
  PROVE  /\ f \in DOMAIN Table[n].fields
         /\ \E a \in KeyAttrs(Table[n]) : f \in FieldsOf(TemplateOf(Table[n], a))
  BY AcceptedEntity DEF KeyFields

\* The entity-type attribute is neither a field nor a key.
LEMMA EntityTypeAlone ==
  ASSUME design \in DOMAIN Designs, Accepted(Table), NEW n \in Entities
  PROVE  Table[n].et \notin FieldAttrs(Table[n]) \cup KeyAttrs(Table[n])
  BY EntityTypeApart, FieldAttrsApart DEF FieldAttrs

\* Put writes such an item.
LEMMA MarshalledKept ==
  ASSUME design \in DOMAIN Designs, Accepted(Table), NEW n \in Entities, NEW vals \in RowsOf(n)
  PROVE  ItemKept([ent |-> n, attrs |-> Marshal(Table[n], vals)])
<1> DEFINE e == Table[n]
           attrs == Marshal(e, vals)
<1>1. DOMAIN attrs = FieldAttrs(e) \cup KeyAttrs(e) \cup {e.et} /\ attrs[e.et] = e.type
  BY DEF Marshal
<1>2. ASSUME NEW f \in KeyFields(e)
      PROVE  AttrOf(e, f) \in DOMAIN attrs /\ attrs[AttrOf(e, f)] = vals[f]
  <2>1. f \in DOMAIN e.fields
    BY KeyFieldsAreFields
  <2>2. AttrOf(e, f) \in FieldAttrs(e) /\ AttrOf(e, f) \notin KeyAttrs(e) /\ AttrOf(e, f) # e.et
    BY <2>1, FieldAttrsApart DEF FieldAttrs
  <2>3. (CHOOSE g \in DOMAIN e.fields : AttrOf(e, g) = AttrOf(e, f)) = f
    BY <2>1, FieldAttrsApart
  <2> QED
    BY <2>2, <2>3 DEF Marshal
<1> HIDE DEF attrs
<1> QED
  BY <1>1, <1>2 DEF ItemKept, attrs

\* Run keeps an item so.
LEMMA AppliedKept ==
  ASSUME design \in DOMAIN Designs, Accepted(Table), NEW it, ItemSound(it), ItemKept(it),
         NEW b, ClausesSound(b), BuilderKept(b), ~b.err, b.ent = it.ent
  PROVE  ItemKept([it EXCEPT !.attrs = Applied(b, it.attrs)])
<1> DEFINE e == Table[it.ent]
           old == it.attrs
           new == Applied(b, old)
<1>1. it.ent \in Entities /\ DOMAIN it = {"ent", "attrs"}
  BY DEF ItemSound
<1>2. /\ DOMAIN new = (DOMAIN old \ b.removes) \cup DOMAIN b.sets \cup DOMAIN b.adds \cup VersionAttrs(e)
      /\ \A y \in DOMAIN b.sets : new[y] = b.sets[y]
      /\ \A y \in DOMAIN old \ (b.removes \cup DOMAIN b.sets \cup DOMAIN b.adds \cup VersionAttrs(e)) :
           new[y] = old[y]
  BY DEF Applied
<1>3. VersionAttrs(e) \subseteq FieldAttrs(e)
  <2>1. e.version # "" => e.version \in DOMAIN e.fields
    BY <1>1, AcceptedEntity DEF VersionAndTTL
  <2> QED
    BY <2>1 DEF VersionAttrs, FieldAttrs
<1>4. e.et \notin FieldAttrs(e) \cup KeyAttrs(e)
  BY <1>1, EntityTypeAlone
<1>5. /\ e.et \in DOMAIN old /\ old[e.et] = e.type
      /\ DOMAIN old \subseteq FieldAttrs(e) \cup KeyAttrs(e) \cup {e.et}
      /\ \A f \in KeyFields(e) :
           AttrOf(e, f) \in DOMAIN old /\ \E r \in RowsOf(it.ent) : old[AttrOf(e, f)] = r[f]
  BY DEF ItemKept
<1>6. /\ DOMAIN b.sets \subseteq FieldAttrs(e) \cup KeyAttrs(e)
      /\ DOMAIN b.adds \cup b.removes \subseteq FieldAttrs(e)
      /\ \A f \in KeyFields(e) : AttrOf(e, f) \in DOMAIN b.sets =>
           \E r \in RowsOf(it.ent) : b.sets[AttrOf(e, f)] = r[f]
  BY DEF BuilderKept
<1> HIDE DEF new, old
<1>7. /\ e.et \in DOMAIN new /\ new[e.et] = e.type
      /\ DOMAIN new \subseteq FieldAttrs(e) \cup KeyAttrs(e) \cup {e.et}
  BY <1>2, <1>3, <1>4, <1>5, <1>6
<1>8. ASSUME NEW f \in KeyFields(e)
      PROVE  AttrOf(e, f) \in DOMAIN new /\ \E r \in RowsOf(it.ent) : new[AttrOf(e, f)] = r[f]
  <2>1. PICK a \in KeyAttrs(e) : f \in FieldsOf(TemplateOf(e, a))
    BY <1>1, KeyFieldsAreFields
  <2> DEFINE x == AttrOf(e, f)
  <2>2. x \in Feeds(e, a)
    BY <2>1 DEF Feeds
  <2>3. x \notin b.removes \cup DOMAIN b.adds
    BY <2>2 DEF ClausesSound
  <2>4. x \notin VersionAttrs(e)
    BY <1>1, <2>2, VersionApart
  <2> HIDE DEF x
  <2>5. CASE x \in DOMAIN b.sets
    BY <1>2, <1>6, <2>5 DEF x
  <2>6. CASE x \notin DOMAIN b.sets
    BY <1>2, <1>5, <2>3, <2>4, <2>6 DEF x
  <2> QED
    BY <2>5, <2>6 DEF x
<1> DEFINE y == [it EXCEPT !.attrs = new]
<1>9. y.ent = it.ent /\ y.attrs = new
  BY <1>1
<1> HIDE DEF y
<1>10. ItemKept(y)
  BY <1>7, <1>8, <1>9 DEF ItemKept
<1> QED
  BY <1>10 DEF y, new, old

\* SetX, AddX and RemoveX keep a builder so.
LEMMA SetKept ==
  ASSUME design \in DOMAIN Designs, Accepted(Table), NEW b, BuilderTyped(b), BuilderKept(b), ~b.err,
         NEW f, HasSet(Table[b.ent], f), NEW r \in RowsOf(b.ent)
  PROVE  BuilderKept(SetX(b, f, r[f]))
<1> DEFINE e == Table[b.ent]
           v == r[f]
           op == "set"
           next == Called(b, f, op, v)
           sound == \A a \in Refs(e, f) : ~AnyRefused(SyncedKey(e, a, f, v))
           s == SetClauses(e, f, v)
           good == AppendSets(next, s)
           bad == AppendSets(next, FieldClause(e, f, v))
<1>0. b.ent \in Entities /\ f \in DOMAIN e.fields
  BY DEF BuilderTyped, HasSet
<1>1. /\ BuilderTyped(next)
      /\ next.ent = b.ent /\ next.sets = b.sets /\ next.removes = b.removes /\ next.adds = b.adds
  <2> HIDE DEF op, v
  <2> QED
    BY CalledFields
<1>2. SetX(b, f, v) = IF sound THEN good ELSE [bad EXCEPT !.err = TRUE]
  BY DEF SetX
<1>3. /\ DOMAIN s = {AttrOf(e, f)} \cup Refs(e, f)
      /\ s[AttrOf(e, f)] = v
  <2> HIDE DEF v
  <2> QED
    BY <1>0, SetClausesAre, ZenonT(60)
<1> HIDE DEF next, s
<1>4. /\ good.ent = b.ent /\ good.sets = Overlay(b.sets, s)
      /\ good.removes = b.removes /\ good.adds = b.adds
  BY <1>1, AppendFields
<1>5. BuilderTyped(bad)
  BY <1>1, AppendFields
<1> HIDE DEF good, bad, v
<1>6. BuilderKept(good)
  <2>1. /\ DOMAIN b.sets \subseteq FieldAttrs(e) \cup KeyAttrs(e)
        /\ DOMAIN b.adds \cup b.removes \subseteq FieldAttrs(e)
        /\ \A g \in KeyFields(e) : AttrOf(e, g) \in DOMAIN b.sets =>
             \E q \in RowsOf(b.ent) : b.sets[AttrOf(e, g)] = q[g]
    BY DEF BuilderKept
  <2>2. DOMAIN good.sets = DOMAIN b.sets \cup DOMAIN s
        /\ \A x \in DOMAIN good.sets : good.sets[x] = IF x \in DOMAIN s THEN s[x] ELSE b.sets[x]
    BY <1>4 DEF Overlay
  <2>3. AttrOf(e, f) \in FieldAttrs(e) /\ Refs(e, f) \subseteq KeyAttrs(e)
    BY <1>0 DEF FieldAttrs, Refs
  <2>4. ASSUME NEW g \in KeyFields(e), AttrOf(e, g) \in DOMAIN good.sets
        PROVE  \E q \in RowsOf(b.ent) : good.sets[AttrOf(e, g)] = q[g]
    <3>1. g \in DOMAIN e.fields
      BY <1>0, KeyFieldsAreFields
    <3>2. AttrOf(e, g) \notin Refs(e, f)
      BY <1>0, <2>3, <3>1, FieldAttrsApart
    <3>3. CASE AttrOf(e, g) = AttrOf(e, f)
      <4>1. g = f
        BY <1>0, <3>1, <3>3, FieldAttrsApart
      <4> QED
        BY <1>3, <2>2, <3>3, <4>1 DEF v
    <3>4. CASE AttrOf(e, g) # AttrOf(e, f)
      <4>1. AttrOf(e, g) \in DOMAIN b.sets /\ good.sets[AttrOf(e, g)] = b.sets[AttrOf(e, g)]
        BY <1>3, <2>2, <2>4, <3>2, <3>4
      <4> QED
        BY <2>1, <4>1
    <3> QED
      BY <3>3, <3>4
  <2>5. DOMAIN good.sets \subseteq FieldAttrs(e) \cup KeyAttrs(e)
    BY <1>3, <2>1, <2>2, <2>3
  <2> QED
    BY <1>4, <2>1, <2>4, <2>5 DEF BuilderKept
<1> DEFINE c == [bad EXCEPT !.err = TRUE]
<1>7. c.err
  BY <1>5 DEF BuilderTyped, BuilderFields
<1> HIDE DEF c
<1>8. BuilderKept(c)
  BY <1>7 DEF BuilderKept
<1> QED
  BY <1>2, <1>6, <1>8 DEF c, v

LEMMA AddKept ==
  ASSUME NEW b, BuilderTyped(b), BuilderKept(b), ~b.err, NEW f, HasAdd(Table[b.ent], f), NEW d
  PROVE  BuilderKept(AddX(b, f, d))
<1> DEFINE c == AddX(b, f, d)
           e == Table[b.ent]
<1>1. c.ent = b.ent /\ c.err = b.err /\ c.sets = b.sets /\ c.removes = b.removes
      /\ DOMAIN c.adds = DOMAIN b.adds \cup {AttrOf(e, f)}
  BY AddFields DEF Overlay
<1> HIDE DEF c
<1>2. AttrOf(e, f) \in FieldAttrs(e)
  BY DEF HasAdd, HasRemove, HasSet, FieldAttrs
<1> QED
  BY <1>1, <1>2 DEF BuilderKept, c

LEMMA RemoveKept ==
  ASSUME NEW b, BuilderTyped(b), BuilderKept(b), ~b.err, NEW f, HasRemove(Table[b.ent], f)
  PROVE  BuilderKept(RemoveX(b, f))
<1> DEFINE c == RemoveX(b, f)
           e == Table[b.ent]
<1>1. c.ent = b.ent /\ c.err = b.err /\ c.sets = b.sets /\ c.adds = b.adds
      /\ c.removes = b.removes \cup {AttrOf(e, f)}
  BY RemoveFields
<1> HIDE DEF c
<1>2. AttrOf(e, f) \in FieldAttrs(e)
  BY DEF HasRemove, HasSet, FieldAttrs
<1> QED
  BY <1>1, <1>2 DEF BuilderKept, c

LEMMA NewBuilderKept ==
  ASSUME NEW n, NEW vals
  PROVE  BuilderKept(Builder(n, vals))
<1>1. LET b == Builder(n, vals) IN DOMAIN b.sets = {} /\ b.removes = {} /\ DOMAIN b.adds = {}
  BY DEF Builder
<1> QED
  BY <1>1 DEF BuilderKept

\* A step that leaves the design alone leaves these facts alone.
LEMMA SameDesignKept ==
  ASSUME design' = design
  PROVE  /\ \A it : ItemKept(it) => ItemKept(it)'
         /\ BuilderKept(builder') => BuilderKept(builder)'
<1>1. Table' = Table /\ \A n : RowsOf(n)' = RowsOf(n)
  BY DEF Table, RowsOf
<1> QED
  BY <1>1 DEF ItemKept, BuilderKept

LEMMA KeptInit == Init => QInv
  BY InitInvariant DEF Init, QInv

LEMMA KeptStep == QInv /\ [Next]_vars => QInv'
<1> SUFFICES ASSUME QInv, [Next]_vars PROVE QInv'
  OBVIOUS
<1>0. IInv /\ IInv' /\ (verdict = "generated" => Accepted(Table)) /\ design \in DOMAIN Designs
  BY StepInvariant DEF QInv, IInv
<1>1. ASSUME design' = design, \A it \in items' : ItemKept(it), builder' # None => BuilderKept(builder')
      PROVE  QInv'
  <2>1. \A it \in items' : ItemKept(it)'
    BY <1>1, SameDesignKept
  <2> QED
    BY <1>0, <1>1, <2>1, SameDesignKept DEF QInv
<1>2. CASE UNCHANGED vars
  BY <1>1, <1>2 DEF QInv, vars
<1>3. CASE Generate
  BY <1>1, <1>3 DEF QInv, Generate
<1>4. ASSUME NEW n \in Entities, NEW vals \in RowsOf(n), Put(n, vals)
      PROVE  QInv'
  <2> DEFINE new == [ent |-> n, attrs |-> Marshal(Table[n], vals)]
  <2>1. verdict = "generated" /\ UNCHANGED <<design, verdict, builder>>
    BY <1>4 DEF Put
  <2>2. items' \subseteq items \cup {new}
    BY <1>4 DEF Put
  <2>3. ItemKept(new)
    BY <1>0, <2>1, MarshalledKept
  <2> HIDE DEF new
  <2> QED
    BY <1>1, <2>1, <2>2, <2>3 DEF QInv
<1>5. ASSUME NEW n \in Entities, NEW vals \in RowsOf(n), Delete(n, vals)
      PROVE  QInv'
  <2>1. items' \subseteq items
    BY <1>5 DEF Delete
  <2> QED
    BY <1>1, <1>5, <2>1 DEF QInv, Delete
<1>6. ASSUME NEW n \in Entities, NEW vals \in RowsOf(n), StartUpdate(n, vals)
      PROVE  QInv'
  <2>1. BuilderKept(Builder(n, vals))
    BY NewBuilderKept
  <2> QED
    BY <1>1, <1>6, <2>1 DEF QInv, StartUpdate
<1>7. CASE Setter
  <2> DEFINE e == Table[builder.ent]
  <2>1. /\ builder # None /\ ~builder.err /\ Accepted(Table)
        /\ design \in DOMAIN Designs /\ BuilderTyped(builder) /\ BuilderKept(builder)
        /\ UNCHANGED <<design, verdict, items>>
    BY <1>0, <1>7 DEF Setter, QInv, IInv, BuilderSound
  <2>2. PICK f \in DOMAIN e.fields :
          \/ HasSet(e, f) /\ \E r \in RowsOf(builder.ent) : builder' = SetX(builder, f, r[f])
          \/ HasAdd(e, f) /\ \E d \in Deltas : builder' = AddX(builder, f, d)
          \/ HasRemove(e, f) /\ builder' = RemoveX(builder, f)
    BY <1>7 DEF Setter
  <2>3. ASSUME HasSet(e, f), NEW r \in RowsOf(builder.ent), builder' = SetX(builder, f, r[f])
        PROVE  BuilderKept(builder')
    BY <2>1, <2>3, SetKept
  <2>4. ASSUME HasAdd(e, f), NEW d, builder' = AddX(builder, f, d)
        PROVE  BuilderKept(builder')
    BY <2>1, <2>4, AddKept
  <2>5. ASSUME HasRemove(e, f), builder' = RemoveX(builder, f)
        PROVE  BuilderKept(builder')
    BY <2>1, <2>5, RemoveKept
  <2>6. BuilderKept(builder')
    BY <2>2, <2>3, <2>4, <2>5
  <2> QED
    BY <1>1, <2>1, <2>6 DEF QInv
<1>8. CASE Run
  <2>1. /\ builder # None /\ ~builder.err /\ Accepted(Table)
        /\ design \in DOMAIN Designs /\ BuilderTyped(builder) /\ ClausesSound(builder)
        /\ BuilderKept(builder) /\ UNCHANGED <<design, verdict>>
    BY <1>0, <1>8 DEF Run, QInv, IInv, BuilderSound
  <2>2. builder' = [builder EXCEPT !.runs = builder.runs + 1]
    BY <1>8 DEF Run
  <2>3. BuilderKept(builder')
    <3>1. /\ builder'.ent = builder.ent /\ builder'.err = builder.err
          /\ builder'.sets = builder.sets /\ builder'.removes = builder.removes
          /\ builder'.adds = builder.adds
      BY <2>1, <2>2 DEF BuilderTyped, BuilderFields
    <3> QED
      BY <2>1, <3>1 DEF BuilderKept
  <2>4. ASSUME NEW it \in items, StoredKey(it) = builder.key
        PROVE  ItemKept([it EXCEPT !.attrs = Applied(builder, it.attrs)])
    <3>1. ItemSound(it) /\ ItemKept(it)
      BY <1>0 DEF IInv, QInv
    <3>2. PICK vals : builder.key = KeyOf(Table[builder.ent], vals)
      BY <2>1 DEF BuilderTyped
    <3>3. builder.ent = it.ent
      BY <2>1, <2>4, <3>1, <3>2, SameKeySameEntity DEF BuilderTyped
    <3> QED
      BY <2>1, <3>1, <3>3, AppliedKept
  <2>5. \A new \in items' : \E it \in items :
          new = it \/ (StoredKey(it) = builder.key /\ new = [it EXCEPT !.attrs = Applied(builder, it.attrs)])
    BY <1>8 DEF Run
  <2>6. \A it \in items' : ItemKept(it)
    BY <2>4, <2>5 DEF QInv
  <2> QED
    BY <1>1, <2>1, <2>3, <2>6
<1>9. CASE Drop
  BY <1>1, <1>9 DEF QInv, Drop
<1> QED
  BY <1>2, <1>3, <1>4, <1>5, <1>6, <1>7, <1>8, <1>9 DEF Next

\* Of every state: items are marked as their entity's, and their keys are made
\* of the values of structs.
LEMMA Kept == Spec => []QInv
  BY KeptInit, KeptStep, PTL DEF Spec

------------------------------------------------------------------------------
(* Keys of items, segment by segment.                                       *)

\* The checked design of a run, of which an entity is looked at.
Checked(n) == design \in DOMAIN Designs /\ Accepted(Table) /\ n \in Entities

\* Values of fields that structs of the entity have.
FromRows(n, fs, vals) == \A f \in fs : \E r \in RowsOf(n) : vals[f] = r[f]

\* A placeholder of an accepted design takes the values of its field.
LEMMA PlaceTakes ==
  ASSUME NEW n, NEW a, NEW i, NEW r, Checked(n), a \in KeyAttrs(Table[n]),
         i \in Placeholders(TemplateOf(Table[n], a)), r \in RowsOf(n)
  PROVE  LET e == Table[n]
             seg == TemplateOf(e, a)[i]
         IN  /\ seg.field \in DOMAIN e.fields
             /\ GoType(e.fields, seg.field) = e.fields[seg.field].type
             /\ Takes(seg.enc, GoType(e.fields, seg.field), r[seg.field])
<1> DEFINE e == Table[n]
           t == TemplateOf(e, a)
           seg == t[i]
<1>1. IsSegment(seg) /\ seg.kind = "ph"
  BY KeyTemplatesWellFormed DEF Checked, WellFormed, Placeholders
<1>2. Known(seg.enc)
  BY <1>1 DEF IsSegment, Known
<1>3. seg.field \in DOMAIN e.fields /\ EncoderCompat(seg.enc, e.fields[seg.field].type)
  <2>1. PlaceholdersResolve(e)
    BY DEF Checked, Accepted, EntityPasses, Entities
  <2> QED
    BY <2>1 DEF PlaceholdersResolve
<1>4. GoType(e.fields, seg.field) = e.fields[seg.field].type
  BY <1>3 DEF GoType
<1>5. IsOf(e.fields[seg.field].type, r[seg.field])
  BY <1>3, RowsTyped DEF Checked, Table, Entities, RowsOf
<1> QED
  BY <1>2, <1>3, <1>4, <1>5 DEF Takes

\* A literal is text without a delimiter.
LEMMA LiteralSegment ==
  ASSUME NEW n, NEW a, NEW i, Checked(n), a \in KeyAttrs(Table[n]),
         i \in Literals(TemplateOf(Table[n], a))
  PROVE  TemplateOf(Table[n], a)[i].literal \in HashFree /\ TemplateOf(Table[n], a)[i].literal # <<>>
<1> DEFINE t == TemplateOf(Table[n], a)
           x == t[i].literal
<1>1. IsSegment(t[i]) /\ t[i].kind = "lit" /\ t[i] \in Segments
  <2>1. WellFormed(t) /\ i \in Literals(t)
    BY KeyTemplatesWellFormed DEF Checked
  <2> HIDE DEF t
  <2>2. t \in Seq(Segments) /\ i \in 1 .. Len(t)
    BY <2>1 DEF WellFormed, Literals
  <2> QED
    BY <2>1, <2>2 DEF WellFormed, Literals
<1>2. x # <<>> /\ {Hash, 123, 125} \cap ToSet(x) = {} /\ x \in Seq(Int)
  <2>1. x \in Seq(Int)
    BY <1>1 DEF Segments
  <2>2. x # <<>> /\ {Hash, 123, 125} \cap ToSet(x) = {}
    BY <1>1 DEF IsSegment
  <2> QED
    BY <2>1, <2>2
<1> HIDE DEF x
<1>3. \A k \in 1 .. Len(x) : x[k] # Hash
  BY <1>2 DEF ToSet
<1> QED
  BY <1>2, <1>3 DEF HashFree, Str, x

\* Every part of a key is a segment.
LEMMA PlaceSegment ==
  ASSUME NEW n, NEW a, NEW i, NEW vals, Checked(n), a \in KeyAttrs(Table[n]),
         i \in DOMAIN TemplateOf(Table[n], a),
         TemplateOf(Table[n], a)[i].kind = "ph" =>
           \E r \in RowsOf(n) : vals[TemplateOf(Table[n], a)[i].field] = r[TemplateOf(Table[n], a)[i].field],
         EncodeAt(Table[n], TemplateOf(Table[n], a), i, vals) # Refused
  PROVE  /\ EncodeAt(Table[n], TemplateOf(Table[n], a), i, vals) \in HashFree
         /\ EncodeAt(Table[n], TemplateOf(Table[n], a), i, vals) # <<>>
<1> DEFINE e == Table[n]
           t == TemplateOf(e, a)
<1>0. t[i].kind \in {"lit", "ph"}
  BY KeyTemplatesWellFormed DEF Checked, WellFormed, IsSegment
<1>1. CASE t[i].kind = "lit"
  BY <1>1, LiteralSegment DEF EncodeAt, Literals
<1>2. CASE t[i].kind = "ph"
  <2>1. i \in Placeholders(t) /\ t[i].field \in FieldsOf(t)
    BY <1>2 DEF Placeholders, FieldsOf
  <2>2. PICK r \in RowsOf(n) : vals[t[i].field] = r[t[i].field]
    BY <1>2
  <2>3. Takes(t[i].enc, GoType(e.fields, t[i].field), vals[t[i].field])
    BY <2>1, <2>2, PlaceTakes
  <2>4. EncodeAt(e, t, i, vals) = EncodeValue(t[i].enc, GoType(e.fields, t[i].field), vals[t[i].field])
    BY <1>2 DEF EncodeAt
  <2> QED
    BY <2>3, <2>4, EncodedSegment
<1> QED
  BY <1>0, <1>1, <1>2

\* With one encoder for a field, a key function encodes each place as the
\* template says.
LEMMA KeySegments ==
  ASSUME NEW n, NEW a, NEW vals, Checked(n), OneEncoderEach, a \in KeyAttrs(Table[n])
  PROVE  LET e == Table[n]
             t == TemplateOf(e, a)
         IN  KeyFunc(e, t, vals) = [i \in DOMAIN t |-> EncodeAt(e, t, i, vals)]
<1> DEFINE e == Table[n]
           t == TemplateOf(e, a)
<1>1. WellFormed(t)
  BY KeyTemplatesWellFormed DEF Checked
<1>2. \A i, j \in Placeholders(t) : t[i].field = t[j].field => t[i].enc = t[j].enc
  BY DEF OneEncoderEach, Checked, Table, Entities
<1>3. ASSUME NEW i \in DOMAIN t, t[i].kind # "lit"
      PROVE  EncoderOf(t, t[i].field) = t[i].enc
  <2>1. i \in Placeholders(t) /\ t[i].field \in FieldsOf(t)
    BY <1>1, <1>3 DEF WellFormed, IsSegment, Placeholders, FieldsOf
  <2>2. PICK j \in Placeholders(t) : t[j].field = t[i].field /\ EncoderOf(t, t[i].field) = t[j].enc
    BY <1>1, <2>1, EncoderOfPlace
  <2> QED
    BY <1>2, <2>1, <2>2
<1> HIDE DEF t
<1> QED
  BY <1>3 DEF KeyFunc, EncodeAt, t

\* A key of the values, segment by segment.
Encodes(w, e, t, vals) ==
  /\ w \in Seq(HashFree) /\ Len(w) = Len(t)
  /\ \A i \in 1 .. Len(t) : w[i] = EncodeAt(e, t, i, vals) /\ w[i] # <<>> /\ w[i] # Refused

\* A key function that does not fail encodes each part of its template.
LEMMA KeyIs ==
  ASSUME NEW n, NEW a, NEW vals, Checked(n), OneEncoderEach, a \in KeyAttrs(Table[n]),
         FromRows(n, FieldsOf(TemplateOf(Table[n], a)), vals),
         ~AnyRefused(KeyFunc(Table[n], TemplateOf(Table[n], a), vals))
  PROVE  LET e == Table[n]
             t == TemplateOf(e, a)
         IN  Encodes(KeyFunc(e, t, vals), e, t, vals)
<1> DEFINE e == Table[n]
           t == TemplateOf(e, a)
           w == KeyFunc(e, t, vals)
<1>1. Len(t) \in Nat /\ DOMAIN t = 1 .. Len(t)
  BY KeyTemplatesWellFormed DEF Checked, WellFormed
<1>2. w = [i \in DOMAIN t |-> EncodeAt(e, t, i, vals)]
  BY KeySegments
<1>3. ASSUME NEW i \in 1 .. Len(t)
      PROVE  w[i] = EncodeAt(e, t, i, vals) /\ w[i] # <<>> /\ w[i] \in HashFree /\ w[i] # Refused
  <2>1. i \in DOMAIN t /\ i \in DOMAIN w
    BY <1>1, <1>2
  <2>2. w[i] = EncodeAt(e, t, i, vals)
    BY <1>2, <2>1
  <2>3. w[i] # Refused
    BY <2>1 DEF AnyRefused
  <2>6. t[i].kind = "ph" => \E r \in RowsOf(n) : vals[t[i].field] = r[t[i].field]
    BY <2>1 DEF FromRows, FieldsOf, Placeholders
  <2> HIDE DEF w, t, e
  <2>4. EncodeAt(e, t, i, vals) # Refused
    BY <2>2, <2>3
  <2>5. EncodeAt(e, t, i, vals) \in HashFree /\ EncodeAt(e, t, i, vals) # <<>>
    BY <2>1, <2>4, <2>6, PlaceSegment DEF e, t
  <2> QED
    BY <2>2, <2>3, <2>5
<1> DEFINE m == Len(t)
<1>4. w \in [1 .. m -> HashFree]
  <2> HIDE DEF w
  <2> QED
    BY <1>1, <1>2, <1>3
<1>5. w \in Seq(HashFree) /\ Len(w) = Len(t)
  <2> HIDE DEF w, t
  <2> QED
    BY <1>1, <1>4, FunctionIsSeq
<1> QED
  BY <1>3, <1>5 DEF Encodes

\* What the parser and the checks say of a pattern.
LEMMA PatternFacts ==
  ASSUME NEW n, NEW p, Checked(n), p \in Patterns(n)
  PROVE  LET e == Table[n]
         IN  /\ p.index \in DOMAIN e.keys /\ PatternParses(e, p)
             /\ e.keys[p.index].projection = "all"
             /\ p.pk = e.keys[p.index].pk /\ Sortable(e, p) /\ Satisfiable(e, p)
<1> DEFINE e == Table[n]
<1>1. PICK x \in DOMAIN e.patterns : p = e.patterns[x]
  BY DEF Patterns
<1>2. EntityParses(e)
  BY DesignsParse DEF Checked, Parses, Table, Entities
<1>3. Sortable(e, p) /\ Satisfiable(e, p)
  BY <1>1 DEF Checked, Accepted, EntityPasses, Entities
<1> HIDE DEF e
<1>4. PatternParses(e, p)
  BY <1>1, <1>2 DEF EntityParses
<1>5. p.index \in DOMAIN e.keys
  BY <1>4 DEF PatternParses
<1>6. e.keys[p.index].projection = "all"
  BY <1>2, <1>3, <1>5 DEF EntityParses, Satisfiable
<1>7. p.pk = e.keys[p.index].pk
  BY <1>3 DEF Satisfiable, StructurallyEqual
<1> QED
  BY <1>3, <1>4, <1>5, <1>6, <1>7 DEF e

\* The filter keeps the items of the entity.
LEMMA MarkTells ==
  ASSUME NEW n, NEW ix, NEW it, Checked(n), TypeMarksApart, ItemSound(it), ItemKept(it),
         Table[n].keys[ix].projection = "all"
  PROVE  OfType(it, Table[n], ix) <=> it.ent = n
<1> DEFINE e == Table[n]
           m == Table[it.ent]
<1>1. it.ent \in Entities
  BY DEF ItemSound
<1>2. OfType(it, e, ix) <=> e.et \in DOMAIN it.attrs /\ it.attrs[e.et] = e.type
  BY DEF OfType, Projected
<1>3. /\ m.et \in DOMAIN it.attrs /\ it.attrs[m.et] = m.type
      /\ DOMAIN it.attrs \subseteq FieldAttrs(m) \cup KeyAttrs(m) \cup {m.et}
  BY DEF ItemKept
<1>4. ASSUME it.ent # n, e.et \in DOMAIN it.attrs, it.attrs[e.et] = e.type PROVE FALSE
  <2>1. e.type # m.type
    BY <1>1, <1>4 DEF Checked, Accepted, NoDuplicates, Entities
  <2>2. e.et = m.et \/ e.et \notin FieldAttrs(m) \cup KeyAttrs(m)
    BY <1>1, <1>4 DEF TypeMarksApart, Checked, Table, Entities
  <2> QED
    BY <1>3, <1>4, <2>1, <2>2
<1> QED
  BY <1>2, <1>3, <1>4

\* The values that an item's keys are made of.
LEMMA ItemValues ==
  ASSUME NEW it, NEW a, Checked(it.ent), ItemKept(it), a \in KeyAttrs(Table[it.ent])
  PROVE  FromRows(it.ent, FieldsOf(TemplateOf(Table[it.ent], a)), Unmarshal(Table[it.ent], it.attrs))
<1> DEFINE e == Table[it.ent]
           fs == FieldsOf(TemplateOf(e, a))
           vals == Unmarshal(e, it.attrs)
<1>1. ASSUME NEW f \in fs
      PROVE  \E r \in RowsOf(it.ent) : vals[f] = r[f]
  <2>1. f \in KeyFields(e)
    BY DEF KeyFields
  <2>2. f \in DOMAIN e.fields
    BY <2>1, KeyFieldsAreFields DEF Checked
  <2>3. AttrOf(e, f) \in DOMAIN it.attrs /\ \E r \in RowsOf(it.ent) : it.attrs[AttrOf(e, f)] = r[f]
    BY <2>1 DEF ItemKept
  <2>4. vals[f] = it.attrs[AttrOf(e, f)]
    BY <2>2, <2>3 DEF Unmarshal
  <2> QED
    BY <2>3, <2>4
<1> QED
  BY <1>1 DEF FromRows

\* The attributes of an index, and their templates.
LEMMA KeyAttrOf ==
  ASSUME NEW e, NEW ix \in DOMAIN e.keys
  PROVE  /\ PKAttrFor(ix) \in KeyAttrs(e) /\ TemplateOf(e, PKAttrFor(ix)) = e.keys[ix].pk
         /\ e.keys[ix].sk # NoSK => /\ ix \in Sorted(e) /\ SKAttrFor(ix) \in KeyAttrs(e)
                                    /\ TemplateOf(e, SKAttrFor(ix)) = e.keys[ix].sk
         /\ e.keys[ix].sk = NoSK => ix \notin Sorted(e)
  BY DEF KeyAttrs, PKAttrFor, SKAttrFor, TemplateOf, Sorted

\* A query returns the members of its partition whose sort key the
\* condition matches.
LEMMA ResultIs ==
  ASSUME NEW n, NEW p, NEW args, NEW cond, QInv, Checked(n), OneEncoderEach, TypeMarksApart,
         p \in Patterns(n)
  PROVE  Result(Table[n], p, args, cond)
           = {it \in Members(n, p, args) :
                SKOf(Table[n], p) # NoSK => Matches(cond, Join(it.attrs[SKAttrFor(p.index)]))}
<1> DEFINE e == Table[n]
           ix == p.index
           t == e.keys[ix].pk
           vals(it) == Unmarshal(e, it.attrs)
<1>1. ix \in DOMAIN e.keys /\ e.keys[ix].projection = "all" /\ p.pk = t
  BY PatternFacts
<1>2. /\ PKAttrFor(ix) \in KeyAttrs(e) /\ TemplateOf(e, PKAttrFor(ix)) = t
      /\ ix \in Sorted(e) => SKAttrFor(ix) \in KeyAttrs(e)
  BY <1>1, KeyAttrOf DEF Sorted
<1>3. \A v : KeyFunc(e, t, v) = [i \in DOMAIN t |-> EncodeAt(e, t, i, v)]
  <2>1. ASSUME NEW v PROVE KeyFunc(e, t, v) = [i \in DOMAIN t |-> EncodeAt(e, t, i, v)]
    BY <1>2, KeySegments
  <2> QED
    BY <2>1
<1>4. ASSUME NEW it \in items
      PROVE  (/\ InIndex(it, e, ix)
              /\ it.attrs[PKAttrFor(ix)] = KeyFunc(e, t, args)
              /\ OfType(it, e, ix))
             <=> /\ it.ent = n
                 /\ \A i \in DOMAIN p.pk : Same(e, p.pk, i, vals(it), args)
  <2>1. ItemSound(it) /\ ItemKept(it)
    BY DEF QInv, IInv
  <2>2. OfType(it, e, ix) <=> it.ent = n
    BY <1>1, <2>1, MarkTells
  <2>3. ASSUME it.ent = n
        PROVE  /\ InIndex(it, e, ix)
               /\ it.attrs[PKAttrFor(ix)] = KeyFunc(e, t, args)
                    <=> \A i \in DOMAIN p.pk : Same(e, p.pk, i, vals(it), args)
    <3>1. /\ \A a \in KeyAttrs(e) : a \in DOMAIN it.attrs
          /\ it.attrs[PKAttrFor(ix)] = KeyFunc(e, t, vals(it))
      BY <1>2, <2>1, <2>3 DEF ItemSound
    <3>2. InIndex(it, e, ix)
      BY <1>2, <3>1 DEF InIndex
    <3>3. KeyFunc(e, t, vals(it)) = KeyFunc(e, t, args)
            <=> \A i \in DOMAIN t : EncodeAt(e, t, i, vals(it)) = EncodeAt(e, t, i, args)
      <4> DEFINE v == vals(it)
                 f == [i \in DOMAIN t |-> EncodeAt(e, t, i, v)]
                 g == [i \in DOMAIN t |-> EncodeAt(e, t, i, args)]
      <4>1. KeyFunc(e, t, v) = f /\ KeyFunc(e, t, args) = g
        BY <1>3
      <4>2. f = g <=> \A i \in DOMAIN t : f[i] = g[i]
        OBVIOUS
      <4>3. \A i \in DOMAIN t : f[i] = EncodeAt(e, t, i, v) /\ g[i] = EncodeAt(e, t, i, args)
        OBVIOUS
      <4> HIDE DEF f, g, t, e, v
      <4>4. KeyFunc(e, t, v) = KeyFunc(e, t, args)
              <=> \A i \in DOMAIN t : EncodeAt(e, t, i, v) = EncodeAt(e, t, i, args)
        BY <4>1, <4>2, <4>3
      <4> QED
        BY <4>4 DEF v
    <3> HIDE DEF vals
    <3> QED
      BY <1>1, <3>1, <3>2, <3>3 DEF Same
  <2> QED
    BY <2>2, <2>3
<1> HIDE DEF e, ix, t, vals
<1>5. Result(e, p, args, cond)
        = {it \in items : /\ it.ent = n
                          /\ \A i \in DOMAIN p.pk : Same(e, p.pk, i, vals(it), args)
                          /\ SKOf(e, p) # NoSK => Matches(cond, Join(it.attrs[SKAttrFor(p.index)]))}
  BY <1>4 DEF Result, ix, t
<1>6. Members(n, p, args)
        = {it \in items : it.ent = n /\ \A i \in DOMAIN p.pk : Same(e, p.pk, i, vals(it), args)}
  BY DEF Members, e, vals
<1> HIDE DEF Same
<1> QED
  BY <1>5, <1>6 DEF e

------------------------------------------------------------------------------
(* The values of conditions, segment by segment.                            *)

\* The literals that a template begins with.
LEMMA LeadingCut ==
  ASSUME NEW t, t \in Seq(Segments)
  PROVE  LET c == LeadingLiteralCut(t)
         IN  /\ c \in 0 .. Len(t)
             /\ \A i \in 1 .. c : t[i].kind = "lit"
             /\ c = Len(t) \/ t[c + 1].kind = "ph"
<1>1. Len(t) \in Nat /\ \A i \in 1 .. Len(t) : t[i].kind \in {"lit", "ph"}
  <2>1. Len(t) \in Nat /\ \A i \in 1 .. Len(t) : t[i] \in Segments
    BY SeqElements
  <2> QED
    BY <2>1 DEF Segments
<1> DEFINE places == {i \in 1 .. Len(t) : t[i].kind = "ph"} \cup {Len(t) + 1}
<1>2. places \subseteq Nat /\ places # {}
  BY <1>1
<1>3. PICK k \in places : \A j \in places : k <= j
  BY <1>2, LeastOf
<1>4. k - 1 \in 0 .. Len(t) /\ (k - 1) + 1 = k
  BY <1>1, <1>3
<1>5. ASSUME NEW i \in 1 .. k - 1 PROVE t[i].kind = "lit"
  <2>1. i \in 1 .. Len(t) /\ ~(k <= i)
    BY <1>1, <1>3
  <2>2. i \notin places
    BY <1>3, <2>1
  <2> QED
    BY <1>1, <2>1, <2>2
<1>6. k - 1 = Len(t) \/ t[(k - 1) + 1].kind = "ph"
  BY <1>1, <1>3, <1>4
<1>7. \E c \in 0 .. Len(t) :
        /\ \A i \in 1 .. c : t[i].kind = "lit"
        /\ c = Len(t) \/ t[c + 1].kind = "ph"
  BY <1>4, <1>5, <1>6
<1> HIDE DEF places
<1> DEFINE Good(c) ==
             /\ \A i \in 1 .. c : t[i].kind = "lit"
             /\ c = Len(t) \/ t[c + 1].kind = "ph"
<1>8. LeadingLiteralCut(t) = CHOOSE c \in 0 .. Len(t) : Good(c)
  BY DEF LeadingLiteralCut
<1>9. \E c \in 0 .. Len(t) : Good(c)
  BY <1>7
<1> HIDE DEF Good
<1> DEFINE l == LeadingLiteralCut(t)
<1> HIDE DEF l
<1>10. l \in 0 .. Len(t) /\ Good(l)
  BY <1>8, <1>9 DEF l
<1> QED
  BY <1>10 DEF Good, l

\* The leading literals as segments.
LeadingLiterals(t) == [i \in 1 .. LeadingLiteralCut(t) |-> t[i].literal]

\* The literals that a template begins with are the scope of its queries.
LEMMA LiteralsAre ==
  ASSUME NEW n, NEW a, Checked(n), a \in KeyAttrs(Table[n])
  PROVE  LET e == Table[n]
             t == TemplateOf(e, a)
             h == LeadingLiterals(t)
             c == LeadingLiteralCut(t)
         IN  /\ c \in 0 .. Len(t) /\ Len(t) \in Nat
             /\ c = Len(t) \/ t[c + 1].kind = "ph"
             /\ h \in Seq(HashFree) /\ Len(h) = c
             /\ \A i \in 1 .. c : h[i] # <<>> /\ \A vals : h[i] = EncodeAt(e, t, i, vals)
             /\ PrefixString(t, c) = IF c < Len(t) THEN Opening(h) ELSE Join(h)
<1> DEFINE e == Table[n]
           t == TemplateOf(e, a)
           h == LeadingLiterals(t)
           c == LeadingLiteralCut(t)
<1>1. t \in Seq(Segments)
  BY KeyTemplatesWellFormed DEF Checked, WellFormed
<1> HIDE DEF t, c
<1>2. /\ c \in 0 .. Len(t) /\ Len(t) \in Nat
      /\ \A i \in 1 .. c : t[i].kind = "lit"
      /\ c = Len(t) \/ t[c + 1].kind = "ph"
  BY <1>1, LeadingCut DEF c
<1>3. h = [i \in 1 .. c |-> t[i].literal]
  BY DEF LeadingLiterals, c
<1> HIDE DEF h
<1>4. ASSUME NEW i \in 1 .. c
      PROVE  h[i] \in HashFree /\ h[i] # <<>> /\ \A vals : h[i] = EncodeAt(e, t, i, vals)
  <2>1. i \in DOMAIN t /\ h[i] = t[i].literal /\ t[i].kind = "lit"
    BY <1>1, <1>2, <1>3
  <2>2. i \in Literals(t)
    BY <2>1 DEF Literals
  <2>3. t[i].literal \in HashFree /\ t[i].literal # <<>>
    BY <2>2, LiteralSegment DEF t
  <2> QED
    BY <2>1, <2>3 DEF EncodeAt
<1>5. h \in Seq(HashFree) /\ Len(h) = c
  <2>1. h \in [1 .. c -> HashFree] /\ c \in Nat
    BY <1>2, <1>3, <1>4
  <2> QED
    BY <2>1, FunctionIsSeq
<1>6. PrefixString(t, c) = Join(h) \o (IF c \in 1 .. Len(t) - 1 THEN <<Hash>> ELSE <<>>)
  BY <1>3 DEF PrefixString
<1>7. c # 0 => Join(h) \in Str
  BY <1>2, <1>5, JoinString
<1>8. c = 0 => h = <<>> /\ Join(h) = <<>>
  <2>1. c = 0 => h = <<>>
    BY <1>5, EmptyOrNot
  <2> QED
    BY <2>1 DEF Join
<1>9. h = <<>> <=> c = 0
  BY <1>5, EmptyOrNot
<1>10. PrefixString(t, c) = IF c < Len(t) THEN Opening(h) ELSE Join(h)
  <2>1. \A s \in Str : s \o <<>> = s
    BY DEF Str
  <2>2. <<>> \in Str
    BY DEF Str
  <2>3. CASE c = 0
    <3>1. PrefixString(t, c) = <<>>
      BY <1>2, <1>6, <1>8, <2>1, <2>2, <2>3
    <3> QED
      BY <1>8, <2>3, <3>1 DEF Opening
  <2>4. CASE c # 0 /\ c < Len(t)
    <3>1. c \in 1 .. Len(t) - 1
      BY <1>2, <2>4
    <3> QED
      BY <1>6, <1>9, <2>4, <3>1 DEF Opening
  <2>5. CASE c # 0 /\ c = Len(t)
    <3>1. c \notin 1 .. Len(t) - 1
      BY <1>2, <2>5
    <3>2. PrefixString(t, c) = Join(h)
      BY <1>6, <1>7, <2>1, <2>5, <3>1
    <3> QED
      BY <1>2, <2>5, <3>2
  <2> QED
    BY <1>2, <2>3, <2>4, <2>5
<1> QED
  BY <1>2, <1>4, <1>5, <1>10 DEF c, h, t

\* The sort key of an item of the entity.
LEMMA ItemKey ==
  ASSUME NEW n, NEW p, NEW it, QInv, Checked(n), OneEncoderEach, p \in Patterns(n),
         it \in items, it.ent = n, SKOf(Table[n], p) # NoSK
  PROVE  LET e == Table[n]
             sk == SKOf(e, p)
             vals == Unmarshal(e, it.attrs)
             w == it.attrs[SKAttrFor(p.index)]
         IN  /\ Encodes(w, e, sk, vals)
             /\ FromRows(n, FieldsOf(sk), vals)
<1> DEFINE e == Table[n]
           sk == SKOf(e, p)
           a == SKAttrFor(p.index)
           vals == Unmarshal(e, it.attrs)
<1>1. a \in KeyAttrs(e) /\ TemplateOf(e, a) = sk
  BY PatternFacts, KeyAttrOf DEF SKOf
<1>2. ItemSound(it) /\ ItemKept(it)
  BY DEF QInv, IInv
<1>3. it.attrs[a] = KeyFunc(e, sk, vals) /\ ~AnyRefused(it.attrs[a])
  BY <1>1, <1>2 DEF ItemSound
<1>4. FromRows(n, FieldsOf(sk), vals)
  BY <1>1, <1>2, ItemValues
<1> HIDE DEF e, sk, a, vals
<1>5. Encodes(KeyFunc(e, sk, vals), e, sk, vals)
  <2> DEFINE t == TemplateOf(Table[n], a)
  <2>1. t = sk
    BY <1>1 DEF e
  <2>2. a \in KeyAttrs(Table[n]) /\ FromRows(n, FieldsOf(t), vals) /\ ~AnyRefused(KeyFunc(Table[n], t, vals))
    BY <1>1, <1>3, <1>4, <2>1 DEF e
  <2>3. Encodes(KeyFunc(Table[n], t, vals), Table[n], t, vals)
    BY <2>2, KeyIs
  <2> QED
    BY <2>1, <2>3 DEF e
<1> QED
  BY <1>3, <1>4, <1>5 DEF e, sk, a, vals

\* The segments of a condition value, with the arguments in.
ValueSegments(e, p, args) == [i \in DOMAIN Value(p) |-> EncodeAt(e, Value(p), i, args)]

\* The text of a condition value.
ValueIs(e, p, args, v, l, m) ==
  /\ m \in Nat \ {0} /\ m = Len(SKOf(e, p)) /\ l \in Nat \ {0} /\ l <= m /\ l = Len(Value(p)) /\ DOMAIN Value(p) = 1 .. l
  /\ v = ValueSegments(e, p, args) /\ v \in Seq(HashFree) /\ Len(v) = l
  /\ \A i \in 1 .. l : /\ v[i] = EncodeAt(e, SKOf(e, p), i, args) /\ v[i] # <<>> /\ v[i] # Refused
                       /\ Value(p)[i] = SKOf(e, p)[i]
                       /\ \A x : EncodeAt(e, Value(p), i, x) = EncodeAt(e, SKOf(e, p), i, x)

\* Arguments are fields of structs.
Placed(n, sk, args, l) ==
  \A i \in 1 .. l : sk[i].kind = "ph" => \E r \in RowsOf(n) : args[sk[i].field] = r[sk[i].field]

\* The condition value of a query that can be asked, segment by segment.
LEMMA ArgumentSegments ==
  ASSUME NEW n, NEW p, NEW args, Checked(n), p \in Patterns(n), p.value # NoValue,
         args \in Args(n, p), CanQuery(Table[n], p, args)
  PROVE  /\ SKOf(Table[n], p) # NoSK
         /\ ValueIs(Table[n], p, args, ValueSegments(Table[n], p, args), Len(Value(p)), Len(SKOf(Table[n], p)))
         /\ Placed(n, SKOf(Table[n], p), args, Len(Value(p)))
<1> DEFINE e == Table[n]
           sk == SKOf(e, p)
           v == ValueSegments(e, p, args)
           segs == Value(p)
           l == Len(segs)
           a == SKAttrFor(p.index)
<1>1. PatternParses(e, p) /\ Satisfiable(e, p) /\ p.index \in DOMAIN e.keys
  BY PatternFacts
<1>2. segs \in Seq(Segments) /\ segs # <<>>
  BY <1>1 DEF PatternParses, IsCondition, IsTemplate, Value
<1>3. sk # NoSK /\ l <= Len(sk) /\ \A i \in DOMAIN segs : segs[i] = sk[i]
  <2>1. p.cond # ""
    BY <1>1 DEF PatternParses
  <2> QED
    BY <1>1, <2>1 DEF Satisfiable, Aligns, SKOf, Value
<1>4. a \in KeyAttrs(e) /\ TemplateOf(e, a) = sk
  BY <1>1, <1>3, KeyAttrOf DEF SKOf
<1>5. sk \in Seq(Segments)
  BY <1>4, KeyTemplatesWellFormed DEF Checked, WellFormed
<1> HIDE DEF segs, sk, a
<1>6. l \in 1 .. Len(sk) /\ DOMAIN segs = 1 .. l /\ Len(sk) \in Nat /\ DOMAIN sk = 1 .. Len(sk)
  BY <1>2, <1>3, <1>5
<1>7. PICK row \in RowsOf(n) : args = [f \in ArgFields(e, p) |-> row[f]]
  BY DEF Args
<1>8. ASSUME NEW i \in 1 .. l
      PROVE  /\ v[i] = EncodeAt(e, sk, i, args) /\ v[i] # <<>> /\ v[i] # Refused /\ v[i] \in HashFree
             /\ segs[i] = sk[i]
             /\ \A x : EncodeAt(e, segs, i, x) = EncodeAt(e, sk, i, x)
             /\ sk[i].kind = "ph" => \E r \in RowsOf(n) : args[sk[i].field] = r[sk[i].field]
  <2>1. segs[i] = sk[i] /\ i \in DOMAIN segs /\ i \in DOMAIN sk
    BY <1>3, <1>6
  <2>2. \A x : EncodeAt(e, segs, i, x) = EncodeAt(e, sk, i, x)
    BY <2>1 DEF EncodeAt
  <2>3. EncodeAt(e, segs, i, args) # Refused
    BY <2>1 DEF CanQuery, segs
  <2>4. ASSUME sk[i].kind = "ph" PROVE args[sk[i].field] = row[sk[i].field]
    <3>1. sk[i].field \in FieldsOf(segs)
      BY <2>1, <2>4 DEF FieldsOf, Placeholders
    <3>2. sk[i].field \in ArgFields(e, p)
      BY <3>1 DEF ArgFields, segs
    <3> QED
      BY <1>7, <3>2
  <2>5. sk[i].kind = "ph" => \E r \in RowsOf(n) : args[sk[i].field] = r[sk[i].field]
    BY <2>4
  <2>6. EncodeAt(e, sk, i, args) # Refused
    BY <2>2, <2>3
  <2>7. EncodeAt(e, sk, i, args) \in HashFree /\ EncodeAt(e, sk, i, args) # <<>>
    BY <1>4, <2>1, <2>5, <2>6, PlaceSegment
  <2>8. v[i] = EncodeAt(e, segs, i, args)
    BY <2>1 DEF ValueSegments, segs
  <2> HIDE DEF v, e
  <2> QED
    BY <2>1, <2>2, <2>5, <2>6, <2>7, <2>8
<1>9. DOMAIN v = 1 .. l /\ v = [i \in 1 .. l |-> v[i]]
  BY <1>6 DEF ValueSegments, segs
<1>10. v \in Seq(HashFree) /\ Len(v) = l
  <2> HIDE DEF v, l
  <2>1. v \in [1 .. l -> HashFree] /\ l \in Nat
    BY <1>6, <1>8, <1>9
  <2> QED
    BY <2>1, FunctionIsSeq
<1> HIDE DEF l
<1>11. /\ l \in Nat \ {0} /\ l <= Len(sk) /\ Len(sk) \in Nat \ {0}
  BY <1>6
<1>12. /\ v = ValueSegments(e, p, args) /\ sk = SKOf(e, p) /\ segs = Value(p) /\ l = Len(Value(p))
  BY DEF sk, segs, l
<1>13. \A i \in 1 .. l : /\ v[i] = EncodeAt(e, sk, i, args) /\ v[i] # <<>> /\ v[i] # Refused
                         /\ segs[i] = sk[i]
                         /\ \A x : EncodeAt(e, segs, i, x) = EncodeAt(e, sk, i, x)
  BY <1>8
<1>14. \A i \in 1 .. l : sk[i].kind = "ph" => \E r \in RowsOf(n) : args[sk[i].field] = r[sk[i].field]
  BY <1>8
<1> HIDE DEF v, e
<1>15. ValueIs(e, p, args, v, l, Len(sk))
  BY <1>6, <1>10, <1>11, <1>12, <1>13 DEF ValueIs
<1>16. Placed(n, sk, args, l)
  BY <1>14 DEF Placed
<1> QED
  BY <1>3, <1>15, <1>16 DEF e, sk, v, segs, l

\* A placeholder writes segments that begin below the suffix.
LEMMA LowPlace ==
  ASSUME NEW n, NEW a, NEW i, NEW vals, Checked(n), TextBelowSuffix, a \in KeyAttrs(Table[n]),
         i \in Placeholders(TemplateOf(Table[n], a)),
         \E r \in RowsOf(n) : vals[TemplateOf(Table[n], a)[i].field] = r[TemplateOf(Table[n], a)[i].field],
         EncodeAt(Table[n], TemplateOf(Table[n], a), i, vals) # Refused
  PROVE  Low(EncodeAt(Table[n], TemplateOf(Table[n], a), i, vals))
<1> DEFINE e == Table[n]
           t == TemplateOf(e, a)
           f == t[i].field
           goType == GoType(e.fields, f)
<1>1. PICK r \in RowsOf(n) : vals[f] = r[f]
  OBVIOUS
<1>2. f \in DOMAIN e.fields /\ goType = e.fields[f].type /\ Takes(t[i].enc, goType, vals[f])
  BY <1>1, PlaceTakes
<1>3. goType = "string" => \A k \in 1 .. Len(vals[f]) : vals[f][k] < MaxKeySuffix[1]
  BY <1>1, <1>2 DEF TextBelowSuffix, Checked, Table, Entities, RowsOf
<1>4. EncodeAt(e, t, i, vals) = EncodeValue(t[i].enc, goType, vals[f])
  BY DEF EncodeAt, Placeholders
<1> HIDE DEF e, t, f, goType
<1>5. EncodeValue(t[i].enc, goType, vals[f]) # Refused
  BY <1>4 DEF e, t
<1>6. Low(EncodeValue(t[i].enc, goType, vals[f]))
  BY <1>2, <1>3, <1>5, LowSegment
<1> QED
  BY <1>4, <1>6 DEF e, t

\* What one placeholder of a fixed width makes of two values.
Ordered(e, seg, x, y, v, w) ==
  /\ x \in HashFree /\ y \in HashFree /\ Len(x) = Len(y) /\ Low(x) /\ Low(y)
  /\ Less(x, y) <=> FieldLess(e, seg, v, w)
  /\ Less(y, x) <=> FieldLess(e, seg, w, v)
  /\ LET q == PredOf(e, seg, [f \in {seg.field} |-> w])
     IN  /\ PredecessorTells(x, y, q, q # Refused)
         /\ q # Refused => q \in HashFree

\* Two values of a placeholder of a fixed width.
LEMMA FixedPlace ==
  ASSUME NEW n, NEW a, NEW i, NEW v, NEW w, Checked(n), ULIDsAscii, a \in KeyAttrs(Table[n]),
         i \in Placeholders(TemplateOf(Table[n], a)),
         FixedAt(TemplateOf(Table[n], a), i, Table[n].fields),
         \E r \in RowsOf(n) : v = r[TemplateOf(Table[n], a)[i].field],
         \E r \in RowsOf(n) : w = r[TemplateOf(Table[n], a)[i].field],
         NEW seg, seg = TemplateOf(Table[n], a)[i], NEW goType, goType = GoType(Table[n].fields, seg.field),
         EncodeValue(seg.enc, goType, v) # Refused, EncodeValue(seg.enc, goType, w) # Refused
  PROVE  Ordered(Table[n], seg, EncodeValue(seg.enc, goType, v), EncodeValue(seg.enc, goType, w), v, w)
<1> DEFINE e == Table[n]
           enc == seg.enc
           x == EncodeValue(enc, goType, v)
           y == EncodeValue(enc, goType, w)
           q == PredOf(e, seg, [f \in {seg.field} |-> w])
<1>1. Takes(enc, goType, v) /\ Takes(enc, goType, w)
  BY PlaceTakes
<1>2. FixedWidth(enc, goType)
  BY DEF FixedAt
<1>3. q = Pred(enc, goType, w)
  BY DEF PredOf
<1>0. AsciiULID(enc, v) /\ AsciiULID(enc, w)
  <2>1. \A r \in RowsOf(n) : AsciiULID(enc, r[seg.field])
    BY DEF ULIDsAscii, Checked, Table, Entities, RowsOf
  <2> QED
    BY <2>1
<1> HIDE DEF enc, e
<1>4. x \in HashFree /\ y \in HashFree /\ x # <<>> /\ y # <<>>
  BY <1>1, EncodedSegment DEF enc
<1>5. Len(x) = Len(y) /\ x[1] < MaxKeySuffix[1] /\ y[1] < MaxKeySuffix[1]
  BY <1>0, <1>1, <1>2, FixedSegment DEF enc
<1>6. Less(x, y) <=> ValueLess(enc, goType, v, w)
  BY <1>0, <1>1, <1>2, FixedOrder DEF enc
<1>7. Less(y, x) <=> ValueLess(enc, goType, w, v)
  BY <1>0, <1>1, <1>2, FixedOrder DEF enc
<1>8. /\ q = Refused => ~Less(x, y)
      /\ q # Refused => /\ q \in HashFree /\ Len(q) = Len(y)
                        /\ Less(x, y) <=> ~Less(q, x)
  <2>1. enc = seg.enc
    BY DEF enc
  <2> HIDE DEF q
  <2> QED
    BY <1>0, <1>1, <1>2, <1>3, <2>1, PredecessorOrder
<1> HIDE DEF x, y, q
<1>9. x \in Str /\ y \in Str /\ (q \in HashFree => q \in Str)
  BY <1>4 DEF HashFree
<1>10. q # Refused => Decided(x, q)
  BY <1>5, <1>8, <1>9, SameLengthDecided
<1>11. PredecessorTells(x, y, q, q # Refused)
  BY <1>8, <1>10 DEF PredecessorTells
<1>12. Low(x) /\ Low(y)
  BY <1>4, <1>5, <1>9 DEF Low
<1>13. FieldLess(e, seg, v, w) = ValueLess(enc, goType, v, w) /\ FieldLess(e, seg, w, v) = ValueLess(enc, goType, w, v)
  BY DEF FieldLess, enc, e
<1>14. Ordered(e, seg, x, y, v, w)
  BY <1>4, <1>5, <1>6, <1>7, <1>8, <1>11, <1>12, <1>13 DEF Ordered, q
<1> QED
  BY <1>14 DEF e, x, y, enc

\* What the queries of a pattern start from.
LiteralsOf(e, p) == LeadingLiterals(SKOf(e, p))
KeyOfItem(p, it) == it.attrs[SKAttrFor(p.index)]

ScopeIs(e, p, h, c, m) ==
  /\ m \in Nat \ {0} /\ c \in Nat /\ c <= m /\ m = Len(SKOf(e, p)) /\ c = LeadingLiteralCut(SKOf(e, p))
  /\ c = m \/ SKOf(e, p)[c + 1].kind = "ph"
  /\ h \in Seq(HashFree) /\ Len(h) = c
  /\ \A i \in 1 .. c : h[i] # <<>> /\ \A vals : h[i] = EncodeAt(e, SKOf(e, p), i, vals)
  /\ Scope(e, p) = IF c < m THEN Opening(h) ELSE Join(h)

\* The scope of a pattern with a sort key.
LEMMA ScopeOf ==
  ASSUME NEW n, NEW p, Checked(n), p \in Patterns(n), SKOf(Table[n], p) # NoSK
  PROVE  ScopeIs(Table[n], p, LiteralsOf(Table[n], p), LeadingLiteralCut(SKOf(Table[n], p)), Len(SKOf(Table[n], p)))
<1> DEFINE e == Table[n]
           sk == SKOf(e, p)
           a == SKAttrFor(p.index)
           h == LiteralsOf(e, p)
           c == LeadingLiteralCut(sk)
<1>1. a \in KeyAttrs(e) /\ TemplateOf(e, a) = sk
  BY PatternFacts, KeyAttrOf DEF SKOf
<1>2. sk \in Seq(Segments)
  BY <1>1, KeyTemplatesWellFormed DEF Checked, WellFormed
<1>3. h = LeadingLiterals(TemplateOf(e, a)) /\ Scope(e, p) = PrefixString(sk, c)
  BY <1>1 DEF LiteralsOf, Scope
<1> HIDE DEF a, e, h, c, sk
<1>4. Len(sk) \in Nat \ {0}
  <2>1. sk # <<>>
    BY DEF NoSK, sk, e
  <2> QED
    BY <1>2, <2>1
<1>5. /\ c \in 0 .. Len(sk)
      /\ c = Len(sk) \/ sk[c + 1].kind = "ph"
      /\ h \in Seq(HashFree) /\ Len(h) = c
      /\ \A i \in 1 .. c : h[i] # <<>> /\ \A vals : h[i] = EncodeAt(e, sk, i, vals)
      /\ PrefixString(sk, c) = IF c < Len(sk) THEN Opening(h) ELSE Join(h)
  <2> DEFINE t == TemplateOf(Table[n], a)
  <2>1. a \in KeyAttrs(Table[n]) /\ t = sk /\ h = LeadingLiterals(t) /\ c = LeadingLiteralCut(t)
    BY <1>1, <1>3 DEF e, c
  <2>2. /\ LeadingLiteralCut(t) \in 0 .. Len(t)
        /\ LeadingLiteralCut(t) = Len(t) \/ t[LeadingLiteralCut(t) + 1].kind = "ph"
        /\ LeadingLiterals(t) \in Seq(HashFree) /\ Len(LeadingLiterals(t)) = LeadingLiteralCut(t)
        /\ \A i \in 1 .. LeadingLiteralCut(t) :
             LeadingLiterals(t)[i] # <<>> /\ \A vals : LeadingLiterals(t)[i] = EncodeAt(Table[n], t, i, vals)
        /\ PrefixString(t, LeadingLiteralCut(t))
             = IF LeadingLiteralCut(t) < Len(t) THEN Opening(LeadingLiterals(t)) ELSE Join(LeadingLiterals(t))
    BY <2>1, LiteralsAre
  <2> HIDE DEF t
  <2> QED
    BY <2>1, <2>2 DEF e
<1>6. c \in Nat /\ c <= Len(sk)
  BY <1>4, <1>5
<1>7. ScopeIs(e, p, h, c, Len(sk))
  BY <1>3, <1>4, <1>5, <1>6 DEF ScopeIs, sk, c
<1> QED
  BY <1>7 DEF e, h, c, sk

\* The sort key of a stored item.
KeyIn(e, p, it, w, m) ==
  /\ w = KeyOfItem(p, it) /\ w \in Seq(HashFree) /\ Len(w) = m
  /\ \A i \in 1 .. m : /\ w[i] = EncodeAt(e, SKOf(e, p), i, Unmarshal(e, it.attrs))
                       /\ w[i] # <<>> /\ w[i] # Refused

\* The sort key of a stored item, segment by segment.
LEMMA KeyOfMember ==
  ASSUME NEW n, NEW p, NEW it, QInv, Checked(n), OneEncoderEach, p \in Patterns(n),
         it \in items, it.ent = n, SKOf(Table[n], p) # NoSK
  PROVE  /\ KeyIn(Table[n], p, it, KeyOfItem(p, it), Len(SKOf(Table[n], p)))
         /\ FromRows(n, FieldsOf(SKOf(Table[n], p)), Unmarshal(Table[n], it.attrs))
<1> DEFINE e == Table[n]
           w == KeyOfItem(p, it)
<1>1. Encodes(w, e, SKOf(e, p), Unmarshal(e, it.attrs)) /\ FromRows(n, FieldsOf(SKOf(e, p)), Unmarshal(e, it.attrs))
  BY ItemKey DEF KeyOfItem
<1> HIDE DEF e, w
<1>2. KeyIn(e, p, it, w, Len(SKOf(e, p)))
  BY <1>1 DEF Encodes, KeyIn, w
<1> QED
  BY <1>1, <1>2 DEF e, w

\* An implicit condition takes every item of the entity.
LEMMA ScopeBegins ==
  ASSUME NEW e, NEW p, NEW it, NEW h, NEW c, NEW m, NEW w,
         ScopeIs(e, p, h, c, m), KeyIn(e, p, it, w, m)
  PROVE  /\ \A i \in 1 .. c : h[i] = w[i]
         /\ IsPrefix(Scope(e, p), Join(w))
<1>1. /\ m \in Nat \ {0} /\ c \in Nat /\ c <= m /\ h \in Seq(HashFree) /\ Len(h) = c
      /\ w \in Seq(HashFree) /\ Len(w) = m
      /\ Scope(e, p) = IF c < m THEN Opening(h) ELSE Join(h)
  BY DEF ScopeIs, KeyIn
<1>2. \A i \in 1 .. c : h[i] = w[i]
  BY <1>1 DEF ScopeIs, KeyIn
<1>3. CASE c < m
  BY <1>1, <1>2, <1>3, OpeningTells
<1>4. CASE c = m
  <2>1. Join(h) = Join(w) /\ Join(w) \in Str
    BY <1>1, <1>2, <1>4, JoinSame, JoinString
  <2> QED
    BY <1>1, <1>2, <1>4, <2>1, PrefixSelf
<1> QED
  BY <1>1, <1>2, <1>3, <1>4

\* The condition value is its segments, and a delimiter where it has one.
LEMMA ValueText ==
  ASSUME NEW e, NEW p, NEW args, NEW v, NEW l, NEW m, NEW d, ValueIs(e, p, args, v, l, m)
  PROVE  /\ Join(v) \in Str
         /\ ValueString(e, p, args, d) = IF p.value.delim \/ d THEN Opening(v) ELSE Join(v)
<1>1. v \in Seq(HashFree) /\ Len(v) >= 1
  BY DEF ValueIs
<1>2. Join(v) \in Str /\ v # <<>>
  BY <1>1, JoinString
<1>3. v = [i \in DOMAIN Value(p) |-> EncodeAt(e, Value(p), i, args)]
  BY DEF ValueIs, ValueSegments
<1>4. ValueString(e, p, args, d) = Join(v) \o (IF p.value.delim \/ d THEN <<Hash>> ELSE <<>>)
  BY <1>3 DEF ValueString
<1>5. Join(v) \o <<>> = Join(v)
  BY <1>2 DEF Str
<1> QED
  BY <1>2, <1>4, <1>5 DEF Opening

\* Whether an item's fields are those of the value, in terms of its key.
LEMMA SameHeadIs ==
  ASSUME NEW e, NEW p, NEW args, NEW v, NEW l, NEW m, NEW it, NEW w,
         ValueIs(e, p, args, v, l, m), KeyIn(e, p, it, w, m)
  PROVE  /\ SameHead(e, p, Unmarshal(e, it.attrs), args) <=> \A i \in 1 .. l : w[i] = v[i]
         /\ Begins(e, p, Unmarshal(e, it.attrs), args)
              <=> \A i \in 1 .. l : w[i] = v[i] \/ (i = m /\ IsPrefix(v[i], w[i]))
<1> DEFINE vals == Unmarshal(e, it.attrs)
<1> HIDE DEF vals
<1>1. ASSUME NEW i \in 1 .. l
      PROVE  EncodeAt(e, Value(p), i, vals) = w[i] /\ EncodeAt(e, Value(p), i, args) = v[i]
  <2>1. i \in 1 .. m
    BY DEF ValueIs
  <2> QED
    BY <2>1 DEF ValueIs, KeyIn, vals
<1>2. DOMAIN Value(p) = 1 .. l /\ m = Len(SKOf(e, p))
  BY DEF ValueIs
<1>3. SameHead(e, p, vals, args) <=> \A i \in 1 .. l : w[i] = v[i]
  BY <1>1, <1>2 DEF SameHead, Same
<1>4. Begins(e, p, vals, args) <=> \A i \in 1 .. l : w[i] = v[i] \/ (i = m /\ IsPrefix(v[i], w[i]))
  BY <1>1, <1>2 DEF Begins, Same
<1> QED
  BY <1>3, <1>4 DEF vals

\* A begins condition takes the items it should.
LEMMA BeginsTells ==
  ASSUME NEW e, NEW p, NEW args, NEW v, NEW l, NEW m, NEW it, NEW w,
         ValueIs(e, p, args, v, l, m), KeyIn(e, p, it, w, m), p.value # NoValue,
         ~(l = m /\ p.value.delim)
  PROVE  IsPrefix(SKPrefix(e, p, args), Join(w)) <=> Begins(e, p, Unmarshal(e, it.attrs), args)
<1> DEFINE d == l < m
<1>1. /\ m \in Nat \ {0} /\ l \in Nat \ {0} /\ l <= m /\ v \in Seq(HashFree) /\ Len(v) = l
      /\ w \in Seq(HashFree) /\ Len(w) = m
  BY DEF ValueIs, KeyIn
<1>2. SKPrefix(e, p, args) = ValueString(e, p, args, d)
  BY DEF SKPrefix, Cut, ValueIs
<1>3. Begins(e, p, Unmarshal(e, it.attrs), args)
        <=> \A i \in 1 .. l : w[i] = v[i] \/ (i = m /\ IsPrefix(v[i], w[i]))
  BY SameHeadIs
<1> DEFINE B == Begins(e, p, Unmarshal(e, it.attrs), args)
           T == IsPrefix(SKPrefix(e, p, args), Join(w))
<1> HIDE DEF B
<1>4. ASSUME l < m PROVE T <=> B
  <2>1. SKPrefix(e, p, args) = Opening(v)
    BY <1>2, <1>4, ValueText
  <2>2. IsPrefix(Opening(v), Join(w)) <=> \A i \in 1 .. l : v[i] = w[i]
    BY <1>1, <1>4, OpeningTells
  <2>3. B <=> \A i \in 1 .. l : v[i] = w[i]
    BY <1>1, <1>3, <1>4 DEF B
  <2> QED
    BY <2>1, <2>2, <2>3
<1>5. ASSUME l = m PROVE T <=> B
  <2>1. SKPrefix(e, p, args) = Join(v)
    <3>1. ~d
      BY <1>1, <1>5
    <3> HIDE DEF d
    <3>2. ValueString(e, p, args, d) = IF p.value.delim \/ d THEN Opening(v) ELSE Join(v)
      BY ValueText
    <3> QED
      BY <1>2, <1>5, <3>1, <3>2
  <2>2. IsPrefix(Join(v), Join(w))
          <=> /\ \A i \in 1 .. l - 1 : v[i] = w[i]
              /\ IsPrefix(v[l], w[l])
    BY <1>1, <1>5, JoinFull
  <2>3. v[l] \in Str
    <3>1. l \in 1 .. Len(v)
      BY <1>1
    <3>2. v[l] \in HashFree
      BY <1>1, <3>1
    <3> QED
      BY <3>2 DEF HashFree
  <2>4. IsPrefix(v[l], v[l])
    BY <2>3, PrefixSelf
  <2>5. ASSUME B PROVE (\A i \in 1 .. l - 1 : v[i] = w[i]) /\ IsPrefix(v[l], w[l])
    <3>1. \A i \in 1 .. l : w[i] = v[i] \/ (i = m /\ IsPrefix(v[i], w[i]))
      BY <1>3, <2>5 DEF B
    <3>2. \A i \in 1 .. l - 1 : i \in 1 .. l /\ i # m
      BY <1>1, <1>5
    <3>3. l \in 1 .. l
      BY <1>1
    <3>4. w[l] = v[l] \/ IsPrefix(v[l], w[l])
      BY <3>1, <3>3
    <3> QED
      BY <2>4, <3>1, <3>2, <3>4
  <2>6. ASSUME \A i \in 1 .. l - 1 : v[i] = w[i], IsPrefix(v[l], w[l]) PROVE B
    <3>1. ASSUME NEW i \in 1 .. l PROVE w[i] = v[i] \/ (i = m /\ IsPrefix(v[i], w[i]))
      <4>1. CASE i = l
        BY <1>5, <2>6, <4>1
      <4>2. CASE i # l
        <5>1. i \in 1 .. l - 1
          BY <1>1, <4>2
        <5> QED
          BY <2>6, <5>1
      <4> QED
        BY <4>1, <4>2
    <3> QED
      BY <1>3, <3>1 DEF B
  <2>7. B <=> (\A i \in 1 .. l - 1 : v[i] = w[i]) /\ IsPrefix(v[l], w[l])
    BY <2>5, <2>6
  <2> QED
    BY <2>1, <2>2, <2>7
<1> QED
  BY <1>1, <1>4, <1>5 DEF B

\* An equality takes the items it should.
LEMMA EqualTells ==
  ASSUME NEW e, NEW p, NEW args, NEW v, NEW l, NEW m, NEW it, NEW w,
         ValueIs(e, p, args, v, l, m), KeyIn(e, p, it, w, m), l = m, ~p.value.delim
  PROVE  Join(w) = ValueString(e, p, args, FALSE) <=> SameHead(e, p, Unmarshal(e, it.attrs), args)
<1>1. ValueString(e, p, args, FALSE) = Join(v)
  BY ValueText, ZenonT(60)
<1>2. SameHead(e, p, Unmarshal(e, it.attrs), args) <=> \A i \in 1 .. l : w[i] = v[i]
  BY SameHeadIs
<1>3. Join(w) = Join(v) <=> \A i \in 1 .. l : w[i] = v[i]
  <2>1. /\ v \in Seq(HashFree) /\ Len(v) = l /\ w \in Seq(HashFree) /\ Len(w) = l /\ l >= 1
    BY DEF ValueIs, KeyIn
  <2> QED
    BY <2>1, JoinSame
<1> QED
  BY <1>1, <1>2, <1>3

------------------------------------------------------------------------------
(* Conditions with a bound.                                                 *)

\* The value of a range ends in a placeholder of a fixed width, behind the
\* literals of the key.
BoundIs(e, p, c, l) ==
  /\ c < l /\ ~p.value.delim
  /\ SKOf(e, p)[l].kind = "ph" /\ SKOf(e, p)[c + 1].kind = "ph" /\ BoundSegment(p) = SKOf(e, p)[l]
  /\ FixedAt(SKOf(e, p), l, e.fields)

\* The value of an accepted range is such a bound.
LEMMA BoundOf ==
  ASSUME NEW n, NEW p, NEW args, NEW v, NEW l, NEW m, NEW h, NEW c, Checked(n), p \in Patterns(n),
         p.value # NoValue, p.cond \in Ranges, SKOf(Table[n], p) # NoSK,
         ValueIs(Table[n], p, args, v, l, m), ScopeIs(Table[n], p, h, c, m)
  PROVE  BoundIs(Table[n], p, c, l)
<1> DEFINE e == Table[n]
           sk == SKOf(e, p)
           segs == Value(p)
<1>1. segs[Len(segs)].kind = "ph" /\ ~p.value.delim /\ FixedAt(segs, Len(segs), e.fields)
  BY PatternFacts DEF Satisfiable, Value
<1>2. l = Len(segs) /\ l \in Nat \ {0} /\ l <= m /\ m = Len(sk) /\ m \in Nat /\ \A i \in 1 .. l : segs[i] = sk[i]
  BY DEF ValueIs
<1>3. l \in 1 .. l
  BY <1>2
<1>4. segs[l] = sk[l]
  BY <1>2, <1>3
<1>5. sk[l].kind = "ph" /\ FixedAt(sk, l, e.fields) /\ BoundSegment(p) = sk[l]
  BY <1>1, <1>2, <1>4 DEF FixedAt, BoundSegment
<1>6. sk \in Seq(Segments)
  <2>1. SKAttrFor(p.index) \in KeyAttrs(e) /\ TemplateOf(e, SKAttrFor(p.index)) = sk
    BY PatternFacts, KeyAttrOf DEF SKOf
  <2> QED
    BY <2>1, KeyTemplatesWellFormed DEF Checked, WellFormed
<1>7. \A i \in 1 .. c : sk[i].kind = "lit"
  <2>1. c = LeadingLiteralCut(sk)
    BY DEF ScopeIs
  <2> HIDE DEF sk
  <2>2. \A i \in 1 .. LeadingLiteralCut(sk) : sk[i].kind = "lit"
    BY <1>6, LeadingCut
  <2> QED
    BY <2>1, <2>2
<1>8. c \in Nat /\ c <= m /\ (c = m \/ sk[c + 1].kind = "ph")
  BY DEF ScopeIs
<1> HIDE DEF sk, segs, e
<1>9. c < l
  <2>1. SUFFICES ASSUME l <= c PROVE FALSE
    BY <1>2, <1>8
  <2>2. l \in 1 .. c
    BY <1>2, <1>8, <2>1
  <2> QED
    BY <1>5, <1>7, <2>2
<1>10. sk[c + 1].kind = "ph"
  BY <1>2, <1>8, <1>9
<1> QED
  BY <1>1, <1>5, <1>9, <1>10 DEF BoundIs, sk, e

\* What a placeholder of the key makes of the item's field and of another
\* struct's.
LEMMA PlaceOrdered ==
  ASSUME NEW n, NEW p, NEW i, NEW vals, NEW args, Checked(n), ULIDsAscii, p \in Patterns(n), SKOf(Table[n], p) # NoSK,
         i \in DOMAIN SKOf(Table[n], p), SKOf(Table[n], p)[i].kind = "ph",
         FixedAt(SKOf(Table[n], p), i, Table[n].fields),
         \E r \in RowsOf(n) : vals[SKOf(Table[n], p)[i].field] = r[SKOf(Table[n], p)[i].field],
         \E r \in RowsOf(n) : args[SKOf(Table[n], p)[i].field] = r[SKOf(Table[n], p)[i].field],
         EncodeAt(Table[n], SKOf(Table[n], p), i, vals) # Refused,
         EncodeAt(Table[n], SKOf(Table[n], p), i, args) # Refused
  PROVE  Ordered(Table[n], SKOf(Table[n], p)[i], EncodeAt(Table[n], SKOf(Table[n], p), i, vals),
                 EncodeAt(Table[n], SKOf(Table[n], p), i, args),
                 vals[SKOf(Table[n], p)[i].field], args[SKOf(Table[n], p)[i].field])
<1> DEFINE e == Table[n]
           sk == SKOf(e, p)
           seg == sk[i]
           f == seg.field
           goType == GoType(e.fields, f)
           a == SKAttrFor(p.index)
<1>1. a \in KeyAttrs(e) /\ TemplateOf(e, a) = sk
  BY PatternFacts, KeyAttrOf, ZenonT(60) DEF SKOf
<1>2. i \in Placeholders(sk)
  BY DEF Placeholders
<1>3. EncodeAt(e, sk, i, vals) = EncodeValue(seg.enc, goType, vals[f]) /\ EncodeAt(e, sk, i, args) = EncodeValue(seg.enc, goType, args[f])
  BY DEF EncodeAt
<1> DEFINE x == vals[f]
           y == args[f]
<1>4. /\ \E r \in RowsOf(n) : x = r[f]
      /\ \E r \in RowsOf(n) : y = r[f]
      /\ EncodeValue(seg.enc, goType, x) # Refused /\ EncodeValue(seg.enc, goType, y) # Refused
      /\ FixedAt(sk, i, e.fields)
  BY <1>3
<1> HIDE DEF x, y
<1>5. Ordered(e, seg, EncodeValue(seg.enc, goType, x), EncodeValue(seg.enc, goType, y), x, y)
  <2> DEFINE t == TemplateOf(Table[n], a)
  <2>1. t = sk
    BY <1>1
  <2> HIDE DEF a, sk, t
  <2>2. /\ a \in KeyAttrs(Table[n]) /\ i \in Placeholders(t) /\ FixedAt(t, i, Table[n].fields)
        /\ seg = t[i] /\ goType = GoType(Table[n].fields, seg.field)
        /\ \E r \in RowsOf(n) : x = r[t[i].field]
        /\ \E r \in RowsOf(n) : y = r[t[i].field]
    BY <1>1, <1>2, <1>4, <2>1
  <2> HIDE DEF seg, goType
  <2>3. Ordered(Table[n], seg, EncodeValue(seg.enc, goType, x), EncodeValue(seg.enc, goType, y), x, y)
    BY <1>4, <2>2, FixedPlace DEF t
  <2> QED
    BY <2>3
<1> QED
  BY <1>3, <1>5 DEF x, y

\* The text of a range's value, behind the scope.
TextIs(e, p, args, P, y) == ValueString(e, p, args, FALSE) = P \o y

\* The value of a range, behind the scope.
LEMMA RangeText ==
  ASSUME NEW e, NEW p, NEW args, NEW v, NEW l, NEW m, NEW h, NEW c,
         ValueIs(e, p, args, v, l, m), ScopeIs(e, p, h, c, m), BoundIs(e, p, c, l)
  PROVE  /\ Scope(e, p) = Opening(h) /\ Opening(h) \in Str
         /\ TextIs(e, p, args, Opening(h), Join(RestOf(v, c)))
<1>1. /\ c \in Nat /\ c < l /\ l <= m /\ m \in Nat /\ l \in Nat
      /\ h \in Seq(HashFree) /\ Len(h) = c /\ v \in Seq(HashFree) /\ Len(v) = l /\ ~p.value.delim
      /\ Scope(e, p) = IF c < m THEN Opening(h) ELSE Join(h)
  BY DEF ValueIs, ScopeIs, BoundIs
<1>2. \A i \in 1 .. c : h[i] = v[i]
  <2>1. ASSUME NEW i \in 1 .. c PROVE h[i] = v[i]
    <3>1. i \in 1 .. l
      BY <1>1
    <3> QED
      BY <3>1 DEF ValueIs, ScopeIs
  <2> QED
    BY <2>1
<1>3. Opening(h) \in Str /\ Join(v) = Opening(h) \o Join(RestOf(v, c))
  BY <1>1, <1>2, OpeningTells
<1>4. ValueString(e, p, args, FALSE) = Join(v)
  BY <1>1, ValueText, ZenonT(60)
<1>5. c < m
  BY <1>1
<1> QED
  BY <1>1, <1>2, <1>3, <1>4, <1>5 DEF TextIs

\* The predecessor of a bound on the first placeholder.
LEMMA PredecessorTextIs ==
  ASSUME NEW e, NEW p, NEW args, NEW v, NEW l, NEW m, NEW h, NEW c, NEW q,
         ValueIs(e, p, args, v, l, m), ScopeIs(e, p, h, c, m), BoundIs(e, p, c, l),
         l = c + 1, q = PredOf(e, BoundSegment(p), args), q \in HashFree
  PROVE  q \in Str /\ PredFull(e, p, args) = Opening(h) \o q
<1>1. /\ c \in Nat /\ l \in Nat /\ h \in Seq(HashFree) /\ Len(h) = c
      /\ v \in Seq(HashFree) /\ Len(v) = l /\ DOMAIN Value(p) = 1 .. l /\ l = Len(Value(p))
  BY DEF ValueIs, ScopeIs
<1> DEFINE t == [i \in 1 .. l |-> IF i = l THEN q ELSE v[i]]
           u == RestOf(t, c)
<1>2. PredFull(e, p, args) = Join(t)
  <2>1. \A i \in 1 .. l : v[i] = EncodeAt(e, Value(p), i, args)
    BY DEF ValueIs
  <2> DEFINE f == [i \in DOMAIN Value(p) |-> IF i = Len(Value(p)) THEN PredOf(e, BoundSegment(p), args)
                                             ELSE EncodeAt(e, Value(p), i, args)]
  <2>2. f = t
    BY <1>1, <2>1
  <2>3. PredFull(e, p, args) = Join(f)
    BY DEF PredFull
  <2> HIDE DEF f, t
  <2> QED
    BY <2>2, <2>3
<1>3. t \in Seq(HashFree) /\ Len(t) = l
  <2>1. \A i \in 1 .. l : v[i] \in HashFree
    BY <1>1
  <2>2. t \in [1 .. l -> HashFree]
    BY <2>1
  <2> HIDE DEF t
  <2> QED
    BY <1>1, <2>2, FunctionIsSeq
<1>4. t[l] = q /\ \A i \in 1 .. c : t[i] = h[i]
  <2>1. ASSUME NEW i \in 1 .. c PROVE h[i] = v[i]
    <3>1. i \in 1 .. l
      BY <1>1
    <3> QED
      BY <3>1 DEF ValueIs, ScopeIs
  <2>2. l \in 1 .. l /\ \A i \in 1 .. c : i \in 1 .. l /\ i # l
    BY <1>1
  <2> QED
    BY <2>1, <2>2
<1> HIDE DEF t, u
<1>5. /\ u \in Seq(HashFree) /\ Len(u) = 1 /\ \A i \in 1 .. Len(t) - c : u[i] = t[c + i]
      /\ Join(t) = Opening(h) \o Join(u)
  <2>1. Len(h) < Len(t) /\ \A i \in 1 .. Len(h) : h[i] = t[i]
    BY <1>1, <1>3, <1>4
  <2>2. /\ u \in Seq(HashFree) /\ Len(u) = Len(t) - Len(h) /\ \A i \in 1 .. Len(t) - Len(h) : u[i] = t[Len(h) + i]
        /\ Join(t) = Opening(h) \o Join(u)
    BY <1>1, <1>3, <2>1, OpeningTells DEF u
  <2> QED
    BY <1>1, <1>3, <2>2
<1>6. Join(u) = q
  <2>1. 1 \in 1 .. Len(t) - c /\ c + 1 = l
    BY <1>1, <1>3
  <2>2. u[1] = q
    BY <1>4, <1>5, <2>1
  <2>3. u \in Seq(Str)
    BY <1>5, HashFreeSegments
  <2> QED
    BY <1>5, <2>2, <2>3, JoinOne
<1> QED
  BY <1>2, <1>5, <1>6 DEF HashFree

\* An item's key and a range's value, behind the scope: what their order says.
RangeParts(e, p, args, it, P, x, y) ==
  /\ Low(x) /\ Low(y) /\ Decided(x, y)
  /\ \E r \in Str : BelowSuffix(r) /\ Join(KeyOfItem(p, it)) = P \o (x \o r)
  /\ Less(x, y) <=> Below(e, p, Unmarshal(e, it.attrs), args)
  /\ Less(y, x) <=> ~(Below(e, p, Unmarshal(e, it.attrs), args) \/ SameHead(e, p, Unmarshal(e, it.attrs), args))

Ahead(e, p, args, c, l, x, y) ==
  l = c + 1 => LET q == PredOf(e, BoundSegment(p), args)
               IN  PredecessorTells(x, y, q, q # Refused) /\ (q # Refused => q \in HashFree)

OrderedFields(e, p, l, v, w, vals, args) ==
  LET seg == SKOf(e, p)[l] IN Ordered(e, seg, w[l], v[l], vals[seg.field], args[seg.field])

\* Below, in the order of the fields, is below in the order of the keys.
LEMMA BelowIs ==
  ASSUME NEW e, NEW p, NEW args, NEW v, NEW l, NEW m, NEW h, NEW c, NEW it, NEW w, NEW x, NEW y,
         ValueIs(e, p, args, v, l, m), ScopeIs(e, p, h, c, m), BoundIs(e, p, c, l), KeyIn(e, p, it, w, m),
         OrderedFields(e, p, l, v, w, Unmarshal(e, it.attrs), args),
         Less(x, y) <=> Less(Join(FirstOf(w, l)), Join(v)),
         l = c + 1 => x = w[l] /\ y = v[l]
  PROVE  Less(x, y) <=> Below(e, p, Unmarshal(e, it.attrs), args)
<1> DEFINE vals == Unmarshal(e, it.attrs)
           seg == BoundSegment(p)
           head(a) == Join([i \in 1 .. l |-> EncodeAt(e, Value(p), i, a)])
<1> HIDE DEF vals, seg
<1>1. /\ l = Len(Value(p)) /\ c = LeadingLiteralCut(SKOf(e, p)) /\ seg = SKOf(e, p)[l]
      /\ l \in Nat /\ l <= m /\ m \in Nat
  BY DEF ValueIs, ScopeIs, BoundIs, seg
<1>2. Below(e, p, vals, args)
        <=> IF l = c + 1 THEN FieldLess(e, seg, vals[seg.field], args[seg.field])
            ELSE Less(head(vals), head(args))
  BY <1>1 DEF Below, seg
<1>3. CASE l = c + 1
  <2>1. Less(w[l], v[l]) <=> FieldLess(e, seg, vals[seg.field], args[seg.field])
    BY <1>1 DEF OrderedFields, Ordered, vals
  <2> QED
    BY <1>2, <1>3, <2>1 DEF vals
<1>4. CASE l # c + 1
  <2>1. head(args) = Join(v)
    <3>1. v = [i \in 1 .. l |-> EncodeAt(e, Value(p), i, args)]
      BY DEF ValueIs, ValueSegments
    <3> QED
      BY <3>1
  <2>2. head(vals) = Join(FirstOf(w, l))
    <3>1. ASSUME NEW i \in 1 .. l PROVE w[i] = EncodeAt(e, Value(p), i, vals)
      <4>1. i \in 1 .. m
        BY <1>1
      <4> QED
        BY <4>1 DEF ValueIs, KeyIn, vals
    <3>2. FirstOf(w, l) = [i \in 1 .. l |-> EncodeAt(e, Value(p), i, vals)]
      BY <3>1 DEF FirstOf
    <3> QED
      BY <3>2
  <2> HIDE DEF head
  <2> QED
    BY <1>2, <1>4, <2>1, <2>2 DEF vals
<1> QED
  BY <1>3, <1>4

\* An item and the bound part behind the scope.
LEMMA RangePartsOf ==
  ASSUME NEW e, NEW p, NEW args, NEW v, NEW l, NEW m, NEW h, NEW c, NEW it, NEW w,
         ValueIs(e, p, args, v, l, m), ScopeIs(e, p, h, c, m), BoundIs(e, p, c, l), KeyIn(e, p, it, w, m),
         OrderedFields(e, p, l, v, w, Unmarshal(e, it.attrs), args), Low(w[c + 1]), Low(v[c + 1])
  PROVE  \E x : /\ RangeParts(e, p, args, it, Opening(h), x, Join(RestOf(v, c)))
                /\ Ahead(e, p, args, c, l, x, Join(RestOf(v, c)))
<1> DEFINE y == Join(RestOf(v, c))
           P == Opening(h)
           vals == Unmarshal(e, it.attrs)
<1>1. /\ c \in Nat /\ c < l /\ l <= m /\ m \in Nat /\ l \in Nat
      /\ h \in Seq(HashFree) /\ Len(h) = c /\ v \in Seq(HashFree) /\ Len(v) = l
      /\ w \in Seq(HashFree) /\ Len(w) = m /\ w = KeyOfItem(p, it)
  BY DEF ValueIs, ScopeIs, BoundIs, KeyIn
<1>2. \A i \in 1 .. c : h[i] = v[i] /\ h[i] = w[i]
  <2>1. ASSUME NEW i \in 1 .. c PROVE h[i] = v[i] /\ h[i] = w[i]
    <3>1. i \in 1 .. l /\ i \in 1 .. m
      BY <1>1
    <3> QED
      BY <3>1 DEF ValueIs, ScopeIs, KeyIn
  <2> QED
    BY <2>1
<1>3. Len(v[Len(v)]) = Len(w[Len(v)])
  BY <1>1 DEF OrderedFields, Ordered
<1>4. PICK x : Parted(P, x, y, v, w, c)
  <2>1. \A i \in 1 .. Len(h) : h[i] = v[i] /\ h[i] = w[i]
    BY <1>1, <1>2
  <2>2. \E x : Parted(Opening(h), x, Join(RestOf(v, Len(h))), v, w, Len(h))
    BY <1>1, <1>3, <2>1, PartKeys
  <2> QED
    BY <1>1, <2>2
<1> HIDE DEF y, P
<1>5. /\ P \in Str /\ x \in Str /\ y \in Str /\ Decided(x, y)
      /\ \E r \in Str : BelowSuffix(r) /\ Join(w) = P \o (x \o r)
  BY <1>4 DEF Parted
<1>6. x = y <=> \A i \in 1 .. l : w[i] = v[i]
  BY <1>1, <1>4 DEF Parted
<1>7. Low(x) /\ Low(y)
  <2>1. /\ x # <<>> /\ x[1] = w[c + 1][1]
        /\ y # <<>> /\ y[1] = v[c + 1][1]
    BY <1>4 DEF Parted, Low
  <2> QED
    BY <1>5, <2>1 DEF Low
<1>8. Less(x, y) <=> Below(e, p, vals, args)
  <2>1. /\ Less(x, y) <=> Less(Join(FirstOf(w, l)), Join(v))
        /\ l = c + 1 => x = w[l] /\ y = v[l]
    BY <1>1, <1>4 DEF Parted
  <2> QED
    BY <2>1, BelowIs
<1>9. SameHead(e, p, vals, args) <=> x = y
  BY <1>6, SameHeadIs
<1>10. Less(y, x) <=> ~(Below(e, p, vals, args) \/ SameHead(e, p, vals, args))
  <2>1. AtMost(x, y) <=> ~Less(y, x)
    BY <1>5, AtMostIff
  <2>2. AtMost(x, y) <=> x = y \/ Less(x, y)
    BY DEF AtMost
  <2> QED
    BY <1>8, <1>9, <2>1, <2>2
<1>11. RangeParts(e, p, args, it, P, x, y)
  BY <1>1, <1>5, <1>7, <1>8, <1>10 DEF RangeParts
<1>12. Ahead(e, p, args, c, l, x, y)
  <2> DEFINE seg == SKOf(e, p)[l]
             q == PredOf(e, seg, [f \in {seg.field} |-> args[seg.field]])
  <2>1. BoundSegment(p) = seg /\ q = PredOf(e, BoundSegment(p), args)
    BY DEF BoundIs, PredOf
  <2>2. PredecessorTells(w[l], v[l], q, q # Refused) /\ (q # Refused => q \in HashFree)
    BY DEF OrderedFields, Ordered
  <2>3. l = c + 1 => x = w[l] /\ y = v[l]
    BY <1>1, <1>4 DEF Parted
  <2> HIDE DEF q, seg
  <2> QED
    BY <2>1, <2>2, <2>3 DEF Ahead
<1> QED
  BY <1>11, <1>12 DEF P, y

\* A range with a value: its condition, and what it takes.
ConditionIs(e, p, args, P, y) ==
  /\ p.cond = "gt" => StaticCond(e, p, args) = SKAfter(P, P \o y)
  /\ p.cond = "gte" => StaticCond(e, p, args) = SKOnOrAfter(P, P \o y)
  /\ p.cond = "lte" => StaticCond(e, p, args) = SKOnOrBefore(P, P \o y)
  /\ p.cond = "lt" => StaticCond(e, p, args)
                        = SKBefore(P, P \o y, PredFull(e, p, args),
                                   PredOf(e, BoundSegment(p), args) # Refused)

\* The static condition of a range is one of the four.
LEMMA RangeCondition ==
  ASSUME NEW e, NEW p, NEW args, NEW P, NEW y, p.value # NoValue, Scope(e, p) = P,
         TextIs(e, p, args, P, y)
  PROVE  ConditionIs(e, p, args, P, y)
<1>1. CondKind(e, p) = p.cond
  BY DEF CondKind
<1>2. p.cond = "gt" => StaticCond(e, p, args) = SKAfter(P, P \o y)
  BY <1>1 DEF StaticCond, TextIs
<1>3. p.cond = "gte" => StaticCond(e, p, args) = SKOnOrAfter(P, P \o y)
  BY <1>1 DEF StaticCond, TextIs
<1>4. p.cond = "lte" => StaticCond(e, p, args) = SKOnOrBefore(P, P \o y)
  BY <1>1 DEF StaticCond, TextIs
<1>5. p.cond = "lt" => StaticCond(e, p, args)
                         = SKBefore(P, P \o y, PredFull(e, p, args), PredOf(e, BoundSegment(p), args) # Refused)
  BY <1>1 DEF StaticCond, TextIs
<1> QED
  BY <1>2, <1>3, <1>4, <1>5 DEF ConditionIs

RangeMeets(e, p, args, it) ==
  Matches(StaticCond(e, p, args), Join(KeyOfItem(p, it))) <=> Meets(e, p, Unmarshal(e, it.attrs), args)

\* The bound of an exclusive upper bound, where the predecessor is used.
BoundFollows(e, p, args, P, c, l) ==
  P # <<>> => /\ l = c + 1
              /\ PredOf(e, BoundSegment(p), args) # Refused =>
                   /\ PredOf(e, BoundSegment(p), args) \in Str
                   /\ PredFull(e, p, args) = P \o PredOf(e, BoundSegment(p), args)

\* It is never refused.
LEMMA RangeAccepts ==
  ASSUME NEW e, NEW p, NEW args, NEW P, NEW y, NEW c, NEW l, p.value # NoValue, p.cond \in Ranges, Scope(e, p) = P,
         P \in Str, Low(y), TextIs(e, p, args, P, y),
         p.cond = "lt" => BoundFollows(e, p, args, P, c, l)
  PROVE  Accepts(StaticCond(e, p, args))
<1> DEFINE q == PredOf(e, BoundSegment(p), args)
           pred == PredFull(e, p, args)
           ok == q # Refused
           bound == P \o y
<1>1. y \in Str /\ ConditionIs(e, p, args, P, y)
  BY RangeCondition DEF Low
<1>2. CASE p.cond = "gt"
  <2>1. StaticCond(e, p, args) = SKAfter(P, P \o y)
    BY <1>1, <1>2 DEF ConditionIs
  <2>2. Accepts(SKAfter(P, P \o y))
    BY AfterMatches
  <2> QED
    BY <2>1, <2>2
<1>3. CASE p.cond = "gte"
  <2>1. StaticCond(e, p, args) = SKOnOrAfter(P, P \o y)
    BY <1>1, <1>3 DEF ConditionIs
  <2>2. Accepts(SKOnOrAfter(P, P \o y))
    BY OnOrAfterMatches
  <2> QED
    BY <2>1, <2>2
<1>4. CASE p.cond = "lte"
  <2>1. StaticCond(e, p, args) = SKOnOrBefore(P, P \o y)
    BY <1>1, <1>4 DEF ConditionIs
  <2>2. Accepts(SKOnOrBefore(P, P \o y))
    BY <1>1, OnOrBeforeMatches
  <2> QED
    BY <2>1, <2>2
<1>5. CASE p.cond = "lt"
  <2>1. StaticCond(e, p, args) = SKBefore(P, bound, pred, ok)
    BY <1>1, <1>5 DEF ConditionIs
  <2>2. ok \in BOOLEAN /\ (ok /\ P # <<>> => q \in Str /\ pred = P \o q)
    BY <1>5 DEF BoundFollows
  <2>3. bound = P \o y
    OBVIOUS
  <2> HIDE DEF ok, q, pred, bound
  <2>4. Accepts(SKBefore(P, bound, pred, ok))
    BY <1>1, <2>2, <2>3, BeforeMatches
  <2> QED
    BY <2>1, <2>4
<1> QED
  BY <1>2, <1>3, <1>4, <1>5 DEF Ranges

\* It takes the items on its side of the bound.
LEMMA RangeTells ==
  ASSUME NEW e, NEW p, NEW args, NEW it, NEW P, NEW x, NEW y, NEW c, NEW l,
         p.value # NoValue, p.cond \in Ranges, Scope(e, p) = P, P \in Str,
         TextIs(e, p, args, P, y),
         RangeParts(e, p, args, it, P, x, y), Ahead(e, p, args, c, l, x, y),
         p.cond = "lt" => BoundFollows(e, p, args, P, c, l)
  PROVE  RangeMeets(e, p, args, it)
<1> DEFINE vals == Unmarshal(e, it.attrs)
           q == PredOf(e, BoundSegment(p), args)
           pred == PredFull(e, p, args)
           ok == q # Refused
           bound == P \o y
           below == Below(e, p, vals, args)
           same == SameHead(e, p, vals, args)
           key == Join(KeyOfItem(p, it))
<1>1. /\ Low(x) /\ Low(y) /\ Decided(x, y) /\ x \in Str /\ y \in Str
      /\ \E r \in Str : BelowSuffix(r) /\ key = P \o (x \o r)
      /\ Less(x, y) <=> below
      /\ Less(y, x) <=> ~(below \/ same)
  BY DEF RangeParts, Low
<1>9. ConditionIs(e, p, args, P, y)
  BY RangeCondition
<1>2. PICK r \in Str : BelowSuffix(r) /\ key = P \o (x \o r)
  BY <1>1
<1>3. /\ p.cond = "gt" => (Meets(e, p, vals, args) <=> ~(below \/ same))
      /\ p.cond = "gte" => (Meets(e, p, vals, args) <=> ~below)
      /\ p.cond = "lte" => (Meets(e, p, vals, args) <=> below \/ same)
      /\ p.cond = "lt" => (Meets(e, p, vals, args) <=> below)
  <2> HIDE DEF vals, below, same
  <2>1. p.cond = "gt" => (Meets(e, p, vals, args) <=> ~(below \/ same))
    BY DEF Meets, below, same
  <2>2. p.cond = "gte" => (Meets(e, p, vals, args) <=> ~below)
    BY DEF Meets, below, same
  <2>3. p.cond = "lte" => (Meets(e, p, vals, args) <=> below \/ same)
    BY DEF Meets, below, same
  <2>4. p.cond = "lt" => (Meets(e, p, vals, args) <=> below)
    BY DEF Meets, below, same
  <2> QED
    BY <2>1, <2>2, <2>3, <2>4
<1> DEFINE meets == Meets(e, p, vals, args)
           takes == Matches(StaticCond(e, p, args), key)
<1>4. RangeMeets(e, p, args, it) <=> (takes <=> meets)
  BY DEF RangeMeets
<1> HIDE DEF below, same, vals, meets
<1>5. ASSUME p.cond = "gt" PROVE takes <=> meets
  <2>1. StaticCond(e, p, args) = SKAfter(P, P \o y)
    BY <1>9, <1>5 DEF ConditionIs
  <2>2. Matches(SKAfter(P, P \o y), P \o (x \o r)) <=> Less(y, x)
    BY <1>1, <1>2, AfterMatches
  <2>3. takes <=> Less(y, x)
    BY <1>2, <2>1, <2>2
  <2> QED
    BY <1>1, <1>3, <1>5, <2>3 DEF meets
<1>6. ASSUME p.cond = "gte" PROVE takes <=> meets
  <2>1. StaticCond(e, p, args) = SKOnOrAfter(P, P \o y)
    BY <1>9, <1>6 DEF ConditionIs
  <2>2. Matches(SKOnOrAfter(P, P \o y), P \o (x \o r)) <=> ~Less(x, y)
    BY <1>1, <1>2, OnOrAfterMatches
  <2>3. takes <=> ~Less(x, y)
    BY <1>2, <2>1, <2>2
  <2> QED
    BY <1>1, <1>3, <1>6, <2>3 DEF meets
<1>7. ASSUME p.cond = "lte" PROVE takes <=> meets
  <2>1. StaticCond(e, p, args) = SKOnOrBefore(P, P \o y)
    BY <1>9, <1>7 DEF ConditionIs
  <2>2. Matches(SKOnOrBefore(P, P \o y), P \o (x \o r)) <=> ~Less(y, x)
    BY <1>1, <1>2, OnOrBeforeMatches
  <2>3. takes <=> ~Less(y, x)
    BY <1>2, <2>1, <2>2
  <2> QED
    BY <1>1, <1>3, <1>7, <2>3 DEF meets
<1>8. ASSUME p.cond = "lt" PROVE takes <=> meets
  <2>1. StaticCond(e, p, args) = SKBefore(P, bound, pred, ok)
    BY <1>9, <1>8 DEF ConditionIs
  <2>2. ok \in BOOLEAN /\ (ok /\ P # <<>> => q \in Str /\ pred = P \o q)
    BY <1>8 DEF BoundFollows
  <2>3. P # <<>> => PredecessorTells(x, y, q, ok)
    BY <1>8 DEF BoundFollows, Ahead
  <2>4. bound = P \o y
    OBVIOUS
  <2> HIDE DEF ok, q, pred, bound
  <2>5. Matches(SKBefore(P, bound, pred, ok), P \o (x \o r)) <=> Less(x, y)
    BY <1>1, <1>2, <2>2, <2>3, <2>4, BeforeMatches, ZenonT(60)
  <2>6. takes <=> Less(x, y)
    BY <1>2, <2>1, <2>5
  <2> QED
    BY <1>1, <1>3, <1>8, <2>6 DEF meets
<1> QED
  BY <1>4, <1>5, <1>6, <1>7, <1>8 DEF Ranges

\* The hypothesis, of a pattern.
LEMMA BoundFollowsLiterals ==
  ASSUME NEW n, NEW p, Checked(n), BoundsFollowLiterals, p \in Patterns(n), p.cond = "lt", p.value # NoValue
  PROVE  \/ LeadingLiteralCut(SKOf(Table[n], p)) = 0
         \/ Len(Value(p)) = LeadingLiteralCut(SKOf(Table[n], p)) + 1
<1>1. PICK x \in DOMAIN Table[n].patterns : p = Table[n].patterns[x]
  BY DEF Patterns
<1>2. design \in DOMAIN Designs /\ n \in DOMAIN Designs[design] /\ x \in DOMAIN Designs[design][n].patterns
      /\ p = Designs[design][n].patterns[x]
  BY <1>1 DEF Checked, Entities, Table
<1> QED
  BY <1>2 DEF BoundsFollowLiterals, Table

\* A placeholder of the sort key, as the arguments or an item fill it, begins
\* below the suffix.
LEMMA LowAt ==
  ASSUME NEW n, NEW p, NEW i, NEW vals, Checked(n), TextBelowSuffix, p \in Patterns(n), SKOf(Table[n], p) # NoSK,
         i \in DOMAIN SKOf(Table[n], p), SKOf(Table[n], p)[i].kind = "ph",
         \E r \in RowsOf(n) : vals[SKOf(Table[n], p)[i].field] = r[SKOf(Table[n], p)[i].field],
         EncodeAt(Table[n], SKOf(Table[n], p), i, vals) # Refused
  PROVE  Low(EncodeAt(Table[n], SKOf(Table[n], p), i, vals))
<1> DEFINE e == Table[n]
           sk == SKOf(e, p)
           a == SKAttrFor(p.index)
           t == TemplateOf(Table[n], a)
<1>1. a \in KeyAttrs(e) /\ t = sk
  BY PatternFacts, KeyAttrOf DEF SKOf
<1>2. i \in Placeholders(sk)
  BY DEF Placeholders
<1> HIDE DEF a, t
<1>3. /\ a \in KeyAttrs(Table[n]) /\ i \in Placeholders(t)
      /\ \E r \in RowsOf(n) : vals[t[i].field] = r[t[i].field]
      /\ EncodeAt(Table[n], t, i, vals) # Refused
  BY <1>1, <1>2
<1> HIDE DEF sk, e
<1>4. Low(EncodeAt(Table[n], t, i, vals))
  BY <1>3, LowPlace DEF t
<1> QED
  BY <1>1, <1>4 DEF sk, e

\* What a range's arguments give.
LEMMA RangeArguments ==
  ASSUME NEW n, NEW p, NEW args, NEW v, NEW l, NEW m, NEW h, NEW c, Checked(n), TextBelowSuffix, ULIDsAscii, BoundsFollowLiterals,
         p \in Patterns(n), p.value # NoValue, p.cond \in Ranges, SKOf(Table[n], p) # NoSK,
         ValueIs(Table[n], p, args, v, l, m), ScopeIs(Table[n], p, h, c, m), BoundIs(Table[n], p, c, l),
         Placed(n, SKOf(Table[n], p), args, l)
  PROVE  /\ Low(v[c + 1]) /\ Low(Join(RestOf(v, c)))
         /\ p.cond = "lt" => BoundFollows(Table[n], p, args, Opening(h), c, l)
<1> DEFINE e == Table[n]
           sk == SKOf(e, p)
           y == Join(RestOf(v, c))
<1>1. /\ c \in Nat /\ c < l /\ l <= m /\ m \in Nat /\ l \in Nat /\ l = Len(Value(p)) /\ c = LeadingLiteralCut(sk)
      /\ h \in Seq(HashFree) /\ Len(h) = c /\ v \in Seq(HashFree) /\ Len(v) = l /\ DOMAIN sk = 1 .. m
  <2>1. DOMAIN sk = 1 .. Len(sk)
    <3>1. SKAttrFor(p.index) \in KeyAttrs(e) /\ TemplateOf(e, SKAttrFor(p.index)) = sk
      BY PatternFacts, KeyAttrOf DEF SKOf
    <3>2. sk \in Seq(Segments)
      BY <3>1, KeyTemplatesWellFormed DEF Checked, WellFormed
    <3> QED
      BY <3>2
  <2> QED
    BY <2>1 DEF ValueIs, ScopeIs, BoundIs
<1>2. c + 1 \in 1 .. l /\ l \in 1 .. l /\ c + 1 \in DOMAIN sk /\ l \in DOMAIN sk
  BY <1>1
<1>3. /\ v[c + 1] = EncodeAt(e, sk, c + 1, args) /\ v[c + 1] # <<>> /\ v[c + 1] # Refused
      /\ v[l] = EncodeAt(e, sk, l, args) /\ v[l] # Refused
  BY <1>2 DEF ValueIs
<1>4. sk[c + 1].kind = "ph" /\ sk[l].kind = "ph" /\ FixedAt(sk, l, e.fields) /\ BoundSegment(p) = sk[l]
  BY DEF BoundIs
<1>5. /\ \E r \in RowsOf(n) : args[sk[c + 1].field] = r[sk[c + 1].field]
      /\ \E r \in RowsOf(n) : args[sk[l].field] = r[sk[l].field]
  BY <1>2, <1>4 DEF Placed
<1>6. Low(v[c + 1])
  BY <1>2, <1>3, <1>4, <1>5, LowAt
<1>7. Low(y)
  <2> DEFINE b == RestOf(v, c)
  <2>1. b \in Seq(HashFree) /\ Len(b) = l - c /\ \A i \in 1 .. l - c : b[i] = v[c + i]
    <3>1. c \in 0 .. Len(v)
      BY <1>1
    <3>2. RestOf(v, c) \in Seq(HashFree) /\ Len(RestOf(v, c)) = Len(v) - c
      BY <1>1, <3>1, Taken
    <3>3. \A i \in 1 .. Len(v) - c : RestOf(v, c)[i] = v[c + i]
      BY DEF RestOf
    <3> QED
      BY <1>1, <3>2, <3>3
  <2> HIDE DEF b
  <2>2. Len(b) >= 1 /\ b[1] = v[c + 1]
    BY <1>1, <2>1
  <2>3. Join(b) \in Str /\ Join(b) # <<>> /\ Join(b)[1] = b[1][1]
    BY <1>3, <2>1, <2>2, JoinBegins
  <2> QED
    BY <1>6, <2>2, <2>3 DEF Low, b
<1>8. ASSUME p.cond = "lt" PROVE BoundFollows(e, p, args, Opening(h), c, l)
  <2> DEFINE q == PredOf(e, BoundSegment(p), args)
             seg == sk[l]
  <2>1. c = 0 \/ l = c + 1
    BY <1>1, <1>8, BoundFollowsLiterals
  <2>2. q # Refused => q \in HashFree
    <3>1. Ordered(e, seg, EncodeAt(e, sk, l, args), EncodeAt(e, sk, l, args), args[seg.field], args[seg.field])
      BY <1>2, <1>3, <1>4, <1>5, PlaceOrdered
    <3> DEFINE g == PredOf(e, seg, [f \in {seg.field} |-> args[seg.field]])
    <3>2. q = g
      BY <1>4 DEF PredOf
    <3> HIDE DEF q, seg, e, sk
    <3>3. g # Refused => g \in HashFree
      BY <3>1 DEF Ordered
    <3> HIDE DEF g
    <3> QED
      BY <3>2, <3>3
  <2>3. CASE c = 0
    <3>1. h = <<>>
      BY <1>1, <2>3, EmptyOrNot
    <3> QED
      BY <3>1 DEF BoundFollows, Opening
  <2>4. CASE l = c + 1
    <3>1. q # Refused => q \in Str /\ PredFull(e, p, args) = Opening(h) \o q
      BY <2>2, <2>4, PredecessorTextIs
    <3> QED
      BY <2>4, <3>1 DEF BoundFollows
  <2> QED
    BY <2>1, <2>3, <2>4
<1> QED
  BY <1>6, <1>7, <1>8

------------------------------------------------------------------------------
(* The queries of a pattern.                                                *)

\* A query of a pattern, in a state the client reaches.
Asked(n, p, args) ==
  /\ QInv /\ Checked(n) /\ OneEncoderEach /\ TypeMarksApart /\ ULIDsAscii
  /\ p \in Patterns(n) /\ args \in Args(n, p) /\ CanQuery(Table[n], p, args)

\* A pattern with a bound.
LEMMA RangeQuery ==
  ASSUME NEW n, NEW p, NEW args, Asked(n, p, args), TextBelowSuffix, BoundsFollowLiterals,
         p.value # NoValue, p.cond \in Ranges
  PROVE  /\ Accepts(StaticCond(Table[n], p, args))
         /\ \A it \in items : it.ent = n => RangeMeets(Table[n], p, args, it)
<1> DEFINE e == Table[n]
           sk == SKOf(e, p)
           v == ValueSegments(e, p, args)
           l == Len(Value(p))
           m == Len(sk)
           h == LiteralsOf(e, p)
           c == LeadingLiteralCut(sk)
           P == Opening(h)
           y == Join(RestOf(v, c))
<1>1. Checked(n) /\ p \in Patterns(n) /\ QInv /\ OneEncoderEach /\ ULIDsAscii
  BY DEF Asked
<1>2. sk # NoSK /\ ValueIs(e, p, args, v, l, m) /\ Placed(n, sk, args, l)
  BY ArgumentSegments DEF Asked
<1>3. ScopeIs(e, p, h, c, m)
  BY <1>1, <1>2, ScopeOf
<1> HIDE DEF v, l, m, h, c
<1>4. BoundIs(e, p, c, l)
  BY <1>1, <1>2, <1>3, BoundOf
<1>5. Low(v[c + 1]) /\ Low(y) /\ (p.cond = "lt" => BoundFollows(e, p, args, P, c, l))
  BY <1>1, <1>2, <1>3, <1>4, RangeArguments
<1>6. /\ Scope(e, p) = P /\ P \in Str
      /\ TextIs(e, p, args, P, y)
  <2>1. Scope(e, p) = Opening(h) /\ Opening(h) \in Str
    BY <1>2, <1>3, <1>4, RangeText
  <2>2. TextIs(e, p, args, Opening(h), Join(RestOf(v, c)))
    BY <1>2, <1>3, <1>4, RangeText
  <2> QED
    BY <2>1, <2>2
<1> HIDE DEF P, y
<1>7. Accepts(StaticCond(e, p, args))
  BY <1>5, <1>6, RangeAccepts
<1>8. ASSUME NEW it \in items, it.ent = n PROVE RangeMeets(e, p, args, it)
  <2> DEFINE w == KeyOfItem(p, it)
             vals == Unmarshal(e, it.attrs)
  <2>1. KeyIn(e, p, it, w, m) /\ FromRows(n, FieldsOf(sk), vals)
    BY <1>1, <1>2, <1>8, KeyOfMember DEF m
  <2> HIDE DEF w, vals
  <2>2. /\ c \in Nat /\ c < l /\ l <= m /\ m \in Nat /\ l \in Nat /\ DOMAIN sk = 1 .. m
        /\ sk[l].kind = "ph" /\ sk[c + 1].kind = "ph" /\ FixedAt(sk, l, e.fields)
    <3>1. sk \in Seq(Segments)
      <4>1. SKAttrFor(p.index) \in KeyAttrs(e) /\ TemplateOf(e, SKAttrFor(p.index)) = sk
        BY <1>1, <1>2, PatternFacts, KeyAttrOf DEF SKOf
      <4> QED
        BY <1>1, <4>1, KeyTemplatesWellFormed DEF Checked, WellFormed
    <3>2. DOMAIN sk = 1 .. m
      BY <3>1 DEF m
    <3> QED
      BY <1>2, <1>3, <1>4, <3>2 DEF ValueIs, ScopeIs, BoundIs
  <2>3. c + 1 \in 1 .. m /\ l \in 1 .. m /\ l \in 1 .. l
    BY <2>2
  <2>4. /\ w[c + 1] = EncodeAt(e, sk, c + 1, vals) /\ w[c + 1] # Refused
        /\ w[l] = EncodeAt(e, sk, l, vals) /\ w[l] # Refused
        /\ v[l] = EncodeAt(e, sk, l, args) /\ v[l] # Refused
    BY <1>2, <2>1, <2>3 DEF KeyIn, ValueIs, vals
  <2>5. /\ \E r \in RowsOf(n) : vals[sk[c + 1].field] = r[sk[c + 1].field]
        /\ \E r \in RowsOf(n) : vals[sk[l].field] = r[sk[l].field]
        /\ \E r \in RowsOf(n) : args[sk[l].field] = r[sk[l].field]
    <3>1. sk[c + 1].field \in FieldsOf(sk) /\ sk[l].field \in FieldsOf(sk)
      BY <2>2, <2>3 DEF FieldsOf, Placeholders
    <3>2. \E r \in RowsOf(n) : args[sk[l].field] = r[sk[l].field]
      BY <1>2, <2>2, <2>3 DEF Placed
    <3> QED
      BY <2>1, <3>1, <3>2 DEF FromRows
  <2>6. Low(w[c + 1])
    BY <1>1, <1>2, <2>2, <2>3, <2>4, <2>5, LowAt
  <2>7. OrderedFields(e, p, l, v, w, vals, args)
    <3> DEFINE seg == sk[l]
    <3>1. Ordered(e, seg, EncodeAt(e, sk, l, vals), EncodeAt(e, sk, l, args), vals[seg.field], args[seg.field])
      BY <1>1, <1>2, <2>2, <2>3, <2>4, <2>5, PlaceOrdered
    <3> QED
      BY <2>4, <3>1 DEF OrderedFields
  <2>8. \E x : RangeParts(e, p, args, it, P, x, y) /\ Ahead(e, p, args, c, l, x, y)
    BY <1>2, <1>3, <1>4, <1>5, <2>1, <2>6, <2>7, RangePartsOf DEF P, y, vals
  <2> QED
    BY <1>5, <1>6, <2>8, RangeTells
<1> QED
  BY <1>7, <1>8 DEF y

\* The other conditions.
LEMMA PlainQuery ==
  ASSUME NEW n, NEW p, NEW args, Asked(n, p, args), ~(p.value # NoValue /\ p.cond \in Ranges)
  PROVE  /\ Accepts(StaticCond(Table[n], p, args))
         /\ SKOf(Table[n], p) # NoSK =>
              \A it \in items : it.ent = n => RangeMeets(Table[n], p, args, it)
<1> DEFINE e == Table[n]
           sk == SKOf(e, p)
           v == ValueSegments(e, p, args)
           l == Len(Value(p))
           m == Len(sk)
           h == LiteralsOf(e, p)
           c == LeadingLiteralCut(sk)
           cond == StaticCond(e, p, args)
           takes(it) == Matches(cond, Join(KeyOfItem(p, it)))
           meets(it) == Meets(e, p, Unmarshal(e, it.attrs), args)
<1>1. Checked(n) /\ p \in Patterns(n) /\ QInv /\ OneEncoderEach
  BY DEF Asked
<1>2. ASSUME NEW it \in items, it.ent = n, sk # NoSK
      PROVE  KeyIn(e, p, it, KeyOfItem(p, it), m) /\ ScopeIs(e, p, h, c, m)
  BY <1>1, <1>2, KeyOfMember, ScopeOf
<1>3. CASE p.value = NoValue
  <2>1. \A it : meets(it)
    BY <1>3 DEF Meets
  <2>2. CASE CondKind(e, p) = ""
    <3>1. cond = SKNone
      BY <2>2 DEF StaticCond
    <3>2. Accepts(SKNone) /\ \A s : Matches(SKNone, s)
      BY DEF Accepts, Matches, SKNone, SKCond
    <3> HIDE DEF cond, meets
    <3> QED
      BY <2>1, <3>1, <3>2 DEF RangeMeets, cond, meets
  <2>3. CASE CondKind(e, p) # ""
    <3>1. CondKind(e, p) = "implicit" /\ SKPrefix(e, p, args) = Scope(e, p)
      BY <1>3, <2>3 DEF CondKind, SKPrefix
    <3>2. cond = SKBegins(Scope(e, p))
      BY <3>1 DEF StaticCond
    <3>3. Accepts(SKBegins(Scope(e, p))) /\ \A s : Matches(SKBegins(Scope(e, p)), s) <=> IsPrefix(Scope(e, p), s)
      BY DEF Accepts, Matches, SKBegins, SKCond
    <3> HIDE DEF cond, meets, h, c, m
    <3>4. ASSUME NEW it \in items, it.ent = n, sk # NoSK PROVE takes(it)
      <4>1. KeyIn(e, p, it, KeyOfItem(p, it), m) /\ ScopeIs(e, p, h, c, m)
        BY <1>2, <3>4
      <4>2. IsPrefix(Scope(e, p), Join(KeyOfItem(p, it)))
        BY <4>1, ScopeBegins
      <4> QED
        BY <3>2, <3>3, <4>2
    <3> QED
      BY <2>1, <3>2, <3>3, <3>4 DEF RangeMeets, cond, meets
  <2> QED
    BY <2>2, <2>3
<1>4. CASE p.value # NoValue
  <2>1. PatternParses(e, p) /\ Satisfiable(e, p)
    BY <1>1, PatternFacts
  <2>2. p.cond \in {"eq", "begins"} /\ CondKind(e, p) = p.cond
    BY <1>4, <2>1 DEF PatternParses, Conds, CondKind
  <2>3. sk # NoSK /\ ValueIs(e, p, args, v, l, m)
    BY <1>4, ArgumentSegments DEF Asked
  <2>4. /\ p.cond = "eq" => l = m /\ ~p.value.delim
        /\ p.cond = "begins" => ~(l = m /\ p.value.delim)
    BY <1>4, <2>1 DEF Satisfiable, SKOf, Value
  <2>5. CASE p.cond = "eq"
    <3>1. cond = SKEq(ValueString(e, p, args, FALSE))
      BY <2>2, <2>5 DEF StaticCond
    <3> DEFINE s == ValueString(e, p, args, FALSE)
    <3>2. Accepts(SKEq(s)) /\ \A t : Matches(SKEq(s), t) <=> t = s
      BY DEF Accepts, Matches, SKEq, SKCond
    <3>3. \A it : meets(it) <=> SameHead(e, p, Unmarshal(e, it.attrs), args)
      BY <1>4, <2>5 DEF Meets
    <3> HIDE DEF cond, meets, h, c, m, l, v
    <3>4. ASSUME NEW it \in items, it.ent = n PROVE takes(it) <=> meets(it)
      <4>1. KeyIn(e, p, it, KeyOfItem(p, it), m)
        BY <1>2, <2>3, <3>4
      <4>2. Join(KeyOfItem(p, it)) = s <=> SameHead(e, p, Unmarshal(e, it.attrs), args)
        BY <2>3, <2>4, <2>5, <4>1, EqualTells
      <4> HIDE DEF s
      <4> QED
        BY <3>1, <3>2, <3>3, <4>2 DEF s
    <3> QED
      BY <3>1, <3>2, <3>4 DEF RangeMeets, cond, meets
  <2>6. CASE p.cond = "begins"
    <3> DEFINE s == SKPrefix(e, p, args)
    <3>1. cond = SKBegins(s)
      BY <2>2, <2>6 DEF StaticCond
    <3>2. Accepts(SKBegins(s)) /\ \A t : Matches(SKBegins(s), t) <=> IsPrefix(s, t)
      BY DEF Accepts, Matches, SKBegins, SKCond
    <3>3. \A it : meets(it) <=> Begins(e, p, Unmarshal(e, it.attrs), args)
      BY <1>4, <2>6 DEF Meets
    <3> HIDE DEF cond, meets, h, c, m, l, v
    <3>4. ASSUME NEW it \in items, it.ent = n PROVE takes(it) <=> meets(it)
      <4>1. KeyIn(e, p, it, KeyOfItem(p, it), m)
        BY <1>2, <2>3, <3>4
      <4>2. IsPrefix(s, Join(KeyOfItem(p, it))) <=> Begins(e, p, Unmarshal(e, it.attrs), args)
        BY <1>4, <2>3, <2>4, <2>6, <4>1, BeginsTells
      <4> HIDE DEF s
      <4> QED
        BY <3>1, <3>2, <3>3, <4>2 DEF s
    <3> QED
      BY <3>1, <3>2, <3>4 DEF RangeMeets, cond, meets
  <2> QED
    BY <2>2, <2>5, <2>6
<1> QED
  BY <1>3, <1>4

\* A pattern's static query.
LEMMA PatternQuery ==
  ASSUME NEW n, NEW p, NEW args, Asked(n, p, args), TextBelowSuffix, BoundsFollowLiterals
  PROVE  /\ Accepts(StaticCond(Table[n], p, args))
         /\ Result(Table[n], p, args, StaticCond(Table[n], p, args)) = Wanted(n, p, args)
<1> DEFINE e == Table[n]
           cond == StaticCond(e, p, args)
           sk == SKOf(e, p)
<1>2. Accepts(cond)
  <2>1. CASE p.value # NoValue /\ p.cond \in Ranges
    BY <2>1, RangeQuery
  <2>2. CASE ~(p.value # NoValue /\ p.cond \in Ranges)
    BY <2>2, PlainQuery
  <2> QED
    BY <2>1, <2>2
<1>3. ASSUME sk # NoSK, NEW it \in items, it.ent = n PROVE RangeMeets(e, p, args, it)
  <2>1. CASE p.value # NoValue /\ p.cond \in Ranges
    BY <1>3, <2>1, RangeQuery
  <2>2. CASE ~(p.value # NoValue /\ p.cond \in Ranges)
    BY <1>3, <2>2, PlainQuery
  <2> QED
    BY <2>1, <2>2
<1>4. sk = NoSK => p.value = NoValue
  BY ArgumentSegments DEF Asked
<1>5. Result(e, p, args, cond)
        = {it \in Members(n, p, args) : sk # NoSK => Matches(cond, Join(it.attrs[SKAttrFor(p.index)]))}
  BY ResultIs DEF Asked
<1> HIDE DEF e, cond, sk
<1>6. ASSUME NEW it \in Members(n, p, args)
      PROVE  (sk # NoSK => Matches(cond, Join(it.attrs[SKAttrFor(p.index)])))
               <=> Meets(e, p, Unmarshal(e, it.attrs), args)
  <2>1. it \in items /\ it.ent = n
    BY DEF Members
  <2>2. CASE sk # NoSK
    BY <1>3, <2>1, <2>2 DEF RangeMeets, KeyOfItem, cond
  <2>3. CASE sk = NoSK
    BY <1>4, <2>3 DEF Meets
  <2> QED
    BY <2>2, <2>3
<1>7. Wanted(n, p, args) = {it \in Members(n, p, args) : Meets(e, p, Unmarshal(e, it.attrs), args)}
  BY DEF Wanted, e
<1> QED
  BY <1>2, <1>5, <1>6, <1>7 DEF e, cond

------------------------------------------------------------------------------
(* After, Before and Between.                                               *)

\* The segment that After, Before and Between are about.
LEMMA FixedRange ==
  ASSUME NEW n, NEW p, NEW v, NEW w, Checked(n), ULIDsAscii, p \in Patterns(n), HasRange(Table[n], p),
         \E r \in RowsOf(n) : v = r[RangeSegment(Table[n], p).field],
         \E r \in RowsOf(n) : w = r[RangeSegment(Table[n], p).field],
         RangeEnc(Table[n], p, v) # Refused, RangeEnc(Table[n], p, w) # Refused
  PROVE  Ordered(Table[n], RangeSegment(Table[n], p), RangeEnc(Table[n], p, v), RangeEnc(Table[n], p, w), v, w)
<1> DEFINE e == Table[n]
           sk == SKOf(e, p)
           i == Cut(e, p) + 1
           seg == RangeSegment(e, p)
           goType == GoType(e.fields, seg.field)
           a == SKAttrFor(p.index)
           t == TemplateOf(Table[n], a)
<1>1. a \in KeyAttrs(e) /\ t = sk
  BY PatternFacts, KeyAttrOf DEF SKOf, HasRange
<1>2. /\ Cut(e, p) < Len(sk) /\ sk[i].kind = "ph" /\ FixedAt(sk, i, e.fields) /\ seg = sk[i]
  BY DEF HasRange, RangeEligible, HasNext, RangeSegment
<1>3. i \in DOMAIN sk
  <2>1. sk \in Seq(Segments)
    BY <1>1, KeyTemplatesWellFormed DEF Checked, WellFormed
  <2>2. ScopeIs(e, p, LiteralsOf(e, p), LeadingLiteralCut(sk), Len(sk))
    BY ScopeOf DEF HasRange
  <2>3. Cut(e, p) \in Nat
    <3>1. LeadingLiteralCut(sk) \in Nat
      BY <2>2 DEF ScopeIs
    <3>2. p.value # NoValue => Len(Value(p)) \in Nat
      <4>1. p.value # NoValue => Value(p) \in Seq(Segments)
        BY PatternFacts DEF PatternParses, IsCondition, IsTemplate, Value
      <4> QED
        BY <4>1
    <3> QED
      BY <3>1, <3>2 DEF Cut
  <2> HIDE DEF sk
  <2> QED
    BY <1>2, <2>1, <2>3
<1>4. RangeEnc(e, p, v) = EncodeValue(seg.enc, goType, v) /\ RangeEnc(e, p, w) = EncodeValue(seg.enc, goType, w)
  BY DEF RangeEnc
<1> HIDE DEF a, t, sk, i
<1>5. /\ a \in KeyAttrs(Table[n]) /\ i \in Placeholders(t) /\ FixedAt(t, i, Table[n].fields)
      /\ seg = t[i] /\ goType = GoType(Table[n].fields, seg.field)
      /\ \E r \in RowsOf(n) : v = r[t[i].field]
      /\ \E r \in RowsOf(n) : w = r[t[i].field]
  BY <1>1, <1>2, <1>3 DEF Placeholders
<1> HIDE DEF seg, goType
<1>6. EncodeValue(seg.enc, goType, v) # Refused /\ EncodeValue(seg.enc, goType, w) # Refused
  BY <1>4
<1>7. Ordered(Table[n], seg, EncodeValue(seg.enc, goType, v), EncodeValue(seg.enc, goType, w), v, w)
  BY <1>5, <1>6, FixedPlace DEF t
<1> QED
  BY <1>4, <1>7 DEF seg

\* What a range method starts from: its prefix, and that the prefix says
\* what the pattern asks for.
PrefixIs(e, p, args, g, m) ==
  /\ SKPrefix(e, p, args) = Opening(g) /\ Opening(g) \in Str /\ g \in Seq(HashFree)
  /\ Len(g) = Cut(e, p) /\ Cut(e, p) \in Nat /\ m \in Nat /\ Cut(e, p) < m /\ m = Len(SKOf(e, p))

PrefixMeets(e, p, args, it) ==
  Meets(e, p, Unmarshal(e, it.attrs), args) <=> IsPrefix(SKPrefix(e, p, args), Join(KeyOfItem(p, it)))

\* What the range methods put their bounds behind, and the items it selects.
LEMMA PrefixOf ==
  ASSUME NEW n, NEW p, NEW args, Asked(n, p, args), HasRange(Table[n], p)
  PROVE  /\ \E g : PrefixIs(Table[n], p, args, g, Len(SKOf(Table[n], p)))
         /\ \A it \in items : it.ent = n => PrefixMeets(Table[n], p, args, it)
<1> DEFINE e == Table[n]
           sk == SKOf(e, p)
           m == Len(sk)
           h == LiteralsOf(e, p)
           c == LeadingLiteralCut(sk)
           v == ValueSegments(e, p, args)
           l == Len(Value(p))
<1>1. Checked(n) /\ p \in Patterns(n) /\ QInv /\ OneEncoderEach
  BY DEF Asked
<1>2. sk # NoSK /\ CondKind(e, p) \in {"", "implicit", "begins"} /\ Cut(e, p) < m
  BY DEF HasRange, RangeEligible, HasNext
<1>3. ScopeIs(e, p, h, c, m)
  BY <1>1, <1>2, ScopeOf
<1>4. ASSUME NEW it \in items, it.ent = n PROVE KeyIn(e, p, it, KeyOfItem(p, it), m)
  BY <1>1, <1>2, <1>4, KeyOfMember
<1>5. CASE p.value = NoValue
  <2>1. SKPrefix(e, p, args) = Scope(e, p) /\ Cut(e, p) = c
    BY <1>5 DEF SKPrefix, Cut
  <2>2. /\ m \in Nat /\ c \in Nat /\ h \in Seq(HashFree) /\ Len(h) = c
        /\ Scope(e, p) = IF c < m THEN Opening(h) ELSE Join(h)
    BY <1>3 DEF ScopeIs
  <2>3. Opening(h) \in Str
    <3>1. h = <<>> \/ Len(h) >= 1
      BY <2>2
    <3>2. CASE Len(h) >= 1
      BY <2>2, <3>2, JoinString, OpenOne, NoOpening DEF Opening
    <3>3. CASE h = <<>>
      BY <3>3 DEF Opening, Str
    <3> QED
      BY <3>1, <3>2, <3>3
  <2> HIDE DEF h, c, m
  <2>4. PrefixIs(e, p, args, h, m)
    BY <1>2, <2>1, <2>2, <2>3 DEF PrefixIs, m
  <2>5. ASSUME NEW it \in items, it.ent = n PROVE PrefixMeets(e, p, args, it)
    <3>1. KeyIn(e, p, it, KeyOfItem(p, it), m)
      BY <1>4, <2>5
    <3>2. IsPrefix(Scope(e, p), Join(KeyOfItem(p, it)))
      BY <1>3, <3>1, ScopeBegins
    <3>3. Meets(e, p, Unmarshal(e, it.attrs), args)
      BY <1>5 DEF Meets
    <3> QED
      BY <2>1, <3>2, <3>3 DEF PrefixMeets
  <2> QED
    BY <2>4, <2>5 DEF m
<1>6. CASE p.value # NoValue
  <2>1. ValueIs(e, p, args, v, l, m)
    BY <1>6, ArgumentSegments DEF Asked
  <2>2. p.cond = "begins" /\ Cut(e, p) = l
    BY <1>2, <1>6, <1>1, PatternFacts DEF CondKind, PatternParses, Conds, Ranges, Cut
  <2>3. l \in Nat \ {0} /\ m \in Nat /\ v \in Seq(HashFree) /\ Len(v) = l /\ l < m
    BY <1>2, <2>1, <2>2 DEF ValueIs
  <2>4. SKPrefix(e, p, args) = Opening(v)
    <3> DEFINE d == Cut(e, p) < Len(SKOf(e, p))
    <3>1. SKPrefix(e, p, args) = ValueString(e, p, args, d)
      BY <1>6 DEF SKPrefix
    <3>2. d
      BY <1>2
    <3> HIDE DEF d, v, l, m
    <3>3. ValueString(e, p, args, d) = IF p.value.delim \/ d THEN Opening(v) ELSE Join(v)
      BY <2>1, ValueText
    <3> QED
      BY <3>1, <3>2, <3>3
  <2> HIDE DEF v, l, m
  <2>5. Opening(v) \in Str
    <3>1. Join(v) \in Str /\ v # <<>>
      BY <2>3, JoinString
    <3> QED
      BY <3>1, OpenOne, NoOpening DEF Opening
  <2>6. PrefixIs(e, p, args, v, m)
    BY <2>2, <2>3, <2>4, <2>5 DEF PrefixIs, m
  <2>7. ASSUME NEW it \in items, it.ent = n PROVE PrefixMeets(e, p, args, it)
    <3>1. KeyIn(e, p, it, KeyOfItem(p, it), m)
      BY <1>4, <2>7
    <3>2. ~(l = m /\ p.value.delim)
      BY <2>3
    <3>3. IsPrefix(SKPrefix(e, p, args), Join(KeyOfItem(p, it))) <=> Begins(e, p, Unmarshal(e, it.attrs), args)
      BY <1>6, <2>1, <3>1, <3>2, BeginsTells
    <3>4. Meets(e, p, Unmarshal(e, it.attrs), args) <=> Begins(e, p, Unmarshal(e, it.attrs), args)
      BY <1>6, <2>2 DEF Meets
    <3> QED
      BY <3>3, <3>4 DEF PrefixMeets
  <2> QED
    BY <2>6, <2>7 DEF m
<1> QED
  BY <1>5, <1>6

\* Where an item's key has the field that a range method is about.
RangeItemIs(n, p, args, it) ==
  LET e == Table[n]
      x == RangeEnc(e, p, FieldIn(e, p, it))
      key == Join(KeyOfItem(p, it))
      meets == Meets(e, p, Unmarshal(e, it.attrs), args)
  IN  /\ \E r \in RowsOf(n) : FieldIn(e, p, it) = r[RangeSegment(e, p).field]
      /\ x # Refused /\ key \in Str
      /\ meets <=> IsPrefix(SKPrefix(e, p, args), key)
      /\ meets => \E r \in Str : BelowSuffix(r) /\ key = SKPrefix(e, p, args) \o (x \o r)

\* A selected item's key goes on with the range field's segment.
LEMMA RangeItem ==
  ASSUME NEW n, NEW p, NEW args, NEW it, Asked(n, p, args), HasRange(Table[n], p), it \in items, it.ent = n
  PROVE  RangeItemIs(n, p, args, it)
<1> DEFINE e == Table[n]
           sk == SKOf(e, p)
           m == Len(sk)
           k == Cut(e, p)
           w == KeyOfItem(p, it)
           vals == Unmarshal(e, it.attrs)
           seg == RangeSegment(e, p)
           x == RangeEnc(e, p, FieldIn(e, p, it))
           P == SKPrefix(e, p, args)
           meets == Meets(e, p, vals, args)
<1>1. Checked(n) /\ p \in Patterns(n) /\ QInv /\ OneEncoderEach
  BY DEF Asked
<1>2. sk # NoSK /\ seg = sk[k + 1] /\ seg.kind = "ph"
  BY DEF HasRange, RangeEligible, HasNext, RangeSegment
<1>3. PICK g : PrefixIs(e, p, args, g, m)
  BY PrefixOf
<1>4. KeyIn(e, p, it, w, m) /\ FromRows(n, FieldsOf(sk), vals)
  BY <1>1, <1>2, KeyOfMember
<1>5. meets <=> IsPrefix(P, Join(w))
  BY PrefixOf DEF PrefixMeets
<1>6. /\ P = Opening(g) /\ g \in Seq(HashFree) /\ Len(g) = k /\ k \in Nat /\ m \in Nat /\ k < m
      /\ w \in Seq(HashFree) /\ Len(w) = m
  BY <1>3, <1>4 DEF PrefixIs, KeyIn
<1>7. DOMAIN sk = 1 .. m
  <2>1. SKAttrFor(p.index) \in KeyAttrs(e) /\ TemplateOf(e, SKAttrFor(p.index)) = sk
    BY <1>1, <1>2, PatternFacts, KeyAttrOf DEF SKOf
  <2>2. sk \in Seq(Segments)
    BY <1>1, <2>1, KeyTemplatesWellFormed DEF Checked, WellFormed
  <2> QED
    BY <2>2
<1> HIDE DEF sk, m, k, w, vals, P, meets, seg
<1>8. k + 1 \in 1 .. m
  BY <1>6
<1>9. w[k + 1] = x /\ x # Refused
  <2>1. w[k + 1] = EncodeAt(e, sk, k + 1, vals) /\ w[k + 1] # Refused
    BY <1>4, <1>8 DEF KeyIn, sk, vals
  <2>2. EncodeAt(e, sk, k + 1, vals) = x
    BY <1>2 DEF EncodeAt, RangeEnc, FieldIn, seg, vals
  <2> QED
    BY <2>1, <2>2
<1>10. \E r \in RowsOf(n) : FieldIn(e, p, it) = r[seg.field]
  <2>1. seg.field \in FieldsOf(sk)
    BY <1>2, <1>7, <1>8 DEF FieldsOf, Placeholders
  <2> QED
    BY <1>4, <2>1 DEF FromRows, FieldIn, seg, vals
<1>11. Join(w) \in Str
  BY <1>6, JoinString
<1> HIDE DEF x
<1>12. meets => \E r \in Str : BelowSuffix(r) /\ Join(w) = P \o (x \o r)
  <2>1. SUFFICES ASSUME meets PROVE \E r \in Str : BelowSuffix(r) /\ Join(w) = P \o (x \o r)
    OBVIOUS
  <2>2. IsPrefix(Opening(g), Join(w)) /\ Len(g) < Len(w)
    BY <1>5, <1>6, <2>1
  <2>3. \E r \in Str : BelowSuffix(r) /\ Join(w) = Opening(g) \o (w[Len(g) + 1] \o r)
    BY <1>6, <2>2, NextSegment
  <2> QED
    BY <1>6, <1>9, <2>3
<1> QED
  BY <1>5, <1>9, <1>10, <1>11, <1>12 DEF RangeItemIs, x, w, meets, vals, P, seg

\* What a condition within the prefix returns.
TakesWithin(n, p, args, cond, S) ==
  \A it \in items : it.ent = n =>
    (Matches(cond, Join(KeyOfItem(p, it))) <=> Meets(Table[n], p, Unmarshal(Table[n], it.attrs), args) /\ it \in S)

\* A condition that takes, of the wanted items, those of a set.
LEMMA ResultWithin ==
  ASSUME NEW n, NEW p, NEW args, NEW cond, NEW S, Asked(n, p, args), SKOf(Table[n], p) # NoSK,
         TakesWithin(n, p, args, cond, S)
  PROVE  Result(Table[n], p, args, cond) = {it \in Wanted(n, p, args) : it \in S}
<1> DEFINE e == Table[n]
           meets(it) == Meets(e, p, Unmarshal(e, it.attrs), args)
<1>1. Result(e, p, args, cond) = {it \in Members(n, p, args) : Matches(cond, Join(KeyOfItem(p, it)))}
  <2> DEFINE M == Members(n, p, args)
             takes(it) == Matches(cond, Join(KeyOfItem(p, it)))
             given(it) == SKOf(e, p) # NoSK => Matches(cond, Join(it.attrs[SKAttrFor(p.index)]))
  <2>1. Result(e, p, args, cond) = {it \in M : given(it)}
    BY ResultIs DEF Asked
  <2>2. \A it : given(it) <=> takes(it)
    BY DEF KeyOfItem
  <2> HIDE DEF M, takes, given
  <2>3. {it \in M : given(it)} = {it \in M : takes(it)}
    BY <2>2
  <2> HIDE DEF e
  <2> QED
    BY <2>1, <2>3 DEF takes, M
<1>2. Wanted(n, p, args) = {it \in Members(n, p, args) : meets(it)}
  BY DEF Wanted
<1>3. \A it \in Members(n, p, args) : it \in items /\ it.ent = n
  BY DEF Members
<1>4. \A it \in Members(n, p, args) : Matches(cond, Join(KeyOfItem(p, it))) <=> meets(it) /\ it \in S
  BY <1>3 DEF TakesWithin
<1> DEFINE M == Members(n, p, args)
           takes(it) == Matches(cond, Join(KeyOfItem(p, it)))
<1>5. \A it \in M : takes(it) <=> meets(it) /\ it \in S
  BY <1>4
<1>6. Result(e, p, args, cond) = {it \in M : takes(it)} /\ Wanted(n, p, args) = {it \in M : meets(it)}
  BY <1>1, <1>2
<1> HIDE DEF meets, takes, M, e
<1>7. {it \in M : takes(it)} = {it \in {i \in M : meets(i)} : it \in S}
  BY <1>5
<1> QED
  BY <1>6, <1>7 DEF e

\* A value that a range method is called with.
BoundValue(n, p, v) ==
  (\E r \in RowsOf(n) : v = r[RangeSegment(Table[n], p).field]) /\ RangeEnc(Table[n], p, v) # Refused

\* What an item's key is against a bound.
Against(e, p, it, v) ==
  Ordered(e, RangeSegment(e, p), RangeEnc(e, p, FieldIn(e, p, it)), RangeEnc(e, p, v), FieldIn(e, p, it), v)

\* A stored item and a bound.
LEMMA ItemAgainst ==
  ASSUME NEW n, NEW p, NEW args, NEW it, NEW v, Asked(n, p, args), HasRange(Table[n], p),
         it \in items, it.ent = n, BoundValue(n, p, v)
  PROVE  Against(Table[n], p, it, v)
<1>1. Checked(n) /\ ULIDsAscii /\ p \in Patterns(n)
  BY DEF Asked
<1> DEFINE a == FieldIn(Table[n], p, it)
<1>2. (\E r \in RowsOf(n) : a = r[RangeSegment(Table[n], p).field]) /\ RangeEnc(Table[n], p, a) # Refused
  <2>1. RangeItemIs(n, p, args, it)
    BY RangeItem
  <2> QED
    BY <2>1 DEF RangeItemIs
<1> HIDE DEF a
<1>3. Ordered(Table[n], RangeSegment(Table[n], p), RangeEnc(Table[n], p, a), RangeEnc(Table[n], p, v), a, v)
  BY <1>1, <1>2, FixedRange DEF BoundValue
<1> QED
  BY <1>3 DEF Against, a

\* Two bounds.
LEMMA BoundOrdered ==
  ASSUME NEW n, NEW p, NEW v, NEW w, Checked(n), ULIDsAscii, p \in Patterns(n), HasRange(Table[n], p),
         BoundValue(n, p, v), BoundValue(n, p, w)
  PROVE  Ordered(Table[n], RangeSegment(Table[n], p), RangeEnc(Table[n], p, v), RangeEnc(Table[n], p, w), v, w)
  BY FixedRange DEF BoundValue

\* The predecessor that Before passes on.
BoundPred(e, p, v) == PredOf(e, RangeSegment(e, p), [f \in {RangeSegment(e, p).field} |-> v])

\* What Ordered says, as the conditions need it.
LEMMA OrderedIs ==
  ASSUME NEW e, NEW p, NEW x, NEW y, NEW u, NEW v, Ordered(e, RangeSegment(e, p), x, y, u, v)
  PROVE  /\ x \in Str /\ y \in Str /\ Low(x) /\ Low(y) /\ Len(x) = Len(y) /\ Len(x) \in Nat /\ Decided(x, y)
         /\ Less(x, y) <=> FieldLess(e, RangeSegment(e, p), u, v)
         /\ Less(y, x) <=> FieldLess(e, RangeSegment(e, p), v, u)
         /\ PredecessorTells(x, y, BoundPred(e, p, v), BoundPred(e, p, v) # Refused)
         /\ BoundPred(e, p, v) # Refused => BoundPred(e, p, v) \in Str
<1>1. x \in HashFree /\ y \in HashFree /\ Low(x) /\ Low(y) /\ Len(x) = Len(y)
  BY DEF Ordered
<1>2. x \in Str /\ y \in Str /\ Len(x) \in Nat /\ Decided(x, y)
  <2>1. x \in Str /\ y \in Str
    BY <1>1 DEF HashFree
  <2> QED
    BY <1>1, <2>1, SameLengthDecided DEF Str
<1> DEFINE seg == RangeSegment(e, p)
           q == PredOf(e, seg, [f \in {seg.field} |-> v])
<1>3. q = BoundPred(e, p, v)
  BY DEF BoundPred
<1> HIDE DEF seg
<1>4. PredecessorTells(x, y, q, q # Refused) /\ (q # Refused => q \in HashFree)
  BY DEF Ordered, seg
<1>5. /\ Less(x, y) <=> FieldLess(e, seg, u, v)
      /\ Less(y, x) <=> FieldLess(e, seg, v, u)
  BY DEF Ordered, seg
<1> HIDE DEF q
<1> QED
  BY <1>1, <1>2, <1>3, <1>4, <1>5 DEF HashFree, seg

\* After, Before and Between.
LEMMA AfterExact ==
  ASSUME NEW n, NEW p, NEW args, NEW v, Asked(n, p, args), HasRange(Table[n], p), BoundValue(n, p, v)
  PROVE  /\ Accepts(After(Table[n], p, args, v))
         /\ Result(Table[n], p, args, After(Table[n], p, args, v))
              = {it \in Wanted(n, p, args) : FieldLess(Table[n], RangeSegment(Table[n], p), v, FieldIn(Table[n], p, it))}
<1> DEFINE e == Table[n]
           seg == RangeSegment(e, p)
           P == SKPrefix(e, p, args)
           y == RangeEnc(e, p, v)
           S == {it \in items : FieldLess(e, seg, v, FieldIn(e, p, it))}
<1>1. Checked(n) /\ ULIDsAscii /\ p \in Patterns(n) /\ SKOf(e, p) # NoSK
  BY DEF Asked, HasRange
<1>2. P \in Str
  BY PrefixOf DEF PrefixIs
<1>3. Low(y)
  BY <1>1, BoundOrdered, OrderedIs
<1>4. After(e, p, args, v) = SKAfter(P, P \o y)
  BY DEF After
<1> HIDE DEF P
<1>5. Accepts(SKAfter(P, P \o y))
  BY <1>2, <1>3, AfterMatches
<1>6. ASSUME NEW it \in items, it.ent = n
      PROVE  Matches(SKAfter(P, P \o y), Join(KeyOfItem(p, it))) <=> Meets(e, p, Unmarshal(e, it.attrs), args) /\ it \in S
  <2> DEFINE key == Join(KeyOfItem(p, it))
             meets == Meets(e, p, Unmarshal(e, it.attrs), args)
             x == RangeEnc(e, p, FieldIn(e, p, it))
             within == FieldLess(e, seg, v, FieldIn(e, p, it))
             takes == Matches(SKAfter(P, P \o y), key)
  <2>1. Against(e, p, it, v)
    BY <1>6, ItemAgainst
  <2>2. Low(x) /\ Decided(x, y) /\ (Less(y, x) <=> within)
    BY <2>1, OrderedIs DEF Against
  <2>3. /\ key \in Str
        /\ meets <=> IsPrefix(P, key)
        /\ meets => \E r \in Str : BelowSuffix(r) /\ key = P \o (x \o r)
    <3>1. RangeItemIs(n, p, args, it)
      BY <1>6, RangeItem
    <3> QED
      BY <3>1 DEF RangeItemIs, P
  <2>4. it \in S <=> within
    BY <1>6
  <2> HIDE DEF x, y, key, meets, within, e, S
  <2>5. takes => IsPrefix(P, key)
    BY <1>2, <1>3, <2>3, AfterMatches
  <2>6. ASSUME NEW r \in Str, BelowSuffix(r), key = P \o (x \o r) PROVE takes <=> within
    <3>1. Matches(SKAfter(P, P \o y), P \o (x \o r)) <=> Less(y, x)
      BY <1>2, <1>3, <2>2, <2>6, AfterMatches
    <3> QED
      BY <2>2, <2>6, <3>1
  <2> HIDE DEF takes
  <2>7. takes <=> meets /\ within
    BY <2>3, <2>5, <2>6
  <2> QED
    BY <2>4, <2>7 DEF takes, meets, key
<1> DEFINE cond == SKAfter(P, P \o y)
<1> HIDE DEF S, cond
<1>7. Result(e, p, args, cond) = {it \in Wanted(n, p, args) : it \in S}
  <2>1. TakesWithin(n, p, args, cond, S)
    BY <1>6 DEF TakesWithin, cond
  <2> QED
    BY <1>1, <2>1, ResultWithin
<1>8. {it \in Wanted(n, p, args) : it \in S}
        = {it \in Wanted(n, p, args) : FieldLess(e, seg, v, FieldIn(e, p, it))}
  <2>1. \A it \in Wanted(n, p, args) : it \in items
    BY DEF Wanted, Members
  <2> DEFINE within(it) == FieldLess(e, seg, v, FieldIn(e, p, it))
  <2>2. S = {it \in items : within(it)}
    BY DEF S
  <2> HIDE DEF within
  <2>3. {it \in Wanted(n, p, args) : it \in S} = {it \in Wanted(n, p, args) : within(it)}
    BY <2>1, <2>2
  <2> QED
    BY <2>3 DEF within
<1> QED
  BY <1>4, <1>5, <1>7, <1>8 DEF cond

LEMMA BeforeExact ==
  ASSUME NEW n, NEW p, NEW args, NEW v, Asked(n, p, args), HasRange(Table[n], p), BoundValue(n, p, v)
  PROVE  /\ Accepts(Before(Table[n], p, args, v))
         /\ Result(Table[n], p, args, Before(Table[n], p, args, v))
              = {it \in Wanted(n, p, args) : FieldLess(Table[n], RangeSegment(Table[n], p), FieldIn(Table[n], p, it), v)}
<1> DEFINE e == Table[n]
           seg == RangeSegment(e, p)
           P == SKPrefix(e, p, args)
           y == RangeEnc(e, p, v)
           q == BoundPred(e, p, v)
           ok == q # Refused
           pred == P \o q
           bound == P \o y
           S == {it \in items : FieldLess(e, seg, FieldIn(e, p, it), v)}
<1>1. Checked(n) /\ ULIDsAscii /\ p \in Patterns(n) /\ SKOf(e, p) # NoSK
  BY DEF Asked, HasRange
<1>2. P \in Str
  BY PrefixOf DEF PrefixIs
<1>3. y \in Str /\ (ok => q \in Str)
  BY <1>1, BoundOrdered, OrderedIs
<1>4. Before(e, p, args, v) = SKBefore(P, bound, pred, ok)
  <2>1. q = Pred(seg.enc, GoType(e.fields, seg.field), v)
    BY DEF BoundPred, PredOf
  <2> HIDE DEF q
  <2> QED
    BY <2>1 DEF Before
<1>9. bound = P \o y /\ ok \in BOOLEAN /\ (ok /\ P # <<>> => q \in Str /\ pred = P \o q)
  BY <1>3
<1> HIDE DEF P, q, ok, pred, bound
<1>5. Accepts(SKBefore(P, bound, pred, ok))
  BY <1>2, <1>3, <1>9, BeforeMatches
<1>6. ASSUME NEW it \in items, it.ent = n
      PROVE  Matches(SKBefore(P, bound, pred, ok), Join(KeyOfItem(p, it))) <=> Meets(e, p, Unmarshal(e, it.attrs), args) /\ it \in S
  <2> DEFINE key == Join(KeyOfItem(p, it))
             meets == Meets(e, p, Unmarshal(e, it.attrs), args)
             x == RangeEnc(e, p, FieldIn(e, p, it))
             within == FieldLess(e, seg, FieldIn(e, p, it), v)
             takes == Matches(SKBefore(P, bound, pred, ok), key)
  <2>1. Against(e, p, it, v)
    BY <1>6, ItemAgainst
  <2>2. x \in Str /\ Decided(x, y) /\ (Less(x, y) <=> within) /\ PredecessorTells(x, y, q, ok)
    BY <2>1, OrderedIs DEF Against, q, ok
  <2>3. /\ key \in Str
        /\ meets <=> IsPrefix(P, key)
        /\ meets => \E r \in Str : BelowSuffix(r) /\ key = P \o (x \o r)
    <3>1. RangeItemIs(n, p, args, it)
      BY <1>6, RangeItem
    <3> QED
      BY <3>1 DEF RangeItemIs, P
  <2>4. it \in S <=> within
    BY <1>6
  <2> HIDE DEF x, y, key, meets, within, e, S
  <2>5. takes => IsPrefix(P, key)
    BY <1>2, <1>3, <1>9, <2>3, BeforeMatches
  <2>6. ASSUME NEW r \in Str, BelowSuffix(r), key = P \o (x \o r) PROVE takes <=> within
    <3>1. Matches(SKBefore(P, bound, pred, ok), P \o (x \o r)) <=> Less(x, y)
      BY <1>2, <1>3, <1>9, <2>2, <2>6, BeforeMatches
    <3> QED
      BY <2>2, <2>6, <3>1
  <2> HIDE DEF takes
  <2>7. takes <=> meets /\ within
    BY <2>3, <2>5, <2>6
  <2> QED
    BY <2>4, <2>7 DEF takes, meets, key
<1> DEFINE cond == SKBefore(P, bound, pred, ok)
<1> HIDE DEF S, cond
<1>7. Result(e, p, args, cond) = {it \in Wanted(n, p, args) : it \in S}
  <2>1. TakesWithin(n, p, args, cond, S)
    BY <1>6 DEF TakesWithin, cond
  <2> QED
    BY <1>1, <2>1, ResultWithin
<1>8. {it \in Wanted(n, p, args) : it \in S}
        = {it \in Wanted(n, p, args) : FieldLess(e, seg, FieldIn(e, p, it), v)}
  <2>1. \A it \in Wanted(n, p, args) : it \in items
    BY DEF Wanted, Members
  <2> DEFINE within(it) == FieldLess(e, seg, FieldIn(e, p, it), v)
  <2>2. S = {it \in items : within(it)}
    BY DEF S
  <2> HIDE DEF within
  <2>3. {it \in Wanted(n, p, args) : it \in S} = {it \in Wanted(n, p, args) : within(it)}
    BY <2>1, <2>2
  <2> QED
    BY <2>3 DEF within
<1> QED
  BY <1>4, <1>5, <1>7, <1>8 DEF cond

LEMMA BetweenExact ==
  ASSUME NEW n, NEW p, NEW args, NEW v, NEW w, Asked(n, p, args), HasRange(Table[n], p), BoundValue(n, p, v), BoundValue(n, p, w)
  PROVE  /\ Accepts(Between(Table[n], p, args, v, w))
         /\ Result(Table[n], p, args, Between(Table[n], p, args, v, w))
              = {it \in Wanted(n, p, args) :
                  /\ ~FieldLess(Table[n], RangeSegment(Table[n], p), FieldIn(Table[n], p, it), v)
                  /\ ~FieldLess(Table[n], RangeSegment(Table[n], p), w, FieldIn(Table[n], p, it))}
<1> DEFINE e == Table[n]
           seg == RangeSegment(e, p)
           P == SKPrefix(e, p, args)
           y == RangeEnc(e, p, v)
           z == RangeEnc(e, p, w)
           S == {it \in items : ~FieldLess(e, seg, FieldIn(e, p, it), v) /\ ~FieldLess(e, seg, w, FieldIn(e, p, it))}
<1>1. Checked(n) /\ ULIDsAscii /\ p \in Patterns(n) /\ SKOf(e, p) # NoSK
  BY DEF Asked, HasRange
<1>2. P \in Str
  BY PrefixOf DEF PrefixIs
<1>3. y \in Str /\ z \in Str /\ Len(y) = Len(z)
  BY <1>1, BoundOrdered, OrderedIs
<1>4. Between(e, p, args, v, w) = SKBetween(P \o y, P \o z)
  BY DEF Between
<1> HIDE DEF z
<1> DEFINE k == Len(y)
<1>9. Len(y) = k /\ Len(z) = k
  BY <1>3
<1> HIDE DEF P, k
<1>5. Accepts(SKBetween(P \o y, P \o z))
  BY <1>2, <1>3, <1>9, BetweenMatches
<1>6. ASSUME NEW it \in items, it.ent = n
      PROVE  Matches(SKBetween(P \o y, P \o z), Join(KeyOfItem(p, it))) <=> Meets(e, p, Unmarshal(e, it.attrs), args) /\ it \in S
  <2> DEFINE key == Join(KeyOfItem(p, it))
             meets == Meets(e, p, Unmarshal(e, it.attrs), args)
             x == RangeEnc(e, p, FieldIn(e, p, it))
             within == ~FieldLess(e, seg, FieldIn(e, p, it), v) /\ ~FieldLess(e, seg, w, FieldIn(e, p, it))
             takes == Matches(SKBetween(P \o y, P \o z), key)
  <2>1. Against(e, p, it, v) /\ Against(e, p, it, w)
    BY <1>6, ItemAgainst
  <2>2. /\ x \in Str /\ Len(x) = k
        /\ within <=> ~Less(x, y) /\ ~Less(z, x)
    <3>1. x \in Str /\ Len(x) = Len(y) /\ (Less(x, y) <=> FieldLess(e, seg, FieldIn(e, p, it), v))
      BY <2>1, OrderedIs DEF Against
    <3>2. Less(z, x) <=> FieldLess(e, seg, w, FieldIn(e, p, it))
      BY <2>1, OrderedIs DEF Against, z
    <3> QED
      BY <1>9, <3>1, <3>2
  <2>3. /\ key \in Str
        /\ meets <=> IsPrefix(P, key)
        /\ meets => \E r \in Str : BelowSuffix(r) /\ key = P \o (x \o r)
    <3>1. RangeItemIs(n, p, args, it)
      BY <1>6, RangeItem
    <3> QED
      BY <3>1 DEF RangeItemIs, P
  <2>4. it \in S <=> within
    BY <1>6
  <2> HIDE DEF x, y, key, meets, within, e, S
  <2>5. takes => IsPrefix(P, key)
    BY <1>2, <1>3, <1>9, <2>3, BetweenMatches
  <2>6. ASSUME NEW r \in Str, BelowSuffix(r), key = P \o (x \o r) PROVE takes <=> within
    <3>1. Matches(SKBetween(P \o y, P \o z), P \o (x \o r)) <=> ~Less(x, y) /\ ~Less(z, x)
      BY <1>2, <1>3, <1>9, <2>2, <2>6, BetweenMatches
    <3> QED
      BY <2>2, <2>6, <3>1
  <2> HIDE DEF takes
  <2>7. takes <=> meets /\ within
    BY <2>3, <2>5, <2>6
  <2> QED
    BY <2>4, <2>7 DEF takes, meets, key
<1> DEFINE cond == SKBetween(P \o y, P \o z)
<1> HIDE DEF S, cond
<1>7. Result(e, p, args, cond) = {it \in Wanted(n, p, args) : it \in S}
  <2>1. TakesWithin(n, p, args, cond, S)
    BY <1>6 DEF TakesWithin, cond
  <2> QED
    BY <1>1, <2>1, ResultWithin
<1>8. {it \in Wanted(n, p, args) : it \in S}
        = {it \in Wanted(n, p, args) : ~FieldLess(e, seg, FieldIn(e, p, it), v) /\ ~FieldLess(e, seg, w, FieldIn(e, p, it))}
  <2>1. \A it \in Wanted(n, p, args) : it \in items
    BY DEF Wanted, Members
  <2> DEFINE within(it) == ~FieldLess(e, seg, FieldIn(e, p, it), v) /\ ~FieldLess(e, seg, w, FieldIn(e, p, it))
  <2>2. S = {it \in items : within(it)}
    BY DEF S
  <2> HIDE DEF within
  <2>3. {it \in Wanted(n, p, args) : it \in S} = {it \in Wanted(n, p, args) : within(it)}
    BY <2>1, <2>2
  <2> QED
    BY <2>3 DEF within
<1> QED
  BY <1>4, <1>5, <1>7, <1>8 DEF cond

------------------------------------------------------------------------------
(* What strings tell of keys.                                               *)

LEMMA KeyTemplatesNonempty ==
  ASSUME design \in DOMAIN Designs, NEW n \in Entities, NEW a \in KeyAttrs(Table[n])
  PROVE  Len(TemplateOf(Table[n], a)) >= 1
<1>1. EntityParses(Table[n])
  BY DesignsParse DEF Parses, Table, Entities
<1> DEFINE t == TemplateOf(Table[n], a)
<1>2. t \in Seq(Segments) /\ t # <<>>
  <2>1. CASE a[1] \in DOMAIN Table[n].keys /\ a[2] = "pk"
    BY <1>1, <2>1, Zenon DEF EntityParses, TemplateOf, IsTemplate
  <2>2. CASE a[1] \in Sorted(Table[n]) /\ a[2] = "sk"
    BY <1>1, <2>2, Zenon DEF EntityParses, TemplateOf, IsTemplate, Sorted
  <2> QED
    BY <2>1, <2>2, KeyAttrKinds
<1> HIDE DEF t
<1>3. Len(t) >= 1
  BY <1>2
<1> QED
  BY <1>3 DEF t

\* A key is of segments without delimiters, whichever template it is of.
LEMMA KeySegmented ==
  ASSUME NEW n, NEW a, NEW vals, Checked(n), OneEncoderEach, a \in KeyAttrs(Table[n]),
         FromRows(n, FieldsOf(TemplateOf(Table[n], a)), vals),
         ~AnyRefused(KeyFunc(Table[n], TemplateOf(Table[n], a), vals))
  PROVE  /\ KeyFunc(Table[n], TemplateOf(Table[n], a), vals) \in Seq(HashFree)
         /\ Len(KeyFunc(Table[n], TemplateOf(Table[n], a), vals)) >= 1
<1> DEFINE t == TemplateOf(Table[n], a)
           w == KeyFunc(Table[n], t, vals)
<1>1. Encodes(w, Table[n], t, vals)
  BY KeyIs
<1>2. Len(t) >= 1
  BY KeyTemplatesNonempty DEF Checked
<1> HIDE DEF w, t
<1>3. w \in Seq(HashFree) /\ Len(w) >= 1
  BY <1>1, <1>2 DEF Encodes
<1> QED
  BY <1>3 DEF w, t

LEMMA ItemSegmented ==
  ASSUME QInv, OneEncoderEach, NEW it \in items, NEW a \in KeyAttrs(Table[it.ent])
  PROVE  it.attrs[a] \in Seq(HashFree) /\ Len(it.attrs[a]) >= 1
<1> DEFINE e == Table[it.ent]
           vals == Unmarshal(e, it.attrs)
<1>1. ItemSound(it) /\ ItemKept(it) /\ Checked(it.ent)
  BY DEF QInv, IInv, Checked, ItemSound
<1>2. it.attrs[a] = KeyFunc(e, TemplateOf(e, a), vals) /\ ~AnyRefused(it.attrs[a])
  BY <1>1 DEF ItemSound
<1>3. FromRows(it.ent, FieldsOf(TemplateOf(e, a)), vals)
  BY <1>1, ItemValues
<1> QED
  BY <1>1, <1>2, <1>3, KeySegmented

\* Keys that differ in a segment differ as stored strings, in any reachable
\* state: CheckSegment and the encoders leave no delimiter inside a segment.
THEOREM StoredStringsTellKeys == OneEncoderEach => (Spec => []StringsTellKeys)
<1> SUFFICES ASSUME OneEncoderEach PROVE Spec => []StringsTellKeys
  OBVIOUS
<1>1. QInv => StringsTellKeys
  <2> SUFFICES ASSUME QInv, Idle, NEW it \in items, NEW a \in KeyAttrs(Table[it.ent])
               PROVE  /\ \A other \in items :
                           a \in KeyAttrs(Table[other.ent]) /\ Join(other.attrs[a]) = Join(it.attrs[a])
                             => other.attrs[a] = it.attrs[a]
                      /\ \A n \in Entities : a \in KeyAttrs(Table[n]) => \A vals \in RowsOf(n) :
                           LET key == KeyFunc(Table[n], TemplateOf(Table[n], a), vals)
                           IN  ~AnyRefused(key) /\ Join(key) = Join(it.attrs[a]) => key = it.attrs[a]
    BY DEF StringsTellKeys
  <2>1. it.attrs[a] \in Seq(HashFree) /\ Len(it.attrs[a]) >= 1
    BY ItemSegmented
  <2>2. ASSUME NEW other \in items, a \in KeyAttrs(Table[other.ent]), Join(other.attrs[a]) = Join(it.attrs[a])
        PROVE  other.attrs[a] = it.attrs[a]
    <3>1. other.attrs[a] \in Seq(HashFree) /\ Len(other.attrs[a]) >= 1
      BY <2>2, ItemSegmented
    <3> QED
      BY <2>1, <2>2, <3>1, SegmentsTell
  <2>3. ASSUME NEW n \in Entities, a \in KeyAttrs(Table[n]), NEW vals \in RowsOf(n),
               ~AnyRefused(KeyFunc(Table[n], TemplateOf(Table[n], a), vals)),
               Join(KeyFunc(Table[n], TemplateOf(Table[n], a), vals)) = Join(it.attrs[a])
        PROVE  KeyFunc(Table[n], TemplateOf(Table[n], a), vals) = it.attrs[a]
    <3>1. Checked(n)
      BY DEF QInv, IInv, Checked
    <3>2. FromRows(n, FieldsOf(TemplateOf(Table[n], a)), vals)
      BY DEF FromRows
    <3>3. /\ KeyFunc(Table[n], TemplateOf(Table[n], a), vals) \in Seq(HashFree)
          /\ Len(KeyFunc(Table[n], TemplateOf(Table[n], a), vals)) >= 1
      BY <2>3, <3>1, <3>2, KeySegmented
    <3> QED
      BY <2>1, <2>3, <3>3, SegmentsTell
  <2> QED
    BY <2>2, <2>3
<1> QED
  BY <1>1, Kept, PTL

------------------------------------------------------------------------------
(* The generator's own engine (keytmpl) and the code that it generates.     *)

\* A place of a key is decoded to a value that encodes to it again, and the
\* generator's own engine fills it alike if it takes the field's type.
LEMMA PlaceDecodes ==
  ASSUME NEW n, NEW a, NEW i, NEW vals, Checked(n), PadsFitInt64, ULIDsAscii, a \in KeyAttrs(Table[n]),
         FromRows(n, FieldsOf(TemplateOf(Table[n], a)), vals),
         i \in Placeholders(TemplateOf(Table[n], a)),
         EncodeAt(Table[n], TemplateOf(Table[n], a), i, vals) # Refused
  PROVE  LET e == Table[n]
             t == TemplateOf(e, a)
             goType == GoType(e.fields, t[i].field)
             s == EncodeAt(e, t, i, vals)
         IN  /\ DecodeSegment(t[i].enc, s) # Refused
             /\ EncodeValue(t[i].enc, BackType(t[i].enc, goType), DecodeSegment(t[i].enc, s)) = s
             /\ EncodeSegment(t[i].enc, goType, vals[t[i].field])
                  = IF EngineTakes(t[i].enc, goType) THEN s ELSE Refused
<1> DEFINE e == Table[n]
           t == TemplateOf(e, a)
           enc == t[i].enc
           goType == GoType(e.fields, t[i].field)
           v == vals[t[i].field]
           s == EncodeAt(e, t, i, vals)
<1>1. t[i].field \in FieldsOf(t) /\ t[i].kind # "lit"
  BY DEF FieldsOf, Placeholders
<1>2. PICK r \in RowsOf(n) : v = r[t[i].field]
  BY <1>1 DEF FromRows
<1>3. Takes(enc, goType, v)
  BY <1>2, PlaceTakes
<1>4. s = EncodeValue(enc, goType, v)
  BY <1>1 DEF EncodeAt
<1>5. enc.name = "pad" => v[1] <= MaxInt64
  BY <1>2 DEF PadsFitInt64, Checked, Table, Entities, RowsOf
<1>9. AsciiULID(enc, v)
  BY <1>2 DEF ULIDsAscii, Checked, Table, Entities, RowsOf
<1>6. EncodeValue(enc, goType, v) # Refused
  BY <1>4
<1> HIDE DEF e, t, enc, goType, v, s
<1>7. /\ DecodeSegment(enc, EncodeValue(enc, goType, v)) # Refused
      /\ EncodeValue(enc, BackType(enc, goType), DecodeSegment(enc, EncodeValue(enc, goType, v)))
           = EncodeValue(enc, goType, v)
  BY <1>3, <1>5, <1>6, <1>9, DecodersInvert
<1>8. EncodeSegment(enc, goType, v) = IF EngineTakes(enc, goType) THEN EncodeValue(enc, goType, v) ELSE Refused
  BY <1>3, <1>6, EnginesSegment
<1> QED
  BY <1>4, <1>7, <1>8 DEF e, t, enc, goType, v, s

\* The engine takes the type of every field of a key.
EngineFills(e, t) == \A i \in Placeholders(t) : EngineTakes(t[i].enc, GoType(e.fields, t[i].field))

\* Template.Encode gives the key of the generated code, or refuses it for the
\* type of a field.
LEMMA EngineEncodes ==
  ASSUME NEW n, NEW a, NEW vals, NEW w, Checked(n), PadsFitInt64, ULIDsAscii, a \in KeyAttrs(Table[n]),
         FromRows(n, FieldsOf(TemplateOf(Table[n], a)), vals),
         Encodes(w, Table[n], TemplateOf(Table[n], a), vals)
  PROVE  Encode(TemplateOf(Table[n], a), Table[n].fields, vals)
           = IF EngineFills(Table[n], TemplateOf(Table[n], a)) THEN Join(w) ELSE Refused
<1> DEFINE e == Table[n]
           t == TemplateOf(e, a)
           segs == [i \in DOMAIN t |->
                      IF t[i].kind = "lit" THEN t[i].literal
                      ELSE EncodeSegment(t[i].enc, GoType(e.fields, t[i].field), vals[t[i].field])]
<1>1. Len(t) \in Nat /\ DOMAIN t = 1 .. Len(t) /\ \A i \in DOMAIN t : t[i].kind \in {"lit", "ph"}
  <2>1. WellFormed(t)
    BY KeyTemplatesWellFormed DEF Checked
  <2>2. \A i \in DOMAIN t : t[i].kind \in {"lit", "ph"}
    BY <2>1 DEF WellFormed, IsSegment
  <2> HIDE DEF t
  <2> QED
    BY <2>1, <2>2 DEF WellFormed
<1>2. ASSUME NEW i \in DOMAIN t
      PROVE  /\ w[i] # Refused
             /\ segs[i] = IF i \in Placeholders(t) /\ ~EngineTakes(t[i].enc, GoType(e.fields, t[i].field))
                          THEN Refused ELSE w[i]
  <2>1. w[i] = EncodeAt(e, t, i, vals) /\ w[i] # Refused
    BY <1>1 DEF Encodes
  <2>2. CASE t[i].kind = "lit"
    BY <2>1, <2>2 DEF EncodeAt, Placeholders
  <2>3. CASE t[i].kind = "ph"
    <3>1. i \in Placeholders(t) /\ EncodeAt(e, t, i, vals) # Refused
      BY <2>1, <2>3 DEF Placeholders
    <3>2. EncodeSegment(t[i].enc, GoType(e.fields, t[i].field), vals[t[i].field])
            = IF EngineTakes(t[i].enc, GoType(e.fields, t[i].field))
              THEN EncodeAt(e, t, i, vals) ELSE Refused
      BY <3>1, PlaceDecodes
    <3> DEFINE takes == EngineTakes(t[i].enc, GoType(e.fields, t[i].field))
    <3>3. segs[i] = EncodeSegment(t[i].enc, GoType(e.fields, t[i].field), vals[t[i].field])
      BY <2>3
    <3>4. segs[i] = IF takes THEN w[i] ELSE Refused
      BY <2>1, <3>2, <3>3
    <3> HIDE DEF segs, takes
    <3> QED
      BY <2>1, <3>1, <3>4 DEF takes
  <2> QED
    BY <1>1, <2>2, <2>3
<1>3. Encode(t, e.fields, vals) = IF AnyRefused(segs) THEN Refused ELSE Join(segs)
  BY DEF Encode
<1>4. AnyRefused(segs) <=> ~EngineFills(e, t)
  <2>1. DOMAIN segs = DOMAIN t /\ Placeholders(t) \subseteq DOMAIN t
    BY DEF Placeholders
  <2> HIDE DEF segs
  <2>2. AnyRefused(segs) <=> \E i \in DOMAIN t : segs[i] = Refused
    BY <2>1 DEF AnyRefused
  <2> QED
    BY <1>2, <2>1, <2>2 DEF EngineFills
<1>5. ASSUME ~AnyRefused(segs) PROVE segs = w
  <2> DEFINE m == Len(t)
  <2>1. DOMAIN w = 1 .. m /\ w = [i \in 1 .. m |-> w[i]]
    BY DEF Encodes
  <2>2. \A i \in 1 .. m : segs[i] # Refused
    BY <1>1, <1>5 DEF AnyRefused
  <2>3. \A i \in 1 .. m : segs[i] = w[i]
    BY <1>1, <1>2, <2>2
  <2>4. segs = [i \in 1 .. m |-> segs[i]]
    BY <1>1
  <2> HIDE DEF segs, m
  <2> QED
    BY <2>1, <2>3, <2>4
<1> HIDE DEF segs, e, t
<1> QED
  BY <1>3, <1>4, <1>5 DEF e, t

\* A key is taken apart into values that make it again.
TakenApart(n, a, w) ==
  LET e == Table[n]
      t == TemplateOf(e, a)
  IN  \E back \in Decode(t, Join(w)) : \A i \in Placeholders(t) :
        EncodeValue(t[i].enc, BackType(t[i].enc, GoType(e.fields, t[i].field)), back[t[i].field]) = w[i]

\* Template.Decode does so.
LEMMA EngineDecodes ==
  ASSUME NEW n, NEW a, NEW vals, NEW w, Checked(n), PadsFitInt64, ULIDsAscii, OneEncoderEach,
         a \in KeyAttrs(Table[n]), Split(Join(w)) = w,
         FromRows(n, FieldsOf(TemplateOf(Table[n], a)), vals),
         Encodes(w, Table[n], TemplateOf(Table[n], a), vals)
  PROVE  TakenApart(n, a, w)
<1> DEFINE e == Table[n]
           t == TemplateOf(e, a)
           last(f, i) == t[i].field = f /\ \A j \in Placeholders(t) : t[j].field = f => j <= i
           at(f) == CHOOSE i \in Placeholders(t) : last(f, i)
           back == [f \in FieldsOf(t) |-> DecodeSegment(t[at(f)].enc, w[at(f)])]
<1>1. Len(t) \in Nat /\ DOMAIN t = 1 .. Len(t) /\ \A i \in DOMAIN t : t[i].kind \in {"lit", "ph"}
  <2>1. WellFormed(t)
    BY KeyTemplatesWellFormed DEF Checked
  <2>2. \A i \in DOMAIN t : t[i].kind \in {"lit", "ph"}
    BY <2>1 DEF WellFormed, IsSegment
  <2> HIDE DEF t
  <2> QED
    BY <2>1, <2>2 DEF WellFormed
<1>2. Placeholders(t) \subseteq 1 .. Len(t) /\ Literals(t) \subseteq 1 .. Len(t)
  BY <1>1 DEF Placeholders, Literals
<1>3. ASSUME NEW i \in Literals(t) PROVE w[i] = t[i].literal
  BY <1>2 DEF Encodes, EncodeAt, Literals
<1>4. ASSUME NEW i \in Placeholders(t)
      PROVE  /\ w[i] = EncodeValue(t[i].enc, GoType(e.fields, t[i].field), vals[t[i].field])
             /\ DecodeSegment(t[i].enc, w[i]) # Refused
             /\ EncodeValue(t[i].enc, BackType(t[i].enc, GoType(e.fields, t[i].field)), DecodeSegment(t[i].enc, w[i]))
                  = w[i]
  <2>1. w[i] = EncodeAt(e, t, i, vals) /\ w[i] # Refused
    BY <1>2 DEF Encodes
  <2>2. w[i] = EncodeValue(t[i].enc, GoType(e.fields, t[i].field), vals[t[i].field])
    BY <2>1 DEF EncodeAt, Placeholders
  <2>3. EncodeAt(e, t, i, vals) # Refused
    BY <2>1
  <2>4. /\ DecodeSegment(t[i].enc, EncodeAt(e, t, i, vals)) # Refused
        /\ EncodeValue(t[i].enc, BackType(t[i].enc, GoType(e.fields, t[i].field)),
                       DecodeSegment(t[i].enc, EncodeAt(e, t, i, vals))) = EncodeAt(e, t, i, vals)
    BY <2>3, PlaceDecodes
  <2> HIDE DEF e, t
  <2> QED
    BY <2>1, <2>2, <2>4
<1>5. ASSUME NEW i \in Placeholders(t)
      PROVE  /\ t[at(t[i].field)].enc = t[i].enc
             /\ w[at(t[i].field)] = w[i]
             /\ t[i].field \in FieldsOf(t)
  <2> DEFINE f == t[i].field
             S == {j \in Placeholders(t) : t[j].field = f}
  <2>1. i \in S /\ S \subseteq 1 .. Len(t)
    BY <1>2
  <2>2. PICK k \in S : \A j \in S : j <= k
    <3> HIDE DEF S, t
    <3> QED
      BY <1>1, <2>1, GreatestPlace
  <2>3. k \in Placeholders(t) /\ last(f, k)
    BY <2>2
  <2> HIDE DEF last
  <2>4. at(f) \in Placeholders(t) /\ last(f, at(f))
    BY <2>3
  <2>5. t[at(f)].field = f
    BY <2>4 DEF last
  <2>6. \A k1, k2 \in Placeholders(t) : t[k1].field = t[k2].field => t[k1].enc = t[k2].enc
    BY DEF OneEncoderEach, Checked, Table, Entities
  <2>7. t[at(f)].enc = t[i].enc
    BY <2>4, <2>5, <2>6
  <2> HIDE DEF at
  <2>8. w[at(f)] = EncodeValue(t[at(f)].enc, GoType(e.fields, t[at(f)].field), vals[t[at(f)].field])
    BY <1>4, <2>4
  <2>9. w[i] = EncodeValue(t[i].enc, GoType(e.fields, f), vals[f])
    BY <1>4
  <2>10. w[at(f)] = w[i]
    BY <2>5, <2>7, <2>8, <2>9
  <2> QED
    BY <2>7, <2>10 DEF FieldsOf
<1>6. Decode(t, Join(w)) = {back}
  <2>1. Len(w) = Len(t)
    BY DEF Encodes
  <2>2. Decode(t, Join(w)) =
          IF \/ Len(w) # Len(t)
             \/ \E i \in Literals(t) : w[i] # t[i].literal
             \/ \E i \in Placeholders(t) : DecodeSegment(t[i].enc, w[i]) = Refused
          THEN {} ELSE {back}
    BY DEF Decode
  <2> HIDE DEF back, t
  <2> QED
    BY <1>3, <1>4, <2>1, <2>2
<1>7. ASSUME NEW i \in Placeholders(t)
      PROVE  EncodeValue(t[i].enc, BackType(t[i].enc, GoType(e.fields, t[i].field)), back[t[i].field]) = w[i]
  <2> HIDE DEF at
  <2>1. back[t[i].field] = DecodeSegment(t[i].enc, w[i])
    BY <1>5
  <2> HIDE DEF back, t
  <2> QED
    BY <1>4, <2>1
<1> HIDE DEF back
<1> QED
  BY <1>6, <1>7 DEF TakenApart

\* In every reachable state, the engine that the generator checks designs
\* with agrees with the code that it generates: it makes the same key of an
\* item if it takes the types of the fields, and takes a stored key apart into
\* values that make it again (keytmpl/encode.go 11-13 and 105-107).  Padded
\* numbers fit an int64 and ULIDs are of ASCII.
THEOREM EnginesAgree == OneEncoderEach /\ PadsFitInt64 /\ ULIDsAscii => (Spec => []EngineAgrees)
<1> SUFFICES ASSUME OneEncoderEach, PadsFitInt64, ULIDsAscii PROVE Spec => []EngineAgrees
  OBVIOUS
<1>1. QInv => EngineAgrees
  <2>1. ASSUME QInv, Idle, NEW it \in items, NEW a \in KeyAttrs(Table[it.ent])
        PROVE  LET e == Table[it.ent]
                   vals == Unmarshal(e, it.attrs)
                   t == TemplateOf(e, a)
                   key == Join(it.attrs[a])
               IN  /\ Split(key) = it.attrs[a]
                   /\ Encode(t, e.fields, vals) = IF EngineFills(e, t) THEN key ELSE Refused
                   /\ \E back \in Decode(t, key) : \A i \in Placeholders(t) :
                        EncodeValue(t[i].enc, BackType(t[i].enc, GoType(e.fields, t[i].field)), back[t[i].field])
                          = it.attrs[a][i]
    <3> DEFINE e == Table[it.ent]
               vals == Unmarshal(e, it.attrs)
               t == TemplateOf(e, a)
               w == it.attrs[a]
    <3>1. ItemSound(it) /\ ItemKept(it) /\ Checked(it.ent)
      BY <2>1 DEF QInv, IInv, Checked, ItemSound
    <3>2. w = KeyFunc(e, t, vals) /\ ~AnyRefused(w)
      BY <3>1 DEF ItemSound
    <3>3. FromRows(it.ent, FieldsOf(t), vals)
      BY <3>1, ItemValues
    <3>4. Encodes(w, e, t, vals)
      BY <3>1, <3>2, <3>3, KeyIs
    <3>5. w \in Parts
      BY <2>1, ItemSegmented DEF Parts
    <3>6. Split(Join(w)) = w
      <4> HIDE DEF w
      <4> QED
        BY <3>5, SplitJoins
    <3>7. Encode(t, e.fields, vals) = IF EngineFills(e, t) THEN Join(w) ELSE Refused
      <4> HIDE DEF w, vals
      <4> QED
        BY <3>1, <3>3, <3>4, EngineEncodes
    <3>8. \E back \in Decode(t, Join(w)) : \A i \in Placeholders(t) :
            EncodeValue(t[i].enc, BackType(t[i].enc, GoType(e.fields, t[i].field)), back[t[i].field]) = w[i]
      <4> HIDE DEF w, vals
      <4>1. TakenApart(it.ent, a, w)
        BY <3>1, <3>3, <3>4, <3>6, EngineDecodes
      <4> QED
        BY <4>1 DEF TakenApart
    <3> QED
      BY <3>6, <3>7, <3>8
  <2> QED
    BY <2>1 DEF EngineAgrees, EngineFills, BackType
<1> QED
  BY <1>1, Kept, PTL

------------------------------------------------------------------------------
(* Every query, in every reachable state.                                   *)

\* The queries the properties are about are asked in such a state.
LEMMA QueriesAsked ==
  ASSUME QInv, OneEncoderEach, TypeMarksApart, ULIDsAscii, Idle, NEW n \in Entities, NEW p \in Patterns(n),
         NEW args \in Args(n, p), CanQuery(Table[n], p, args)
  PROVE  Asked(n, p, args)
  BY DEF Asked, QInv, IInv, Checked, Idle

\* In every reachable state, the query of a pattern returns exactly the items
\* of its entity whose fields meet the declared condition: the scope, the
\* prefix, the bounds and the predecessors select neither more nor less
\* (buildPatternView, runtime/query.go).  ULIDs are of ASCII.
THEOREM PatternsAreExact ==
  TextBelowSuffix /\ OneEncoderEach /\ TypeMarksApart /\ ULIDsAscii /\ BoundsFollowLiterals
    => (Spec => []PatternsExact)
<1> SUFFICES ASSUME TextBelowSuffix, OneEncoderEach, TypeMarksApart, ULIDsAscii, BoundsFollowLiterals
             PROVE  Spec => []PatternsExact
  OBVIOUS
<1>1. QInv => PatternsExact
  <2>1. ASSUME QInv, Idle, NEW n \in Entities, NEW p \in Patterns(n), NEW args \in Args(n, p),
               CanQuery(Table[n], p, args)
        PROVE  LET cond == StaticCond(Table[n], p, args)
               IN  Accepts(cond) /\ Result(Table[n], p, args, cond) = Wanted(n, p, args)
    BY <2>1, QueriesAsked, PatternQuery
  <2> QED
    BY <2>1 DEF PatternsExact
<1> QED
  BY <1>1, Kept, PTL

\* The same of After, Before and Between (rangeFor): what they return is what
\* their names say of the field, at both ends of the range, ULIDs being of
\* ASCII.
THEOREM RangesAreExact ==
  OneEncoderEach /\ TypeMarksApart /\ ULIDsAscii => (Spec => []RangesExact)
<1> SUFFICES ASSUME OneEncoderEach, TypeMarksApart, ULIDsAscii
             PROVE  Spec => []RangesExact
  OBVIOUS
<1>1. QInv => RangesExact
  <2>1. ASSUME QInv, Idle, NEW n \in Entities, NEW p \in Patterns(n), HasRange(Table[n], p),
               NEW args \in Args(n, p), CanQuery(Table[n], p, args),
               NEW v \in Bounds(n, p), NEW w \in Bounds(n, p)
        PROVE  RangeAnswers(n, p, args, v, w)
    <3>1. Asked(n, p, args)
      BY <2>1, QueriesAsked
    <3>2. BoundValue(n, p, v) /\ BoundValue(n, p, w)
      BY DEF BoundValue, Bounds
    <3>3. /\ Accepts(After(Table[n], p, args, v))
          /\ Result(Table[n], p, args, After(Table[n], p, args, v))
               = {it \in Wanted(n, p, args) : FieldLess(Table[n], RangeSegment(Table[n], p), v, FieldIn(Table[n], p, it))}
      BY <2>1, <3>1, <3>2, AfterExact
    <3>4. /\ Accepts(Before(Table[n], p, args, v))
          /\ Result(Table[n], p, args, Before(Table[n], p, args, v))
               = {it \in Wanted(n, p, args) : FieldLess(Table[n], RangeSegment(Table[n], p), FieldIn(Table[n], p, it), v)}
      BY <2>1, <3>1, <3>2, BeforeExact
    <3>5. /\ Accepts(Between(Table[n], p, args, v, w))
          /\ Result(Table[n], p, args, Between(Table[n], p, args, v, w))
               = {it \in Wanted(n, p, args) :
                    /\ ~FieldLess(Table[n], RangeSegment(Table[n], p), FieldIn(Table[n], p, it), v)
                    /\ ~FieldLess(Table[n], RangeSegment(Table[n], p), w, FieldIn(Table[n], p, it))}
      BY <2>1, <3>1, <3>2, BetweenExact
    <3> QED
      BY <3>3, <3>4, <3>5 DEF RangeAnswers
  <2> QED
    BY <2>1 DEF RangesExact
<1> QED
  BY <1>1, Kept, PTL
==============================================================================
