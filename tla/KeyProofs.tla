------------------------------ MODULE KeyProofs ------------------------------
(***************************************************************************)
(* Proofs about TypedTable, for every design that the parser can hand on:  *)
(* any entities, templates, encoders, types, fields and indexes.           *)
(*                                                                         *)
(* The encoders are never opened.  What keeps a stored key in step with    *)
(* the fields is that a key depends on the fields of its template alone,   *)
(* that a setter exists only where it can make the whole key again, and    *)
(* that no field is stored where a key is; what keeps entities apart is    *)
(* that templates which cannot overlap differ in length or in a literal.   *)
(* QueryProofs builds on the invariant proved here.                        *)
(***************************************************************************)
EXTENDS TypedTable, FiniteSetTheorems, WellFoundedInduction, TLAPS

\* An item is sound when each of its keys is made of its own fields.
ItemSound(it) ==
  /\ DOMAIN it = {"ent", "attrs"}
  /\ it.ent \in Entities
  /\ \A a \in KeyAttrs(Table[it.ent]) :
       /\ a \in DOMAIN it.attrs
       /\ it.attrs[a] = KeyFunc(Table[it.ent], TemplateOf(Table[it.ent], a),
                                Unmarshal(Table[it.ent], it.attrs))
       /\ ~AnyRefused(it.attrs[a])

BuilderFields ==
  {"ent", "key", "err", "overlap", "sets", "removes", "adds", "asked", "calls", "runs"}

BuilderTyped(b) ==
  /\ DOMAIN b = BuilderFields
  /\ b.ent \in Entities
  /\ b.err \in BOOLEAN
  /\ b.overlap \in BOOLEAN
  /\ b.runs \in 0 .. MaxRuns
  /\ \E vals : b.key = KeyOf(Table[b.ent], vals)

\* The attributes of the fields that a key is made of.
Feeds(e, a) == {AttrOf(e, f) : f \in FieldsOf(TemplateOf(e, a))}

\* What a builder without an error may hold: a key and what feeds it are
\* only ever set, together, and the key is the one of the new values.
ClausesSound(b) ==
  LET e == Table[b.ent]
  IN  \A a \in KeyAttrs(e) :
        /\ a \notin b.removes \cup DOMAIN b.adds
        /\ Feeds(e, a) \cap (b.removes \cup DOMAIN b.adds) = {}
        /\ Feeds(e, a) \cap DOMAIN b.sets # {} => a \in DOMAIN b.sets
        /\ a \in DOMAIN b.sets =>
             /\ a[1] # "main"
             /\ Feeds(e, a) \subseteq DOMAIN b.sets
             /\ b.sets[a] = KeyFunc(e, TemplateOf(e, a),
                              [f \in FieldsOf(TemplateOf(e, a)) |-> b.sets[AttrOf(e, f)]])
             /\ ~AnyRefused(b.sets[a])

BuilderSound(b) == BuilderTyped(b) /\ (~b.err => ClausesSound(b))

\* The inductive invariant.
IInv ==
  /\ design \in DOMAIN Designs
  /\ verdict \in {"unchecked", "refused", "failed", "generated"}
  /\ verdict = "generated" => Accepted(Table)
  /\ items # {} \/ builder # None => verdict = "generated"
  /\ \A it \in items : ItemSound(it)
  /\ builder # None => BuilderSound(builder)

------------------------------------------------------------------------------
(* Facts about designs.                                                    *)

WellFormed(t) == t \in Seq(Segments) /\ \A i \in DOMAIN t : IsSegment(t[i])

LEMMA KeyAttrKinds ==
  ASSUME NEW e, NEW a \in KeyAttrs(e)
  PROVE  \/ a[1] \in DOMAIN e.keys /\ a[2] = "pk" /\ a = PKAttrFor(a[1])
         \/ a[1] \in Sorted(e) /\ a[2] = "sk" /\ a = SKAttrFor(a[1])
  BY DEF KeyAttrs, PKAttrFor, SKAttrFor

LEMMA KeyTemplatesWellFormed ==
  ASSUME design \in DOMAIN Designs, NEW n \in Entities, NEW a \in KeyAttrs(Table[n])
  PROVE  WellFormed(TemplateOf(Table[n], a))
<1>1. EntityParses(Table[n])
  BY DesignsParse DEF Parses, Table, Entities
<1>2. CASE a[1] \in DOMAIN Table[n].keys /\ a[2] = "pk"
  BY <1>1, <1>2 DEF EntityParses, TemplateOf, IsTemplate, WellFormed
<1>3. CASE a[1] \in Sorted(Table[n]) /\ a[2] = "sk"
  BY <1>1, <1>3 DEF EntityParses, TemplateOf, IsTemplate, WellFormed, Sorted
<1> QED
  BY <1>2, <1>3, KeyAttrKinds

LEMMA EntityTypeApart ==
  ASSUME design \in DOMAIN Designs, NEW n \in Entities
  PROVE  Table[n].et \notin KeyAttrs(Table[n]) /\ "main" \in DOMAIN Table[n].keys
  BY DesignsParse DEF Parses, Table, Entities, EntityParses

\* What the checks say of one entity.
LEMMA AcceptedEntity ==
  ASSUME Accepted(Table), NEW n \in Entities
  PROVE  /\ NoReservedAttrs(Table[n])
         /\ VersionAndTTL(Table[n])
         /\ \A a \in KeyAttrs(Table[n]) : FieldsOf(TemplateOf(Table[n], a)) \subseteq DOMAIN Table[n].fields
<1>1. EntityPasses(Table[n])
  BY DEF Accepted, Entities
<1>2. PlaceholdersResolve(Table[n])
  BY <1>1 DEF EntityPasses
<1> QED
  BY <1>1, <1>2 DEF EntityPasses, PlaceholdersResolve, FieldsOf

\* Attributes of fields are neither keys nor shared.
LEMMA FieldAttrsApart ==
  ASSUME Accepted(Table), NEW n \in Entities,
         NEW f \in DOMAIN Table[n].fields
  PROVE  /\ AttrOf(Table[n], f) \notin KeyAttrs(Table[n])
         /\ AttrOf(Table[n], f) # Table[n].et
         /\ \A g \in DOMAIN Table[n].fields : AttrOf(Table[n], g) = AttrOf(Table[n], f) => g = f
  BY AcceptedEntity DEF NoReservedAttrs, AttrOf

------------------------------------------------------------------------------
(* Key functions.                                                          *)

\* A key depends on the fields of its template alone.
LEMMA KeyOfItsFields ==
  ASSUME NEW e, NEW t, WellFormed(t), NEW v, NEW w,
         \A f \in FieldsOf(t) : v[f] = w[f]
  PROVE  KeyFunc(e, t, v) = KeyFunc(e, t, w)
<1>1. ASSUME NEW i \in DOMAIN t, t[i].kind # "lit"
      PROVE  v[t[i].field] = w[t[i].field]
  BY <1>1 DEF WellFormed, IsSegment, FieldsOf, Placeholders
<1> QED
  BY <1>1 DEF KeyFunc

\* Templates that cannot overlap never make the same key.
LEMMA DisjointTemplates ==
  ASSUME NEW s, NEW t, WellFormed(s), WellFormed(t), ~CanOverlap(s, t),
         NEW e, NEW g, NEW v, NEW w
  PROVE  KeyFunc(e, s, v) # KeyFunc(g, t, w)
<1> SUFFICES ASSUME KeyFunc(e, s, v) = KeyFunc(g, t, w) PROVE FALSE
  OBVIOUS
<1>1. DOMAIN s = DOMAIN t
  BY DEF KeyFunc
<1>2. Len(s) = Len(t)
  BY <1>1 DEF WellFormed
<1>3. PICK i \in Literals(s) \cap Literals(t) : s[i].literal # t[i].literal
  BY <1>2 DEF CanOverlap
<1>4. KeyFunc(e, s, v)[i] = s[i].literal /\ KeyFunc(g, t, w)[i] = t[i].literal
  BY DEF KeyFunc, Literals
<1> QED
  BY <1>3, <1>4

\* DDB001 on an index: two entities never write the same key there.
LEMMA KeysApart ==
  ASSUME design \in DOMAIN Designs, Accepted(Table),
         NEW n \in Entities, NEW m \in Entities \ {n},
         NEW ix \in DOMAIN Table[n].keys \cap DOMAIN Table[m].keys, NEW v, NEW w
  PROVE  \/ KeyFunc(Table[n], Table[n].keys[ix].pk, v) # KeyFunc(Table[m], Table[m].keys[ix].pk, w)
         \/ /\ ix \in Sorted(Table[n]) /\ ix \in Sorted(Table[m])
            /\ KeyFunc(Table[n], Table[n].keys[ix].sk, v) # KeyFunc(Table[m], Table[m].keys[ix].sk, w)
<1> DEFINE key(x) == Table[x].keys[ix]
<1>1. Disjoint(key(n), key(m))
  BY DEF Accepted, NoCollisions, Entities
<1>2. ASSUME NEW x \in {n, m}
      PROVE  /\ WellFormed(key(x).pk)
             /\ key(x).sk # NoSK => ix \in Sorted(Table[x]) /\ WellFormed(key(x).sk)
  <2>1. PKAttrFor(ix) \in KeyAttrs(Table[x]) /\ TemplateOf(Table[x], PKAttrFor(ix)) = key(x).pk
    BY DEF KeyAttrs, PKAttrFor, TemplateOf
  <2>2. ASSUME key(x).sk # NoSK
        PROVE  /\ ix \in Sorted(Table[x])
               /\ SKAttrFor(ix) \in KeyAttrs(Table[x])
               /\ TemplateOf(Table[x], SKAttrFor(ix)) = key(x).sk
    BY <2>2 DEF KeyAttrs, SKAttrFor, TemplateOf, Sorted
  <2> QED
    BY <2>1, <2>2, KeyTemplatesWellFormed
<1>3. CASE ~CanOverlap(key(n).pk, key(m).pk)
  BY <1>2, <1>3, DisjointTemplates
<1>4. CASE key(n).sk # NoSK /\ key(m).sk # NoSK /\ ~CanOverlap(key(n).sk, key(m).sk)
  BY <1>2, <1>4, DisjointTemplates
<1> QED
  BY <1>1, <1>3, <1>4 DEF Disjoint

------------------------------------------------------------------------------
(* Items.                                                                  *)

\* unmarshal undoes marshal, since no field is stored over a key.
LEMMA UnmarshalOfMarshal ==
  ASSUME Accepted(Table), NEW n \in Entities, NEW vals, NEW f \in DOMAIN Table[n].fields
  PROVE  Unmarshal(Table[n], Marshal(Table[n], vals))[f] = vals[f]
<1> DEFINE e == Table[n]
           a == AttrOf(e, f)
<1>1. a \in FieldAttrs(e) /\ a \notin KeyAttrs(e) /\ a # e.et
  BY FieldAttrsApart DEF FieldAttrs
<1>2. (CHOOSE g \in DOMAIN e.fields : AttrOf(e, g) = a) = f
  BY FieldAttrsApart
<1>3. a \in DOMAIN Marshal(e, vals) /\ Marshal(e, vals)[a] = vals[f]
  BY <1>1, <1>2 DEF Marshal
<1> QED
  BY <1>3 DEF Unmarshal

LEMMA MarshalledSound ==
  ASSUME design \in DOMAIN Designs, Accepted(Table), NEW n \in Entities, NEW vals,
         CanMarshal(Table[n], vals)
  PROVE  ItemSound([ent |-> n, attrs |-> Marshal(Table[n], vals)])
<1> DEFINE e == Table[n]
           attrs == Marshal(e, vals)
<1>1. ASSUME NEW a \in KeyAttrs(e)
      PROVE  /\ a \in DOMAIN attrs
             /\ attrs[a] = KeyFunc(e, TemplateOf(e, a), vals)
             /\ KeyFunc(e, TemplateOf(e, a), vals) = KeyFunc(e, TemplateOf(e, a), Unmarshal(e, attrs))
             /\ ~AnyRefused(KeyFunc(e, TemplateOf(e, a), vals))
  <2>1. a # e.et
    BY EntityTypeApart
  <2>2. \A f \in FieldsOf(TemplateOf(e, a)) : vals[f] = Unmarshal(e, attrs)[f]
    BY AcceptedEntity, UnmarshalOfMarshal
  <2>3. WellFormed(TemplateOf(e, a))
    BY KeyTemplatesWellFormed
  <2>4. KeyFunc(e, TemplateOf(e, a), vals) = KeyFunc(e, TemplateOf(e, a), Unmarshal(e, attrs))
    BY <2>2, <2>3, KeyOfItsFields
  <2>5. a \in DOMAIN attrs /\ attrs[a] = KeyFunc(e, TemplateOf(e, a), vals)
    BY <2>1 DEF Marshal
  <2> QED
    BY <2>4, <2>5 DEF CanMarshal
<1> QED
  BY <1>1 DEF ItemSound

\* The stored primary key of a sound item, and what it says of the entity.
LEMMA StoredKeyOfSound ==
  ASSUME design \in DOMAIN Designs, NEW it, ItemSound(it)
  PROVE  StoredKey(it) = <<KeyFunc(Table[it.ent], Table[it.ent].keys["main"].pk, Unmarshal(Table[it.ent], it.attrs)),
                           IF "main" \in Sorted(Table[it.ent]) THEN it.attrs[SKAttrFor("main")] ELSE NoSK>>
<1> DEFINE e == Table[it.ent]
<1>1. PKAttrFor("main") \in KeyAttrs(e) /\ TemplateOf(e, PKAttrFor("main")) = e.keys["main"].pk
  BY EntityTypeApart DEF ItemSound, KeyAttrs, PKAttrFor, TemplateOf
<1> QED
  BY <1>1 DEF ItemSound, StoredKey

LEMMA SameKeySameEntity ==
  ASSUME design \in DOMAIN Designs, Accepted(Table), NEW it, ItemSound(it),
         NEW n \in Entities, NEW vals, StoredKey(it) = KeyOf(Table[n], vals)
  PROVE  it.ent = n
<1> SUFFICES ASSUME it.ent # n PROVE FALSE
  OBVIOUS
<1> DEFINE m == it.ent
           e == Table[m]
           w == Unmarshal(e, it.attrs)
<1>1. m \in Entities \ {n} /\ "main" \in DOMAIN e.keys \cap DOMAIN Table[n].keys
  BY EntityTypeApart DEF ItemSound
<1>2. KeyFunc(Table[n], Table[n].keys["main"].pk, vals) = KeyFunc(e, e.keys["main"].pk, w)
  BY StoredKeyOfSound DEF KeyOf
<1>3. "main" \in Sorted(e) /\ KeyFunc(Table[n], Table[n].keys["main"].sk, vals) # KeyFunc(e, e.keys["main"].sk, w)
  BY <1>1, <1>2, KeysApart
<1>4. SKAttrFor("main") \in KeyAttrs(e) /\ TemplateOf(e, SKAttrFor("main")) = e.keys["main"].sk
  BY <1>3 DEF KeyAttrs, SKAttrFor, TemplateOf
<1>5. it.attrs[SKAttrFor("main")] = KeyFunc(e, e.keys["main"].sk, w)
  BY <1>4 DEF ItemSound
<1> QED
  BY <1>3, <1>5, StoredKeyOfSound DEF KeyOf

------------------------------------------------------------------------------
(* Builders.                                                               *)

LEMMA NewBuilderSound ==
  ASSUME design \in DOMAIN Designs, NEW n \in Entities, NEW vals
  PROVE  BuilderSound(Builder(n, vals))
<1> DEFINE b == Builder(n, vals)
<1>1. BuilderTyped(b)
  BY BoundAssumption DEF Builder, BuilderTyped, BuilderFields, AnyRefused
<1>2. DOMAIN b.sets = {} /\ b.removes = {} /\ DOMAIN b.adds = {}
  BY DEF Builder
<1>3. ClausesSound(b)
  BY <1>2 DEF ClausesSound
<1> QED
  BY <1>1, <1>3 DEF BuilderSound

\* What the calls of a builder leave in its fields.
AskedToo(b, f, ask) == Overlay(b.asked, [g \in {f} |-> ask])
Ask(op, v) == [op |-> op, value |-> v]
AddAsk(d) == Ask("add", <<d>>)
RemoveAsk == Ask("remove", <<>>)

LEMMA CalledFields ==
  ASSUME NEW b, BuilderTyped(b), NEW f, NEW op, NEW v
  PROVE  LET c == Called(b, f, op, v)
         IN  /\ BuilderTyped(c)
             /\ c.ent = b.ent /\ c.err = b.err /\ c.runs = b.runs
             /\ c.sets = b.sets /\ c.removes = b.removes /\ c.adds = b.adds
             /\ c.overlap = b.overlap
             /\ c.asked = AskedToo(b, f, Ask(op, v))
  BY DEF BuilderTyped, BuilderFields, Called, AskedToo, Ask

LEMMA AppendFields ==
  ASSUME NEW b, BuilderTyped(b), NEW sets
  PROVE  LET c == AppendSets(b, sets)
         IN  /\ BuilderTyped(c)
             /\ c.ent = b.ent /\ c.err = b.err /\ c.runs = b.runs /\ c.asked = b.asked
             /\ c.sets = Overlay(b.sets, sets) /\ c.removes = b.removes /\ c.adds = b.adds
             /\ ~c.overlap => ~b.overlap /\ Clauses(b) \cap DOMAIN sets = {}
  BY DEF BuilderTyped, BuilderFields, AppendSets

LEMMA AddFields ==
  ASSUME NEW b, BuilderTyped(b), NEW f, NEW d
  PROVE  LET c == AddX(b, f, d)
             a == AttrOf(Table[b.ent], f)
         IN  /\ BuilderTyped(c)
             /\ c.ent = b.ent /\ c.err = b.err /\ c.runs = b.runs
             /\ c.sets = b.sets /\ c.removes = b.removes
             /\ DOMAIN c.adds = DOMAIN b.adds \cup {a}
             /\ c.adds[a] = d
             /\ \A y \in DOMAIN b.adds \ {a} : c.adds[y] = b.adds[y]
             /\ ~c.overlap => ~b.overlap /\ a \notin Clauses(b)
             /\ c.asked = AskedToo(b, f, AddAsk(d))
<1> DEFINE a == AttrOf(Table[b.ent], f)
           one == [x \in {a} |-> d]
           op == "add"
           val == <<d>>
           ask == Ask(op, val)
           c == Called(b, f, op, val)
           over == c.overlap \/ a \in Clauses(b)
           y == [c EXCEPT !.adds = Overlay(c.adds, one), !.overlap = over]
<1>1. /\ BuilderTyped(c)
      /\ c.ent = b.ent /\ c.err = b.err /\ c.runs = b.runs
      /\ c.sets = b.sets /\ c.removes = b.removes /\ c.adds = b.adds
      /\ c.overlap = b.overlap
      /\ c.asked = AskedToo(b, f, ask)
  <2> HIDE DEF op, val
  <2> QED
    BY CalledFields
<1>2. AddX(b, f, d) = y
  BY DEF AddX
<1>3. /\ DOMAIN Overlay(b.adds, one) = DOMAIN b.adds \cup {a}
      /\ Overlay(b.adds, one)[a] = d
      /\ \A z \in DOMAIN b.adds \ {a} : Overlay(b.adds, one)[z] = b.adds[z]
  BY DEF Overlay
<1>4. over \in BOOLEAN
  OBVIOUS
<1>5. ~over => ~b.overlap /\ a \notin Clauses(b)
  <2> HIDE DEF c
  <2> QED
    BY <1>1
<1> HIDE DEF c, one, a, over, ask
<1>6. \A adds : \A p \in BOOLEAN : LET x == [c EXCEPT !.adds = adds, !.overlap = p] IN
         /\ BuilderTyped(x) /\ x.ent = c.ent /\ x.err = c.err /\ x.runs = c.runs
         /\ x.sets = c.sets /\ x.removes = c.removes /\ x.asked = c.asked
         /\ x.adds = adds /\ x.overlap = p
  BY <1>1 DEF BuilderTyped, BuilderFields
<1>7. /\ BuilderTyped(y) /\ y.ent = c.ent /\ y.err = c.err /\ y.runs = c.runs
      /\ y.sets = c.sets /\ y.removes = c.removes /\ y.asked = c.asked
      /\ y.adds = Overlay(c.adds, one) /\ y.overlap = over
  BY <1>4, <1>6
<1> HIDE DEF y
<1>8. /\ DOMAIN y.adds = DOMAIN b.adds \cup {AttrOf(Table[b.ent], f)}
      /\ y.adds[a] = d
      /\ \A z \in DOMAIN b.adds \ {a} : y.adds[z] = b.adds[z]
  BY <1>1, <1>3, <1>7 DEF a
<1>9. ~y.overlap => ~b.overlap /\ a \notin Clauses(b)
  BY <1>5, <1>7
<1>10. y.asked = AskedToo(b, f, AddAsk(d))
  BY <1>1, <1>7 DEF ask, AddAsk
<1> QED
  BY <1>1, <1>2, <1>7, <1>8, <1>9, <1>10 DEF a

LEMMA RemoveFields ==
  ASSUME NEW b, BuilderTyped(b), NEW f
  PROVE  LET c == RemoveX(b, f)
             a == AttrOf(Table[b.ent], f)
         IN  /\ BuilderTyped(c)
             /\ c.ent = b.ent /\ c.err = b.err /\ c.runs = b.runs
             /\ c.sets = b.sets /\ c.adds = b.adds
             /\ c.removes = b.removes \cup {a}
             /\ ~c.overlap => ~b.overlap /\ a \notin Clauses(b)
             /\ c.asked = AskedToo(b, f, RemoveAsk)
<1> DEFINE a == AttrOf(Table[b.ent], f)
           op == "remove"
           val == <<>>
           ask == Ask(op, val)
           c == Called(b, f, op, val)
           over == c.overlap \/ a \in Clauses(b)
           y == [c EXCEPT !.removes = c.removes \cup {a}, !.overlap = over]
<1>1. /\ BuilderTyped(c)
      /\ c.ent = b.ent /\ c.err = b.err /\ c.runs = b.runs
      /\ c.sets = b.sets /\ c.removes = b.removes /\ c.adds = b.adds
      /\ c.overlap = b.overlap
      /\ c.asked = AskedToo(b, f, ask)
  <2> HIDE DEF op, val
  <2> QED
    BY CalledFields
<1>2. RemoveX(b, f) = y
  BY DEF RemoveX
<1>3. over \in BOOLEAN
  OBVIOUS
<1>4. ~over => ~b.overlap /\ a \notin Clauses(b)
  <2> HIDE DEF c
  <2> QED
    BY <1>1
<1> HIDE DEF c, a, over, ask
<1>5. \A removes : \A p \in BOOLEAN : LET x == [c EXCEPT !.removes = removes, !.overlap = p] IN
         /\ BuilderTyped(x) /\ x.ent = c.ent /\ x.err = c.err /\ x.runs = c.runs
         /\ x.sets = c.sets /\ x.adds = c.adds /\ x.asked = c.asked
         /\ x.removes = removes /\ x.overlap = p
  BY <1>1 DEF BuilderTyped, BuilderFields
<1>6. /\ BuilderTyped(y) /\ y.ent = c.ent /\ y.err = c.err /\ y.runs = c.runs
      /\ y.sets = c.sets /\ y.adds = c.adds /\ y.asked = c.asked
      /\ y.removes = c.removes \cup {a} /\ y.overlap = over
  BY <1>3, <1>5
<1> HIDE DEF y
<1>7. ~y.overlap => ~b.overlap /\ a \notin Clauses(b)
  BY <1>4, <1>6
<1>8. y.asked = AskedToo(b, f, RemoveAsk)
  BY <1>1, <1>6 DEF ask, RemoveAsk
<1> QED
  BY <1>1, <1>2, <1>6, <1>7, <1>8 DEF a

\* A field with a setter is no part of the primary key; one with an adder or
\* a remover feeds no key at all.
LEMMA SettersOffPrimaryKey ==
  ASSUME NEW e, NEW f, HasSet(e, f), NEW a \in KeyAttrs(e), f \in FieldsOf(TemplateOf(e, a))
  PROVE  a \in Refs(e, f) /\ a[1] # "main"
<1>1. a[1] # "main"
  BY KeyAttrKinds DEF HasSet, KeyParams, TemplateOf
<1> QED
  BY <1>1 DEF Refs

LEMMA AddersOffKeys ==
  ASSUME NEW e, NEW f, HasRemove(e, f), NEW a \in KeyAttrs(e)
  PROVE  f \notin FieldsOf(TemplateOf(e, a))
  BY SettersOffPrimaryKey DEF HasRemove

\* The attribute of a field that feeds no key is neither a key nor among
\* what feeds one.
LEMMA OffKeys ==
  ASSUME Accepted(Table), NEW n \in Entities, NEW f \in DOMAIN Table[n].fields,
         NEW a \in KeyAttrs(Table[n]), f \notin FieldsOf(TemplateOf(Table[n], a))
  PROVE  AttrOf(Table[n], f) # a /\ AttrOf(Table[n], f) \notin Feeds(Table[n], a)
  BY AcceptedEntity, FieldAttrsApart DEF Feeds

LEMMA AddSound ==
  ASSUME Accepted(Table), NEW b, BuilderTyped(b), ClausesSound(b), NEW f, NEW d,
         HasAdd(Table[b.ent], f)
  PROVE  ClausesSound(AddX(b, f, d))
<1> DEFINE e == Table[b.ent]
           c == AddX(b, f, d)
<1>1. f \in DOMAIN e.fields /\ HasRemove(e, f)
  BY DEF HasAdd, HasRemove, HasSet
<1>2. DOMAIN c.adds = DOMAIN b.adds \cup {AttrOf(e, f)}
  BY AddFields
<1>3. c.ent = b.ent /\ c.sets = b.sets /\ c.removes = b.removes
  BY AddFields
<1>4. \A a \in KeyAttrs(e) : AttrOf(e, f) # a /\ AttrOf(e, f) \notin Feeds(e, a)
  BY <1>1, AddersOffKeys, OffKeys DEF BuilderTyped
<1> QED
  BY <1>2, <1>3, <1>4 DEF ClausesSound

LEMMA RemoveSound ==
  ASSUME Accepted(Table), NEW b, BuilderTyped(b), ClausesSound(b), NEW f,
         HasRemove(Table[b.ent], f)
  PROVE  ClausesSound(RemoveX(b, f))
<1> DEFINE e == Table[b.ent]
           c == RemoveX(b, f)
<1>1. f \in DOMAIN e.fields
  BY DEF HasRemove, HasSet
<1>2. c.ent = b.ent /\ c.sets = b.sets /\ c.adds = b.adds /\ c.removes = b.removes \cup {AttrOf(e, f)}
  BY RemoveFields
<1>3. \A a \in KeyAttrs(e) : AttrOf(e, f) # a /\ AttrOf(e, f) \notin Feeds(e, a)
  BY <1>1, AddersOffKeys, OffKeys DEF BuilderTyped
<1> QED
  BY <1>2, <1>3 DEF ClausesSound

\* A key that a setter makes again is made of its field alone.
LEMMA SoleField ==
  ASSUME NEW e, NEW f, NEW a \in Refs(e, f), HasSet(e, f), WellFormed(TemplateOf(e, a))
  PROVE  FieldsOf(TemplateOf(e, a)) = {f} /\ Feeds(e, a) = {AttrOf(e, f)}
<1> DEFINE t == TemplateOf(e, a)
<1>1. Cardinality(Placeholders(t)) = 1
  BY DEF HasSet, Sole
<1>2. IsFiniteSet(Placeholders(t))
  <2>1. Placeholders(t) \subseteq 1 .. Len(t) /\ Len(t) \in Nat
    BY DEF Placeholders, WellFormed
  <2>2. IsFiniteSet(1 .. Len(t))
    BY <2>1, FS_Interval
  <2> QED
    BY <2>1, <2>2, FS_Subset
<1>3. PICK i : Placeholders(t) = {i}
  BY <1>1, <1>2, FS_Singleton
<1>4. FieldsOf(t) = {t[i].field} /\ f \in FieldsOf(t)
  BY <1>3 DEF FieldsOf, Refs
<1> QED
  BY <1>4 DEF Feeds

\* What a setter sets.
LEMMA SetClausesAre ==
  ASSUME Accepted(Table), NEW n \in Entities, NEW f \in DOMAIN Table[n].fields, NEW v
  PROVE  LET e == Table[n]
             s == SetClauses(e, f, v)
         IN  /\ DOMAIN s = {AttrOf(e, f)} \cup Refs(e, f)
             /\ s[AttrOf(e, f)] = v
             /\ \A a \in Refs(e, f) : s[a] = SyncedKey(e, a, f, v)
<1>1. AttrOf(Table[n], f) \notin Refs(Table[n], f)
  BY FieldAttrsApart DEF Refs
<1> QED
  BY <1>1 DEF SetClauses, FieldClause, Overlay

LEMMA AppendedSound ==
  ASSUME design \in DOMAIN Designs, Accepted(Table),
         NEW b, BuilderTyped(b), ClausesSound(b), NEW f, NEW v, HasSet(Table[b.ent], f),
         \A a \in Refs(Table[b.ent], f) : ~AnyRefused(SyncedKey(Table[b.ent], a, f, v)),
         NEW c, c.ent = b.ent, c.removes = b.removes, c.adds = b.adds,
         c.sets = Overlay(b.sets, SetClauses(Table[b.ent], f, v))
  PROVE  ClausesSound(c)
<1> DEFINE e == Table[b.ent]
           s == SetClauses(e, f, v)
           x == AttrOf(e, f)
<1>1. f \in DOMAIN e.fields /\ b.ent \in Entities
  BY DEF HasSet, BuilderTyped
<1>2. /\ DOMAIN s = {x} \cup Refs(e, f)
      /\ s[x] = v
      /\ \A a \in Refs(e, f) : s[a] = SyncedKey(e, a, f, v)
  BY <1>1, SetClausesAre
<1>3. /\ DOMAIN c.sets = DOMAIN b.sets \cup DOMAIN s
      /\ \A y \in DOMAIN s : c.sets[y] = s[y]
      /\ \A y \in DOMAIN b.sets \ DOMAIN s : c.sets[y] = b.sets[y]
  BY DEF Overlay
<1> DEFINE Sound(d, a) ==
             /\ a \notin d.removes \cup DOMAIN d.adds
             /\ Feeds(e, a) \cap (d.removes \cup DOMAIN d.adds) = {}
             /\ Feeds(e, a) \cap DOMAIN d.sets # {} => a \in DOMAIN d.sets
             /\ a \in DOMAIN d.sets =>
                  /\ a[1] # "main"
                  /\ Feeds(e, a) \subseteq DOMAIN d.sets
                  /\ d.sets[a] = KeyFunc(e, TemplateOf(e, a),
                                   [g \in FieldsOf(TemplateOf(e, a)) |-> d.sets[AttrOf(e, g)]])
                  /\ ~AnyRefused(d.sets[a])
<1>4. \A a \in KeyAttrs(e) : Sound(b, a)
  BY DEF ClausesSound
<1>5. ASSUME NEW a \in KeyAttrs(e), a \in Refs(e, f)
      PROVE  Sound(c, a)
  <2>1. FieldsOf(TemplateOf(e, a)) = {f} /\ Feeds(e, a) = {x}
    BY <1>1, <1>5, SoleField, KeyTemplatesWellFormed
  <2>2. a \in DOMAIN c.sets /\ x \in DOMAIN c.sets /\ c.sets[x] = v /\ c.sets[a] = SyncedKey(e, a, f, v)
    BY <1>2, <1>3, <1>5
  <2>3. [g \in FieldsOf(TemplateOf(e, a)) |-> c.sets[AttrOf(e, g)]] = [g \in {f} |-> v]
    BY <2>1, <2>2
  <2>4. c.sets[a] = KeyFunc(e, TemplateOf(e, a),
                      [g \in FieldsOf(TemplateOf(e, a)) |-> c.sets[AttrOf(e, g)]])
    BY <2>2, <2>3 DEF SyncedKey
  <2>5. a[1] # "main" /\ ~AnyRefused(c.sets[a])
    BY <1>5, <2>2 DEF Refs
  <2>6. /\ a \notin c.removes \cup DOMAIN c.adds
        /\ Feeds(e, a) \cap (c.removes \cup DOMAIN c.adds) = {}
    BY <1>4
  <2> HIDE DEF e, x, s
  <2> QED
    BY <2>1, <2>2, <2>4, <2>5, <2>6
<1>6. ASSUME NEW a \in KeyAttrs(e), a \notin Refs(e, f)
      PROVE  Sound(c, a)
  <2>1. f \notin FieldsOf(TemplateOf(e, a))
    BY <1>6, SettersOffPrimaryKey
  <2>2. x # a /\ x \notin Feeds(e, a)
    BY <1>1, <2>1, OffKeys
  <2>3. Feeds(e, a) \cap Refs(e, f) = {}
    <3>1. \A g \in FieldsOf(TemplateOf(e, a)) : AttrOf(e, g) \notin KeyAttrs(e)
      BY <1>1, AcceptedEntity, FieldAttrsApart
    <3> QED
      BY <3>1 DEF Feeds, Refs
  <2>4. \A y \in {a} \cup Feeds(e, a) :
          /\ y \notin DOMAIN s
          /\ y \in DOMAIN c.sets <=> y \in DOMAIN b.sets
          /\ y \in DOMAIN b.sets => c.sets[y] = b.sets[y]
    BY <1>2, <1>3, <1>6, <2>2, <2>3
  <2>5. Feeds(e, a) \subseteq DOMAIN b.sets =>
          [g \in FieldsOf(TemplateOf(e, a)) |-> c.sets[AttrOf(e, g)]]
            = [g \in FieldsOf(TemplateOf(e, a)) |-> b.sets[AttrOf(e, g)]]
    BY <2>4 DEF Feeds
  <2>6. Sound(b, a)
    BY <1>4
  <2> HIDE DEF e, x, s
  <2> QED
    BY <2>4, <2>5, <2>6
<1> QED
  BY <1>5, <1>6 DEF ClausesSound

LEMMA SetSound ==
  ASSUME design \in DOMAIN Designs, Accepted(Table),
         NEW b, BuilderTyped(b), ClausesSound(b), NEW f, NEW v, HasSet(Table[b.ent], f)
  PROVE  BuilderSound(SetX(b, f, v))
<1> DEFINE e == Table[b.ent]
           op == "set"
           next == Called(b, f, op, v)
           sound == \A a \in Refs(e, f) : ~AnyRefused(SyncedKey(e, a, f, v))
           good == AppendSets(next, SetClauses(e, f, v))
           bad == AppendSets(next, FieldClause(e, f, v))
<1>1. /\ BuilderTyped(next)
      /\ next.ent = b.ent /\ next.sets = b.sets /\ next.removes = b.removes /\ next.adds = b.adds
  <2> HIDE DEF op
  <2> QED
    BY CalledFields
<1>2. SetX(b, f, v) = IF sound THEN good ELSE [bad EXCEPT !.err = TRUE]
  BY DEF SetX
<1> HIDE DEF next
<1>3. ASSUME NEW sets
      PROVE  LET c == AppendSets(next, sets)
             IN  /\ BuilderTyped(c)
                 /\ c.ent = b.ent /\ c.sets = Overlay(b.sets, sets)
                 /\ c.removes = b.removes /\ c.adds = b.adds
  BY <1>1, AppendFields
<1>4. BuilderTyped(good) /\ BuilderTyped(bad)
  BY <1>3
<1>5. CASE sound
  <2>1. ClausesSound(good)
    <3>1. good.ent = b.ent /\ good.sets = Overlay(b.sets, SetClauses(e, f, v))
      BY <1>3
    <3>2. good.removes = b.removes /\ good.adds = b.adds
      BY <1>3
    <3> HIDE DEF good
    <3> QED
      BY <1>5, <3>1, <3>2, AppendedSound
  <2> QED
    BY <1>2, <1>4, <1>5, <2>1 DEF BuilderSound
<1>6. CASE ~sound
  <2> HIDE DEF bad
  <2> DEFINE c == [bad EXCEPT !.err = TRUE]
  <2>1. BuilderTyped(c) /\ c.err
    BY <1>4 DEF BuilderTyped, BuilderFields
  <2> HIDE DEF c
  <2>2. BuilderSound(c)
    BY <2>1 DEF BuilderSound
  <2> QED
    BY <1>2, <1>6, <2>2 DEF c
<1> QED
  BY <1>5, <1>6

\* The version feeds no key.
LEMMA VersionApart ==
  ASSUME Accepted(Table), NEW n \in Entities, NEW a \in KeyAttrs(Table[n])
  PROVE  ({a} \cup Feeds(Table[n], a)) \cap VersionAttrs(Table[n]) = {}
<1> DEFINE e == Table[n]
<1> SUFFICES ASSUME e.version # ""
             PROVE  AttrOf(e, e.version) # a /\ AttrOf(e, e.version) \notin Feeds(e, a)
  BY DEF VersionAttrs
<1>1. e.version \in DOMAIN e.fields /\ e.version \notin FieldsOf(TemplateOf(e, a))
  BY AcceptedEntity DEF VersionAndTTL
<1> QED
  BY <1>1, OffKeys

LEMMA ApplySound ==
  ASSUME design \in DOMAIN Designs, Accepted(Table), NEW it, ItemSound(it),
         NEW b, ClausesSound(b), b.ent = it.ent
  PROVE  ItemSound([it EXCEPT !.attrs = Applied(b, it.attrs)])
<1> DEFINE e == Table[it.ent]
           new == Applied(b, it.attrs)
<1>0. it.ent \in Entities
  BY DEF ItemSound
<1>1. /\ DOMAIN new = (DOMAIN it.attrs \ b.removes) \cup DOMAIN b.sets \cup DOMAIN b.adds \cup VersionAttrs(e)
      /\ \A y \in DOMAIN b.sets : new[y] = b.sets[y]
      /\ \A y \in DOMAIN it.attrs \ (b.removes \cup DOMAIN b.sets \cup DOMAIN b.adds \cup VersionAttrs(e)) :
           new[y] = it.attrs[y]
  BY DEF Applied
<1> HIDE DEF new
<1>2. \A a \in KeyAttrs(e) : ({a} \cup Feeds(e, a)) \cap VersionAttrs(e) = {}
  BY <1>0, VersionApart
<1>3. ASSUME NEW a \in KeyAttrs(e)
      PROVE  /\ a \in DOMAIN new
             /\ new[a] = KeyFunc(e, TemplateOf(e, a), Unmarshal(e, new))
             /\ ~AnyRefused(new[a])
  <2> DEFINE t == TemplateOf(e, a)
  <2>1. WellFormed(t) /\ FieldsOf(t) \subseteq DOMAIN e.fields
    BY <1>0, AcceptedEntity, KeyTemplatesWellFormed
  <2>2. \A g \in FieldsOf(t) : AttrOf(e, g) \in Feeds(e, a)
    BY DEF Feeds
  <2>3. /\ a \notin b.removes \cup DOMAIN b.adds
        /\ Feeds(e, a) \cap (b.removes \cup DOMAIN b.adds) = {}
        /\ Feeds(e, a) \cap DOMAIN b.sets # {} => a \in DOMAIN b.sets
    BY DEF ClausesSound
  <2>4. /\ a \in DOMAIN it.attrs
        /\ it.attrs[a] = KeyFunc(e, t, Unmarshal(e, it.attrs)) /\ ~AnyRefused(it.attrs[a])
    BY DEF ItemSound
  <2>5. a \in DOMAIN new
    BY <1>1, <2>3, <2>4
  <2>6. CASE a \in DOMAIN b.sets
    <3> DEFINE w == [g \in FieldsOf(t) |-> b.sets[AttrOf(e, g)]]
    <3>1. Feeds(e, a) \subseteq DOMAIN b.sets /\ b.sets[a] = KeyFunc(e, t, w) /\ ~AnyRefused(b.sets[a])
      BY <2>6 DEF ClausesSound
    <3>2. \A g \in FieldsOf(t) : w[g] = Unmarshal(e, new)[g]
      BY <1>1, <2>1, <2>2, <3>1 DEF Unmarshal
    <3>3. KeyFunc(e, t, w) = KeyFunc(e, t, Unmarshal(e, new))
      <4> HIDE DEF w, t
      <4> QED
        BY <2>1, <3>2, KeyOfItsFields
    <3> QED
      BY <1>1, <2>5, <2>6, <3>1, <3>3
  <2>7. CASE a \notin DOMAIN b.sets
    <3>1. new[a] = it.attrs[a]
      BY <1>1, <1>2, <2>3, <2>4, <2>7
    <3>2. \A y \in Feeds(e, a) : y \notin b.removes \cup DOMAIN b.sets \cup DOMAIN b.adds \cup VersionAttrs(e)
      BY <1>2, <2>3, <2>7
    <3>3. \A y \in Feeds(e, a) : /\ y \in DOMAIN new <=> y \in DOMAIN it.attrs
                                 /\ y \in DOMAIN new => new[y] = it.attrs[y]
      BY <1>1, <3>2
    <3>4. \A g \in FieldsOf(t) : Unmarshal(e, it.attrs)[g] = Unmarshal(e, new)[g]
      BY <2>1, <2>2, <3>3 DEF Unmarshal
    <3>5. KeyFunc(e, t, Unmarshal(e, it.attrs)) = KeyFunc(e, t, Unmarshal(e, new))
      <4> HIDE DEF t
      <4> QED
        BY <2>1, <3>4, KeyOfItsFields
    <3> QED
      BY <2>4, <2>5, <3>1, <3>5
  <2> QED
    BY <2>6, <2>7
<1>4. LET x == [it EXCEPT !.attrs = new]
      IN  DOMAIN x = {"ent", "attrs"} /\ x.ent = it.ent /\ x.attrs = new
  BY DEF ItemSound
<1> DEFINE x == [it EXCEPT !.attrs = new]
<1> HIDE DEF x
<1>5. DOMAIN x = {"ent", "attrs"} /\ x.ent = it.ent /\ x.attrs = new
  BY <1>4 DEF x
<1>6. ItemSound(x)
  BY <1>0, <1>3, <1>5 DEF ItemSound
<1> QED
  BY <1>6 DEF x, new

------------------------------------------------------------------------------
(* The inductive invariant.                                                *)

LEMMA SameDesign ==
  ASSUME design' = design
  PROVE  /\ Table' = Table /\ Entities' = Entities
         /\ \A it : ItemSound(it) => ItemSound(it)'
         /\ \A b : BuilderSound(b) => BuilderSound(b)'
<1>1. Table' = Table
  BY DEF Table
<1>2. Entities' = Entities
  BY <1>1 DEF Entities
<1>3. \A it : ItemSound(it) => ItemSound(it)'
  BY <1>1, <1>2 DEF ItemSound
<1>4. \A b : BuilderSound(b) => BuilderSound(b)'
  BY <1>1, <1>2 DEF BuilderSound, BuilderTyped, ClausesSound
<1> QED
  BY <1>1, <1>2, <1>3, <1>4

LEMMA InitInvariant == Init => IInv
  BY DEF Init, IInv

\* A builder that only counts its run.
LEMMA RanSound ==
  ASSUME NEW b, BuilderSound(b), b.runs < MaxRuns
  PROVE  BuilderSound([b EXCEPT !.runs = b.runs + 1])
<1> DEFINE c == [b EXCEPT !.runs = b.runs + 1]
<1>1. /\ DOMAIN c = BuilderFields /\ c.runs = b.runs + 1
      /\ c.ent = b.ent /\ c.key = b.key /\ c.err = b.err /\ c.overlap = b.overlap
      /\ c.sets = b.sets /\ c.removes = b.removes /\ c.adds = b.adds
  BY DEF BuilderSound, BuilderTyped, BuilderFields
<1> HIDE DEF c
<1>2. b.runs + 1 \in 0 .. MaxRuns
  BY BoundAssumption DEF BuilderSound, BuilderTyped
<1>3. BuilderTyped(c)
  BY <1>1, <1>2 DEF BuilderSound, BuilderTyped
<1>4. ~c.err => ClausesSound(c)
  BY <1>1 DEF BuilderSound, ClausesSound
<1>5. BuilderSound(c)
  BY <1>3, <1>4 DEF BuilderSound
<1> QED
  BY <1>5 DEF c

LEMMA StepInvariant == IInv /\ [Next]_vars => IInv'
<1> SUFFICES ASSUME IInv, [Next]_vars
             PROVE  IInv'
  OBVIOUS
<1>1. ASSUME design' = design,
             verdict' \in {"unchecked", "refused", "failed", "generated"},
             verdict' = "generated" => Accepted(Table),
             items' # {} \/ builder' # None => verdict' = "generated",
             \A it \in items' : ItemSound(it),
             builder' # None => BuilderSound(builder')
      PROVE  IInv'
  <2>1. Table' = Table
    BY <1>1, SameDesign
  <2>2. \A it \in items' : ItemSound(it)'
    BY <1>1, SameDesign
  <2>3. builder' # None => BuilderSound(builder)'
    <3>1. Table' = Table /\ Entities' = Entities
      BY <1>1, SameDesign
    <3> QED
      BY <1>1, <3>1 DEF BuilderSound, BuilderTyped, ClausesSound
  <2> QED
    BY <1>1, <2>1, <2>2, <2>3 DEF IInv
<1>2. CASE UNCHANGED vars
  BY <1>1, <1>2 DEF IInv, vars
<1>3. CASE Generate
  <2>1. items = {} /\ builder = None
    BY <1>3 DEF IInv, Generate
  <2>2. verdict' \in {"refused", "failed", "generated"} /\ (verdict' = "generated" => Accepted(Table))
    BY <1>3 DEF Generate
  <2> QED
    BY <1>1, <1>3, <2>1, <2>2 DEF IInv, Generate
<1>4. ASSUME NEW n \in Entities, NEW vals, Put(n, vals)
      PROVE  IInv'
  <2> DEFINE new == [ent |-> n, attrs |-> Marshal(Table[n], vals)]
  <2>1. verdict = "generated" /\ CanMarshal(Table[n], vals) /\ UNCHANGED <<design, verdict, builder>>
    BY <1>4 DEF Put
  <2>2. items' \subseteq items \cup {new}
    BY <1>4 DEF Put
  <2>3. ItemSound(new)
    BY <2>1, MarshalledSound DEF IInv
  <2> HIDE DEF new
  <2> QED
    BY <1>1, <2>1, <2>2, <2>3 DEF IInv
<1>5. ASSUME NEW n \in Entities, NEW vals, Delete(n, vals)
      PROVE  IInv'
  <2>1. items' \subseteq items
    BY <1>5 DEF Delete
  <2> QED
    BY <1>1, <1>5, <2>1 DEF IInv, Delete
<1>6. ASSUME NEW n \in Entities, NEW vals, StartUpdate(n, vals)
      PROVE  IInv'
  <2>1. BuilderSound(Builder(n, vals))
    BY NewBuilderSound DEF IInv
  <2> QED
    BY <1>1, <1>6, <2>1 DEF IInv, StartUpdate
<1>7. CASE Setter
  <2> DEFINE e == Table[builder.ent]
  <2>1. /\ builder # None /\ ~builder.err /\ verdict = "generated" /\ Accepted(Table)
        /\ design \in DOMAIN Designs /\ BuilderTyped(builder) /\ ClausesSound(builder)
        /\ UNCHANGED <<design, verdict, items>>
    BY <1>7 DEF Setter, IInv, BuilderSound
  <2>2. PICK f \in DOMAIN e.fields :
          \/ HasSet(e, f) /\ \E r \in RowsOf(builder.ent) : builder' = SetX(builder, f, r[f])
          \/ HasAdd(e, f) /\ \E d \in Deltas : builder' = AddX(builder, f, d)
          \/ HasRemove(e, f) /\ builder' = RemoveX(builder, f)
    BY <1>7 DEF Setter
  <2>3. ASSUME HasSet(e, f), NEW v, builder' = SetX(builder, f, v)
        PROVE  BuilderSound(builder')
    BY <2>1, <2>3, SetSound
  <2>4. ASSUME HasAdd(e, f), NEW d, builder' = AddX(builder, f, d)
        PROVE  BuilderSound(builder')
    BY <2>1, <2>4, AddSound, AddFields DEF BuilderSound
  <2>5. ASSUME HasRemove(e, f), builder' = RemoveX(builder, f)
        PROVE  BuilderSound(builder')
    BY <2>1, <2>5, RemoveSound, RemoveFields DEF BuilderSound
  <2>6. BuilderSound(builder')
    BY <2>2, <2>3, <2>4, <2>5
  <2> QED
    BY <1>1, <2>1, <2>6 DEF IInv
<1>8. CASE Run
  <2>1. /\ builder # None /\ ~builder.err /\ verdict = "generated" /\ Accepted(Table)
        /\ design \in DOMAIN Designs /\ BuilderSound(builder) /\ builder.runs < MaxRuns
        /\ UNCHANGED <<design, verdict>>
    BY <1>8 DEF Run, IInv
  <2>2. builder' = [builder EXCEPT !.runs = builder.runs + 1]
    BY <1>8 DEF Run
  <2>3. BuilderSound(builder')
    BY <2>1, <2>2, RanSound
  <2>4. ASSUME NEW it \in items, StoredKey(it) = builder.key
        PROVE  ItemSound([it EXCEPT !.attrs = Applied(builder, it.attrs)])
    <3>1. ItemSound(it) /\ BuilderTyped(builder) /\ ClausesSound(builder)
      BY <2>1 DEF IInv, BuilderSound
    <3>2. PICK vals : builder.key = KeyOf(Table[builder.ent], vals)
      BY <3>1 DEF BuilderTyped
    <3>3. builder.ent = it.ent
      BY <2>1, <2>4, <3>1, <3>2, SameKeySameEntity DEF BuilderTyped
    <3> QED
      BY <2>1, <3>1, <3>3, ApplySound
  <2>5. \A new \in items' : \E it \in items :
          new = it \/ (StoredKey(it) = builder.key /\ new = [it EXCEPT !.attrs = Applied(builder, it.attrs)])
    BY <1>8 DEF Run
  <2>6. \A it \in items' : ItemSound(it)
    BY <2>4, <2>5 DEF IInv
  <2> QED
    BY <1>1, <2>1, <2>3, <2>6 DEF IInv
<1>9. CASE Drop
  BY <1>1, <1>9 DEF IInv, Drop
<1> QED
  BY <1>2, <1>3, <1>4, <1>5, <1>6, <1>7, <1>8, <1>9 DEF Next

LEMMA Invariant == Spec => []IInv
  BY InitInvariant, StepInvariant, PTL DEF Spec

------------------------------------------------------------------------------
(* Results.                                                                *)

\* For any design, whatever is put, deleted and updated in whatever order,
\* builders and items belong to entities of the design, and every item has
\* all the key attributes of its entity, none made of a refused value.
THEOREM TypeCorrect == Spec => []TypeOK
<1>1. IInv => TypeOK
  BY DEF IInv, TypeOK, ItemSound, BuilderSound, BuilderTyped
<1> QED
  BY <1>1, Invariant, PTL

\* For any design that the checks accept: no sequence of puts and updates
\* leaves a key of an item different from what its fields make of it
\* (emit.go 241-243).
THEOREM InSync == Spec => []KeysInSync
<1>1. IInv => KeysInSync
  BY DEF IInv, KeysInSync, ItemSound
<1> QED
  BY <1>1, Invariant, PTL

\* For any design that the checks accept (DDB001): no entity can be given
\* values for which it would write the key of another's item, on the table
\* or on an index.
THEOREM Apart == Spec => []EntitiesApart
<1>1. ASSUME IInv PROVE EntitiesApart
  <2> SUFFICES ASSUME NEW it \in items, NEW g \in Entities \ {it.ent},
                      NEW ix \in DOMAIN Table[g].keys \cap DOMAIN Table[it.ent].keys,
                      NEW vals \in RowsOf(g)
               PROVE  LET e == Table[g] IN
                        \/ KeyFunc(e, e.keys[ix].pk, vals) # it.attrs[PKAttrFor(ix)]
                        \/ /\ ix \in Sorted(e) /\ ix \in Sorted(Table[it.ent])
                           /\ KeyFunc(e, e.keys[ix].sk, vals) # it.attrs[SKAttrFor(ix)]
    BY DEF EntitiesApart
  <2> DEFINE m == Table[it.ent]
             w == Unmarshal(m, it.attrs)
  <2>1. ItemSound(it) /\ it.ent \in Entities /\ Accepted(Table) /\ design \in DOMAIN Designs
    BY <1>1 DEF IInv, ItemSound
  <2>2. it.attrs[PKAttrFor(ix)] = KeyFunc(m, m.keys[ix].pk, w)
    <3>1. PKAttrFor(ix) \in KeyAttrs(m) /\ TemplateOf(m, PKAttrFor(ix)) = m.keys[ix].pk
      BY DEF KeyAttrs, PKAttrFor, TemplateOf
    <3> QED
      BY <2>1, <3>1 DEF ItemSound
  <2>3. ix \in Sorted(m) => it.attrs[SKAttrFor(ix)] = KeyFunc(m, m.keys[ix].sk, w)
    <3>1. ix \in Sorted(m) => SKAttrFor(ix) \in KeyAttrs(m) /\ TemplateOf(m, SKAttrFor(ix)) = m.keys[ix].sk
      BY DEF KeyAttrs, SKAttrFor, TemplateOf
    <3> QED
      BY <2>1, <3>1 DEF ItemSound
  <2> HIDE DEF w
  <2> QED
    BY <2>1, <2>2, <2>3, KeysApart
<1> QED
  BY <1>1, Invariant, PTL

\* Sets of naturals have a least element.
LEMMA LeastOf ==
  ASSUME NEW S, S \subseteq Nat, S # {}
  PROVE  \E i \in S : \A j \in S : i <= j
<1>1. PICK i \in S : \A j \in S : ~(<<j, i>> \in OpToRel(<, Nat))
  BY NatLessThanWellFounded, WFMin
<1>2. \A j \in S : ~(j < i)
  BY <1>1 DEF OpToRel
<1> QED
  BY <1>2

------------------------------------------------------------------------------
(* What the checks accept can be generated.  They let a pad field be a     *)
(* uintptr (any type whose name begins with "uint"), for which there is no *)
(* call, so that type is left out.                                         *)

NoUintptr ==
  \A d \in DOMAIN Designs : \A n \in DOMAIN Designs[d] :
    \A f \in DOMAIN Designs[d][n].fields : Designs[d][n].fields[f].type # "uintptr"

\* The encoder of a field is that of one of its places.
LEMMA EncoderOfPlace ==
  ASSUME NEW t, WellFormed(t), NEW f \in FieldsOf(t)
  PROVE  \E i \in Placeholders(t) : t[i].field = f /\ EncoderOf(t, f) = t[i].enc
<1> DEFINE places == {i \in Placeholders(t) : t[i].field = f}
<1>1. places \subseteq Nat /\ places # {}
  BY DEF FieldsOf, Placeholders, WellFormed
<1>2. \E i \in places : \A j \in places : i <= j
  BY <1>1, LeastOf
<1> QED
  BY <1>2 DEF EncoderOf

\* The two tables of encoders and types agree otherwise.
LEMMA CompatibleEncodes ==
  ASSUME NEW seg, IsSegment(seg), seg.kind = "ph", NEW goType, goType # "uintptr",
         EncoderCompat(seg.enc, goType)
  PROVE  EncodesType(seg.enc, goType)
  BY DEF IsSegment, EncoderCompat, EncodesType, Strings, FixedEncoders

LEMMA PlacesEncode ==
  ASSUME NoUintptr, design \in DOMAIN Designs, Accepted(Table), NEW n \in Entities,
         NEW a \in KeyAttrs(Table[n]), NEW i \in Placeholders(TemplateOf(Table[n], a))
  PROVE  LET seg == TemplateOf(Table[n], a)[i]
         IN  /\ seg.field \in DOMAIN Table[n].fields
             /\ EncodesType(seg.enc, Table[n].fields[seg.field].type)
<1> DEFINE e == Table[n]
           t == TemplateOf(e, a)
           seg == t[i]
<1>1. IsSegment(seg) /\ seg.kind = "ph"
  BY KeyTemplatesWellFormed DEF WellFormed, Placeholders
<1>2. PlaceholdersResolve(e)
  BY DEF Accepted, EntityPasses, Entities
<1>3. seg.field \in DOMAIN e.fields /\ EncoderCompat(seg.enc, e.fields[seg.field].type)
  BY <1>2 DEF PlaceholdersResolve
<1>4. e.fields[seg.field].type # "uintptr"
  BY <1>3 DEF NoUintptr, Table, Entities
<1> HIDE DEF seg
<1>5. EncodesType(seg.enc, e.fields[seg.field].type)
  BY <1>1, <1>3, <1>4, CompatibleEncodes
<1> QED
  BY <1>3, <1>5 DEF seg

LEMMA PatternsBuild ==
  ASSUME NoUintptr, design \in DOMAIN Designs, Accepted(Table), NEW n \in Entities,
         NEW x \in DOMAIN Table[n].patterns
  PROVE  PatternBuilds(Table[n], Table[n].patterns[x])
<1> DEFINE e == Table[n]
           p == e.patterns[x]
           segs == p.value.segs
           sk == e.keys[p.index].sk
<1> SUFFICES ASSUME p.value # NoValue, sk # NoSK
             PROVE  /\ Aligns(sk, p.value, e.fields)
                    /\ ValueEncodes(e, segs)
                    /\ p.cond = "lt" => segs[Len(segs)].kind = "ph" /\ ~p.value.delim
                                          /\ HasPred(segs[Len(segs)].enc)
  BY DEF PatternBuilds
<1>1. p.index \in DOMAIN e.keys /\ IsTemplate(segs)
  <2>1. EntityParses(e)
    BY DesignsParse DEF Parses, Table, Entities
  <2> QED
    BY <2>1 DEF EntityParses, PatternParses, IsCondition
<1>2. SKAttrFor(p.index) \in KeyAttrs(e) /\ TemplateOf(e, SKAttrFor(p.index)) = sk
  BY <1>1 DEF KeyAttrs, Sorted, SKAttrFor, TemplateOf
<1>3. Satisfiable(e, p)
  BY DEF Accepted, EntityPasses, Entities
<1>4. /\ Aligns(sk, p.value, e.fields)
      /\ p.cond \in Ranges => /\ segs[Len(segs)].kind = "ph" /\ ~p.value.delim
                              /\ FixedAt(segs, Len(segs), e.fields)
  BY <1>3 DEF Satisfiable
<1>5. WellFormed(sk)
  BY <1>2, KeyTemplatesWellFormed
<1>6. ValueEncodes(e, segs)
  <2>1. \A i \in Placeholders(segs) : i \in Placeholders(sk) /\ segs[i] = sk[i]
    <3>1. Len(segs) <= Len(sk) /\ \A i \in DOMAIN segs : segs[i] = sk[i]
      BY <1>4 DEF Aligns
    <3>2. segs \in Seq(Segments) /\ sk \in Seq(Segments)
      BY <1>1, <1>5 DEF IsTemplate, WellFormed
    <3> HIDE DEF segs, sk, e
    <3>3. DOMAIN segs = 1 .. Len(segs) /\ DOMAIN sk = 1 .. Len(sk) /\ Len(segs) \in Nat /\ Len(sk) \in Nat
      BY <3>2
    <3>4. DOMAIN segs \subseteq DOMAIN sk
      BY <3>1, <3>3
    <3> QED
      BY <3>1, <3>4 DEF Placeholders
  <2> HIDE DEF segs, sk, e
  <2>2. \A i \in Placeholders(sk) :
          /\ sk[i].field \in DOMAIN e.fields
          /\ EncodesType(sk[i].enc, e.fields[sk[i].field].type)
    BY <1>2, PlacesEncode DEF e
  <2> QED
    BY <2>1, <2>2 DEF ValueEncodes
<1>7. p.cond = "lt" => HasPred(segs[Len(segs)].enc)
  BY <1>4 DEF Ranges, FixedAt, FixedWidth, HasPred
<1> QED
  BY <1>4, <1>6, <1>7 DEF Ranges

LEMMA AcceptedTableBuilds ==
  ASSUME NoUintptr, design \in DOMAIN Designs, Accepted(Table)
  PROVE  Builds(Table)
<1>1. ASSUME NEW n \in Entities, NEW a \in KeyAttrs(Table[n])
      PROVE  KeyEncodes(Table[n], TemplateOf(Table[n], a))
  <2> DEFINE e == Table[n]
             t == TemplateOf(e, a)
  <2>1. WellFormed(t)
    BY KeyTemplatesWellFormed
  <2>2. ASSUME NEW f \in FieldsOf(t)
        PROVE  f \in DOMAIN e.fields /\ EncodesType(EncoderOf(t, f), e.fields[f].type)
    <3>1. PICK i \in Placeholders(t) : t[i].field = f /\ EncoderOf(t, f) = t[i].enc
      BY <2>1, EncoderOfPlace
    <3> QED
      BY <3>1, PlacesEncode
  <2> QED
    BY <2>2 DEF KeyEncodes
<1> QED
  BY <1>1, PatternsBuild DEF Builds, Entities

\* For any design whose fields are of types the checks and the generator
\* agree on: what the checks accept never fails in code generation, though
\* encoders, boundaries and predecessors are decided a second time there.
THEOREM AcceptedCanBeBuilt == NoUintptr => (Spec => []AcceptedBuilds)
<1> SUFFICES ASSUME NoUintptr PROVE Spec => []AcceptedBuilds
  OBVIOUS
<1>1. Init => AcceptedBuilds
  BY DEF Init, AcceptedBuilds
<1>2. IInv /\ AcceptedBuilds /\ [Next]_vars => AcceptedBuilds'
  <2> SUFFICES ASSUME IInv, AcceptedBuilds, [Next]_vars PROVE AcceptedBuilds'
    OBVIOUS
  <2>1. CASE Generate
    BY <2>1, AcceptedTableBuilds DEF Generate, IInv, AcceptedBuilds
  <2>2. CASE UNCHANGED verdict
    BY <2>2 DEF AcceptedBuilds
  <2>3. Generate \/ UNCHANGED verdict
    BY DEF Next, vars, Put, Delete, StartUpdate, Setter, Run, Drop
  <2> QED
    BY <2>1, <2>2, <2>3
<1> QED
  BY <1>1, <1>2, Invariant, PTL DEF Spec

------------------------------------------------------------------------------
(* A Run of an update builder writes what was asked, for every design.     *)
(* While a builder has no error and no two clauses for one attribute, its  *)
(* clauses are what its callers asked for, field by field; and no two      *)
(* items have one key, so that it changes one item at most.                *)

\* The clause of a field says what was asked of it.
Does(b, f) ==
  LET a == AttrOf(Table[b.ent], f)
  IN  \/ /\ b.asked[f].op = "set"
         /\ a \in DOMAIN b.sets \ (b.removes \cup DOMAIN b.adds)
         /\ b.sets[a] = b.asked[f].value
      \/ /\ b.asked[f].op = "add"
         /\ a \in DOMAIN b.adds \ (b.removes \cup DOMAIN b.sets)
         /\ b.asked[f].value[1] = b.adds[a]
         /\ Table[b.ent].fields[f].type \in IntTypes
      \/ /\ b.asked[f].op = "remove"
         /\ a \in b.removes \ (DOMAIN b.sets \cup DOMAIN b.adds)

AskedSound(b) ==
  LET e == Table[b.ent]
  IN  /\ DOMAIN b.asked \subseteq DOMAIN e.fields \ {e.version}
      /\ \A f \in DOMAIN b.asked : Does(b, f)
      /\ \A f \in DOMAIN e.fields \ DOMAIN b.asked : AttrOf(e, f) \notin Clauses(b)

UniqueKeys == \A i, j \in items : StoredKey(i) = StoredKey(j) => i = j

FullInv ==
  /\ IInv
  /\ UniqueKeys
  /\ builder # None /\ ~builder.err /\ ~builder.overlap => AskedSound(builder)

\* Asking once more, of a field without a clause.
LEMMA AskedOnceMore ==
  ASSUME Accepted(Table), NEW b, b.ent \in Entities, AskedSound(b),
         NEW f \in DOMAIN Table[b.ent].fields \ {Table[b.ent].version},
         NEW c, c.ent = b.ent, NEW ask, c.asked = AskedToo(b, f, ask), Does(c, f),
         \A y \in FieldAttrs(Table[b.ent]) \ {AttrOf(Table[b.ent], f)} :
           /\ y \in DOMAIN c.sets <=> y \in DOMAIN b.sets
           /\ y \in DOMAIN b.sets => c.sets[y] = b.sets[y]
           /\ y \in c.removes <=> y \in b.removes
           /\ y \in DOMAIN c.adds <=> y \in DOMAIN b.adds
           /\ y \in DOMAIN b.adds => c.adds[y] = b.adds[y]
  PROVE  AskedSound(c)
<1> DEFINE e == Table[b.ent]
<1>1. /\ DOMAIN c.asked = DOMAIN b.asked \cup {f}
      /\ \A g \in DOMAIN b.asked \ {f} : c.asked[g] = b.asked[g]
  BY DEF AskedToo, Overlay
<1>2. \A g \in DOMAIN e.fields \ {f} : AttrOf(e, g) \in FieldAttrs(e) \ {AttrOf(e, f)}
  BY FieldAttrsApart DEF FieldAttrs
<1>3. DOMAIN b.asked \subseteq DOMAIN e.fields \ {e.version}
  BY DEF AskedSound
<1>4. ASSUME NEW g \in DOMAIN b.asked \ {f}
      PROVE  Does(c, g)
  <2>1. Does(b, g)
    BY DEF AskedSound
  <2>2. AttrOf(e, g) \in FieldAttrs(e) \ {AttrOf(e, f)} /\ c.asked[g] = b.asked[g]
    BY <1>1, <1>2, <1>3
  <2> QED
    BY <2>1, <2>2 DEF Does
<1>5. ASSUME NEW g \in DOMAIN e.fields \ DOMAIN c.asked
      PROVE  AttrOf(e, g) \notin Clauses(c)
  <2>1. AttrOf(e, g) \notin Clauses(b) /\ AttrOf(e, g) \in FieldAttrs(e) \ {AttrOf(e, f)}
    BY <1>1, <1>2, <1>5 DEF AskedSound
  <2> QED
    BY <2>1 DEF Clauses
<1> QED
  BY <1>1, <1>3, <1>4, <1>5 DEF AskedSound

LEMMA AddAsked ==
  ASSUME Accepted(Table), NEW b, BuilderTyped(b), ~b.overlap => AskedSound(b), NEW f, NEW d,
         HasAdd(Table[b.ent], f), ~AddX(b, f, d).overlap
  PROVE  AskedSound(AddX(b, f, d))
<1> DEFINE e == Table[b.ent]
           a == AttrOf(e, f)
           c == AddX(b, f, d)
<1>1. /\ f \in DOMAIN e.fields \ {e.version} /\ e.fields[f].type \in IntTypes
      /\ b.ent \in Entities
  BY DEF HasAdd, HasRemove, HasSet, BuilderTyped
<1>2. /\ c.ent = b.ent /\ c.sets = b.sets /\ c.removes = b.removes
      /\ DOMAIN c.adds = DOMAIN b.adds \cup {a}
      /\ c.adds[a] = d
      /\ \A y \in DOMAIN b.adds \ {a} : c.adds[y] = b.adds[y]
      /\ ~b.overlap /\ a \notin Clauses(b)
      /\ c.asked = AskedToo(b, f, AddAsk(d))
  BY AddFields
<1> HIDE DEF c, a
<1>3. c.asked[f].op = "add" /\ c.asked[f].value[1] = d
  BY <1>2 DEF AskedToo, Overlay, AddAsk, Ask
<1>4. Does(c, f)
  BY <1>1, <1>2, <1>3 DEF Does, Clauses, a
<1>5. AskedSound(c)
  BY <1>1, <1>2, <1>4, AskedOnceMore DEF a
<1> QED
  BY <1>5 DEF c

LEMMA RemoveAsked ==
  ASSUME Accepted(Table), NEW b, BuilderTyped(b), ~b.overlap => AskedSound(b), NEW f,
         HasRemove(Table[b.ent], f), ~RemoveX(b, f).overlap
  PROVE  AskedSound(RemoveX(b, f))
<1> DEFINE e == Table[b.ent]
           a == AttrOf(e, f)
           c == RemoveX(b, f)
<1>1. f \in DOMAIN e.fields \ {e.version} /\ b.ent \in Entities
  BY DEF HasRemove, HasSet, BuilderTyped
<1>2. /\ c.ent = b.ent /\ c.sets = b.sets /\ c.adds = b.adds
      /\ c.removes = b.removes \cup {a}
      /\ ~b.overlap /\ a \notin Clauses(b)
      /\ c.asked = AskedToo(b, f, RemoveAsk)
  BY RemoveFields
<1> HIDE DEF c, a
<1>3. c.asked[f].op = "remove"
  BY <1>2 DEF AskedToo, Overlay, RemoveAsk, Ask
<1>4. Does(c, f)
  BY <1>2, <1>3 DEF Does, Clauses, a
<1>5. AskedSound(c)
  BY <1>1, <1>2, <1>4, AskedOnceMore DEF a
<1> QED
  BY <1>5 DEF c

LEMMA SetAsked ==
  ASSUME Accepted(Table), NEW b, BuilderTyped(b), ~b.overlap => AskedSound(b), NEW f, NEW v,
         HasSet(Table[b.ent], f), ~SetX(b, f, v).err, ~SetX(b, f, v).overlap
  PROVE  AskedSound(SetX(b, f, v))
<1> DEFINE e == Table[b.ent]
           a == AttrOf(e, f)
           op == "set"
           next == Called(b, f, op, v)
           s == SetClauses(e, f, v)
           c == AppendSets(next, s)
           bad == AppendSets(next, FieldClause(e, f, v))
<1>1. f \in DOMAIN e.fields \ {e.version} /\ b.ent \in Entities
  BY DEF HasSet, BuilderTyped
<1>2. /\ BuilderTyped(next) /\ next.ent = b.ent
      /\ next.sets = b.sets /\ next.removes = b.removes /\ next.adds = b.adds
      /\ next.overlap = b.overlap /\ next.asked = AskedToo(b, f, Ask(op, v))
  <2> HIDE DEF op
  <2> QED
    BY CalledFields
<1>3. SetX(b, f, v) \in {c, [bad EXCEPT !.err = TRUE]}
  BY DEF SetX
<1> HIDE DEF next
<1>4. SetX(b, f, v) = c
  <2>1. BuilderTyped(bad)
    BY <1>2, AppendFields
  <2> HIDE DEF bad
  <2>2. [bad EXCEPT !.err = TRUE].err
    BY <2>1 DEF BuilderTyped, BuilderFields
  <2> QED
    BY <1>3, <2>2
<1>5. /\ c.ent = b.ent /\ c.asked = next.asked
      /\ c.sets = Overlay(b.sets, s) /\ c.removes = b.removes /\ c.adds = b.adds
      /\ ~c.overlap => ~next.overlap /\ Clauses(next) \cap DOMAIN s = {}
  BY <1>2, AppendFields
<1>6. DOMAIN s = {a} \cup Refs(e, f) /\ s[a] = v
  BY <1>1, SetClausesAre
<1> HIDE DEF c, s
<1>7. ~b.overlap /\ a \notin Clauses(b)
  BY <1>2, <1>4, <1>5, <1>6 DEF Clauses
<1>8. /\ a \in DOMAIN c.sets /\ c.sets[a] = v
      /\ \A y \in FieldAttrs(e) \ {a} :
           /\ y \in DOMAIN c.sets <=> y \in DOMAIN b.sets
           /\ y \in DOMAIN b.sets => c.sets[y] = b.sets[y]
  <2>1. FieldAttrs(e) \cap Refs(e, f) = {}
    BY <1>1, FieldAttrsApart DEF FieldAttrs, Refs
  <2> QED
    BY <1>5, <1>6, <2>1 DEF Overlay
<1>9. c.asked[f].op = "set" /\ c.asked[f].value = v
  BY <1>2, <1>5 DEF AskedToo, Overlay, Ask
<1>10. Does(c, f)
  BY <1>5, <1>7, <1>8, <1>9 DEF Does, Clauses
<1>11. AskedSound(c)
  <2> DEFINE ask == Ask(op, v)
  <2>1. c.asked = AskedToo(b, f, ask) /\ c.ent = b.ent /\ AskedSound(b)
    BY <1>2, <1>5, <1>7
  <2>2. \A y \in FieldAttrs(e) \ {a} :
          /\ y \in DOMAIN c.sets <=> y \in DOMAIN b.sets
          /\ y \in DOMAIN b.sets => c.sets[y] = b.sets[y]
          /\ y \in c.removes <=> y \in b.removes
          /\ y \in DOMAIN c.adds <=> y \in DOMAIN b.adds
          /\ y \in DOMAIN b.adds => c.adds[y] = b.adds[y]
    BY <1>5, <1>8
  <2>3. f \in DOMAIN Table[b.ent].fields \ {Table[b.ent].version}
    BY <1>1
  <2> HIDE DEF ask, e
  <2> QED
    BY <1>1, <1>10, <2>1, <2>2, <2>3, AskedOnceMore DEF e
<1> QED
  BY <1>4, <1>11

LEMMA AppliedKey ==
  ASSUME design \in DOMAIN Designs, Accepted(Table), NEW it, ItemSound(it),
         NEW b, ClausesSound(b), b.ent = it.ent
  PROVE  StoredKey([it EXCEPT !.attrs = Applied(b, it.attrs)]) = StoredKey(it)
<1> DEFINE e == Table[it.ent]
           new == Applied(b, it.attrs)
           x == [it EXCEPT !.attrs = new]
<1>1. it.ent \in Entities /\ x.ent = it.ent /\ x.attrs = new
  BY DEF ItemSound
<1>2. ASSUME NEW a \in KeyAttrs(e), a[1] = "main"
      PROVE  new[a] = it.attrs[a]
  <2>1. a \notin DOMAIN b.sets \cup b.removes \cup DOMAIN b.adds
    BY <1>2 DEF ClausesSound
  <2>2. a \notin VersionAttrs(e) /\ a \in DOMAIN it.attrs
    BY <1>1, VersionApart DEF ItemSound
  <2> QED
    BY <2>1, <2>2 DEF Applied
<1>3. PKAttrFor("main") \in KeyAttrs(e) /\ PKAttrFor("main")[1] = "main"
  BY <1>1, EntityTypeApart DEF KeyAttrs, PKAttrFor
<1>4. "main" \in Sorted(e) => SKAttrFor("main") \in KeyAttrs(e) /\ SKAttrFor("main")[1] = "main"
  BY DEF KeyAttrs, SKAttrFor
<1> HIDE DEF new, x
<1>5. StoredKey(x) = StoredKey(it)
  BY <1>1, <1>2, <1>3, <1>4 DEF StoredKey
<1> QED
  BY <1>5 DEF x, new

\* A number field that is missing counts from zero.
LEMMA NumberOfField ==
  ASSUME NEW e, NEW attrs, NEW f \in DOMAIN e.fields, e.fields[f].type \in IntTypes
  PROVE  Unmarshal(e, attrs)[f][1] = NumberAt(attrs, AttrOf(e, f))
<1>1. CASE AttrOf(e, f) \in DOMAIN attrs
  BY <1>1 DEF Unmarshal, NumberAt
<1>2. CASE AttrOf(e, f) \notin DOMAIN attrs
  <2>1. ZeroValue(e.fields[f].type) = <<0>>
    BY DEF ZeroValue, IntTypes, Unsigned
  <2>2. Unmarshal(e, attrs)[f] = <<0>> /\ NumberAt(attrs, AttrOf(e, f)) = 0
    BY <1>2, <2>1 DEF Unmarshal, NumberAt
  <2> QED
    BY <2>2
<1> QED
  BY <1>1, <1>2

LEMMA AppliedAsked ==
  ASSUME design \in DOMAIN Designs, Accepted(Table), NEW it, ItemSound(it),
         NEW b, AskedSound(b), b.ent = it.ent
  PROVE  Unmarshal(Table[it.ent], Applied(b, it.attrs))
           = AskedOf(b, Unmarshal(Table[it.ent], it.attrs))
<1> DEFINE e == Table[it.ent]
           new == Applied(b, it.attrs)
           was == Unmarshal(e, it.attrs)
<1>1. it.ent \in Entities
  BY DEF ItemSound
<1>2. "" \notin DOMAIN e.fields
  BY <1>1, DesignsParse DEF Parses, Table, Entities, EntityParses
<1>3. e.version # "" => e.version \in DOMAIN e.fields /\ e.fields[e.version].type \in IntTypes
  BY <1>1, AcceptedEntity DEF VersionAndTTL, IntTypes
<1>4. \A f \in DOMAIN e.fields : AttrOf(e, f) \in VersionAttrs(e) <=> f = e.version
  BY <1>1, <1>2, <1>3, FieldAttrsApart DEF VersionAttrs
<1>5. /\ DOMAIN new = (DOMAIN it.attrs \ b.removes) \cup DOMAIN b.sets \cup DOMAIN b.adds \cup VersionAttrs(e)
      /\ \A a \in DOMAIN b.sets : new[a] = b.sets[a]
      /\ \A a \in DOMAIN b.adds \ DOMAIN b.sets : new[a] = <<NumberAt(it.attrs, a) + b.adds[a]>>
      /\ \A a \in VersionAttrs(e) \ (DOMAIN b.sets \cup DOMAIN b.adds) :
           new[a] = <<NumberAt(it.attrs, a) + 1>>
      /\ \A a \in DOMAIN it.attrs \ (b.removes \cup DOMAIN b.sets \cup DOMAIN b.adds \cup VersionAttrs(e)) :
           new[a] = it.attrs[a]
  BY DEF Applied
<1>6. ASSUME NEW f \in DOMAIN e.fields
      PROVE  Unmarshal(e, new)[f] = AskedOf(b, was)[f]
  <2> DEFINE a == AttrOf(e, f)
  <2>0. DOMAIN was = DOMAIN e.fields
    BY DEF Unmarshal
  <2>1. Unmarshal(e, new)[f] = IF a \in DOMAIN new THEN new[a] ELSE ZeroValue(e.fields[f].type)
    BY DEF Unmarshal
  <2>2. was[f] = IF a \in DOMAIN it.attrs THEN it.attrs[a] ELSE ZeroValue(e.fields[f].type)
    BY DEF Unmarshal
  <2> HIDE DEF new, was, a
  <2>3. CASE f \in DOMAIN b.asked
    <3>1. f # e.version /\ Does(b, f)
      BY <2>3 DEF AskedSound
    <3>2. CASE b.asked[f].op = "set"
      <4>1. a \in DOMAIN b.sets /\ b.sets[a] = b.asked[f].value
        BY <3>1, <3>2 DEF Does, a
      <4>2. AskedOf(b, was)[f] = b.asked[f].value
        BY <2>0, <2>3, <3>2 DEF AskedOf
      <4> QED
        BY <1>5, <2>1, <4>1, <4>2
    <3>3. CASE b.asked[f].op = "add"
      <4>1. /\ a \in DOMAIN b.adds \ DOMAIN b.sets /\ b.asked[f].value[1] = b.adds[a]
            /\ e.fields[f].type \in IntTypes
        BY <3>1, <3>3 DEF Does, a
      <4>2. AskedOf(b, was)[f] = <<was[f][1] + b.asked[f].value[1]>>
        BY <2>0, <2>3, <3>3 DEF AskedOf
      <4>3. was[f][1] = NumberAt(it.attrs, a)
        BY <4>1, NumberOfField DEF was, a
      <4>4. a \in DOMAIN new /\ new[a] = <<NumberAt(it.attrs, a) + b.adds[a]>>
        BY <1>5, <4>1
      <4> QED
        BY <2>1, <4>1, <4>2, <4>3, <4>4
    <3>4. CASE b.asked[f].op = "remove"
      <4>1. a \in b.removes \ (DOMAIN b.sets \cup DOMAIN b.adds)
        BY <3>1, <3>4 DEF Does, a
      <4>2. AskedOf(b, was)[f] = ZeroValue(e.fields[f].type)
        BY <2>0, <2>3, <3>4 DEF AskedOf
      <4>3. a \notin VersionAttrs(e)
        BY <1>4, <3>1 DEF a
      <4> QED
        BY <1>5, <2>1, <4>1, <4>2, <4>3
    <3> QED
      BY <3>1, <3>2, <3>3, <3>4 DEF Does
  <2>4. CASE f \notin DOMAIN b.asked
    <3>1. a \notin DOMAIN b.sets \cup b.removes \cup DOMAIN b.adds
      BY <2>4 DEF AskedSound, Clauses, a
    <3>2. CASE f = e.version
      <4>1. a \in VersionAttrs(e) /\ e.fields[f].type \in IntTypes
        BY <1>2, <1>3, <1>4, <3>2 DEF a
      <4>2. AskedOf(b, was)[f] = <<was[f][1] + 1>>
        BY <2>0, <2>4, <3>2 DEF AskedOf
      <4>3. was[f][1] = NumberAt(it.attrs, a)
        BY <4>1, NumberOfField DEF was, a
      <4>4. a \in DOMAIN new /\ new[a] = <<NumberAt(it.attrs, a) + 1>>
        BY <1>5, <3>1, <4>1
      <4> QED
        BY <2>1, <4>2, <4>3, <4>4
    <3>3. CASE f # e.version
      <4>1. a \notin VersionAttrs(e)
        BY <1>4, <3>3 DEF a
      <4>2. AskedOf(b, was)[f] = was[f]
        BY <2>0, <2>4, <3>3 DEF AskedOf
      <4>3. a \in DOMAIN new <=> a \in DOMAIN it.attrs
        BY <1>5, <3>1, <4>1
      <4>4. a \in DOMAIN it.attrs => new[a] = it.attrs[a]
        BY <1>5, <3>1, <4>1
      <4> QED
        BY <2>1, <2>2, <4>2, <4>3, <4>4
    <3> QED
      BY <3>2, <3>3
  <2> QED
    BY <2>3, <2>4
<1> DEFINE now == Unmarshal(e, new)
           want == AskedOf(b, was)
<1>7. now = [f \in DOMAIN e.fields |-> now[f]]
  BY DEF Unmarshal
<1>8. want = [f \in DOMAIN e.fields |-> want[f]]
  <2>1. DOMAIN was = DOMAIN e.fields
    BY DEF Unmarshal
  <2> HIDE DEF was
  <2>2. want = [f \in DOMAIN was |-> want[f]]
    <3> DEFINE G(f) == IF f \in DOMAIN b.asked
         THEN CASE b.asked[f].op = "set" -> b.asked[f].value
                [] b.asked[f].op = "add" -> <<was[f][1] + b.asked[f].value[1]>>
                [] b.asked[f].op = "remove" -> ZeroValue(Table[b.ent].fields[f].type)
         ELSE IF f = Table[b.ent].version THEN <<was[f][1] + 1>>
         ELSE was[f]
    <3>1. want = [f \in DOMAIN was |-> G(f)]
      BY DEF AskedOf
    <3> HIDE DEF G, want
    <3> QED
      BY <3>1
  <2> HIDE DEF want
  <2> QED
    BY <2>1, <2>2
<1>9. now = want
  <2> HIDE DEF now, want
  <2>1. \A f \in DOMAIN e.fields : now[f] = want[f]
    BY <1>6 DEF now, want
  <2> QED
    BY <1>7, <1>8, <2>1
<1> QED
  BY <1>9

LEMMA FullInit == Init => FullInv
  BY InitInvariant DEF Init, FullInv, UniqueKeys

LEMMA AskedStep ==
  ASSUME FullInv, [Next]_vars
  PROVE  builder' # None /\ ~builder'.err /\ ~builder'.overlap => AskedSound(builder')
<1> SUFFICES ASSUME builder' # None, ~builder'.err, ~builder'.overlap
             PROVE  AskedSound(builder')
  OBVIOUS
<1>1. CASE UNCHANGED builder
  BY <1>1 DEF FullInv
<1>2. ASSUME NEW n \in Entities, NEW vals, StartUpdate(n, vals)
      PROVE  AskedSound(builder')
  <2>1. builder' = Builder(n, vals)
    BY <1>2 DEF StartUpdate
  <2>2. AskedSound(Builder(n, vals))
    BY DEF AskedSound, Builder, Clauses
  <2> QED
    BY <2>1, <2>2
<1>3. CASE Setter
  <2> DEFINE e == Table[builder.ent]
  <2>1. /\ Accepted(Table) /\ BuilderTyped(builder)
        /\ ~builder.overlap => AskedSound(builder)
    BY <1>3 DEF Setter, FullInv, IInv, BuilderSound
  <2>2. PICK f \in DOMAIN e.fields :
          \/ HasSet(e, f) /\ \E r \in RowsOf(builder.ent) : builder' = SetX(builder, f, r[f])
          \/ HasAdd(e, f) /\ \E d \in Deltas : builder' = AddX(builder, f, d)
          \/ HasRemove(e, f) /\ builder' = RemoveX(builder, f)
    BY <1>3 DEF Setter
  <2>3. ASSUME HasSet(e, f), NEW v, builder' = SetX(builder, f, v)
        PROVE  AskedSound(builder')
    BY <2>1, <2>3, SetAsked
  <2>4. ASSUME HasAdd(e, f), NEW d, builder' = AddX(builder, f, d)
        PROVE  AskedSound(builder')
    BY <2>1, <2>4, AddAsked
  <2>5. ASSUME HasRemove(e, f), builder' = RemoveX(builder, f)
        PROVE  AskedSound(builder')
    BY <2>1, <2>5, RemoveAsked
  <2> QED
    BY <2>2, <2>3, <2>4, <2>5
<1>4. CASE Run
  <2>1. builder # None /\ BuilderTyped(builder) /\ ~builder.err
    BY <1>4 DEF Run, FullInv, IInv, BuilderSound
  <2>2. builder' = [builder EXCEPT !.runs = builder.runs + 1]
    BY <1>4 DEF Run
  <2>3. /\ builder'.ent = builder.ent /\ builder'.overlap = builder.overlap
        /\ builder'.asked = builder.asked /\ builder'.sets = builder.sets
        /\ builder'.removes = builder.removes /\ builder'.adds = builder.adds
    BY <2>1, <2>2 DEF BuilderTyped, BuilderFields
  <2>4. AskedSound(builder)
    BY <2>1, <2>3 DEF FullInv
  <2> QED
    BY <2>3, <2>4 DEF AskedSound, Does, Clauses
<1> QED
  BY <1>1, <1>2, <1>3, <1>4 DEF Next, vars, Generate, Put, Delete, Drop

\* What a Run does to the table.
LEMMA RunItems ==
  ASSUME FullInv, Run, NEW new \in items'
  PROVE  \E it \in items :
           /\ StoredKey(new) = StoredKey(it)
           /\ \/ new = it /\ (StoredKey(it) # builder.key \/ Refusable(builder))
              \/ /\ StoredKey(it) = builder.key /\ ~Refusable(builder)
                 /\ new = [it EXCEPT !.attrs = Applied(builder, it.attrs)]
<1>1. PICK it \in items :
        \/ new = it /\ (StoredKey(it) # builder.key \/ Refusable(builder))
        \/ /\ StoredKey(it) = builder.key /\ ~Refusable(builder)
           /\ new = [it EXCEPT !.attrs = Applied(builder, it.attrs)]
  BY DEF Run
<1>2. CASE new = it
  BY <1>1, <1>2
<1>3. CASE StoredKey(it) = builder.key /\ new = [it EXCEPT !.attrs = Applied(builder, it.attrs)]
  <2>1. /\ design \in DOMAIN Designs /\ Accepted(Table) /\ ItemSound(it)
        /\ BuilderTyped(builder) /\ ClausesSound(builder)
    BY DEF FullInv, IInv, Run, BuilderSound
  <2>2. PICK vals : builder.key = KeyOf(Table[builder.ent], vals)
    BY <2>1 DEF BuilderTyped
  <2>3. builder.ent = it.ent
    BY <1>3, <2>1, <2>2, SameKeySameEntity DEF BuilderTyped
  <2>4. StoredKey(new) = StoredKey(it)
    BY <1>3, <2>1, <2>3, AppliedKey
  <2> QED
    BY <1>1, <2>4
<1> QED
  BY <1>1, <1>2, <1>3

LEMMA UniqueStep ==
  ASSUME FullInv, [Next]_vars
  PROVE  \A i, j \in items' : StoredKey(i) = StoredKey(j) => i = j
<1>1. CASE items' \subseteq items
  BY <1>1 DEF FullInv, UniqueKeys
<1>2. ASSUME NEW n \in Entities, NEW vals, Put(n, vals)
      PROVE  \A i, j \in items' : StoredKey(i) = StoredKey(j) => i = j
  <2> DEFINE new == [ent |-> n, attrs |-> Marshal(Table[n], vals)]
  <2>1. items' = {it \in items : StoredKey(it) # StoredKey(new)} \cup {new}
    BY <1>2 DEF Put
  <2> HIDE DEF new
  <2> QED
    BY <2>1 DEF FullInv, UniqueKeys
<1>3. CASE Run
  <2> SUFFICES ASSUME NEW i \in items', NEW j \in items', StoredKey(i) = StoredKey(j)
               PROVE  i = j
    OBVIOUS
  <2> DEFINE from(new, it) ==
        \/ new = it /\ (StoredKey(it) # builder.key \/ Refusable(builder))
        \/ /\ StoredKey(it) = builder.key /\ ~Refusable(builder)
           /\ new = [it EXCEPT !.attrs = Applied(builder, it.attrs)]
  <2>1. PICK a \in items : StoredKey(i) = StoredKey(a) /\ from(i, a)
    BY <1>3, RunItems
  <2>2. PICK b \in items : StoredKey(j) = StoredKey(b) /\ from(j, b)
    BY <1>3, RunItems
  <2>3. a = b
    BY <2>1, <2>2 DEF FullInv, UniqueKeys
  <2> QED
    BY <2>1, <2>2, <2>3
<1>4. \/ items' \subseteq items
      \/ \E n \in Entities : \E vals \in RowsOf(n) : Put(n, vals)
      \/ Run
  BY DEF Next, vars, Generate, Delete, StartUpdate, Setter, Drop
<1> QED
  BY <1>1, <1>2, <1>3, <1>4

LEMMA FullStep == FullInv /\ [Next]_vars => FullInv'
<1> SUFFICES ASSUME FullInv, [Next]_vars
             PROVE  FullInv'
  OBVIOUS
<1>1. IInv'
  BY StepInvariant DEF FullInv
<1>2. Table' = Table
  <2>1. design' = design
    BY DEF Next, vars, Generate, Put, Delete, StartUpdate, Setter, Run, Drop
  <2> QED
    BY <2>1, SameDesign
<1>3. UniqueKeys'
  BY <1>2, UniqueStep DEF UniqueKeys, StoredKey
<1>4. (builder # None /\ ~builder.err /\ ~builder.overlap => AskedSound(builder))'
  <2>1. AskedSound(builder') => AskedSound(builder)'
    BY <1>2 DEF AskedSound, Does
  <2> QED
    BY <2>1, AskedStep
<1> QED
  BY <1>1, <1>3, <1>4 DEF FullInv

LEMMA RunStep ==
  ASSUME FullInv, [Next]_vars
  PROVE  AllOrNothingStep
<1> SUFFICES ASSUME builder # None, builder' # None, builder'.runs # builder.runs, items' # items
             PROVE  /\ ~builder.err
                    /\ \E old \in items : \E new \in items' :
                         /\ items' = (items \ {old}) \cup {new}
                         /\ StoredKey(old) = builder.key /\ StoredKey(new) = builder.key
                         /\ new.ent = old.ent /\ old.ent = builder.ent
                         /\ LET e == Table[builder.ent]
                            IN  Unmarshal(e, new.attrs) = AskedOf(builder, Unmarshal(e, old.attrs))
  BY DEF AllOrNothingStep
<1>1. Run
  BY DEF Next, vars, Generate, Put, Delete, StartUpdate, Setter, Drop
<1>2. /\ design \in DOMAIN Designs /\ Accepted(Table) /\ ~builder.err
      /\ BuilderTyped(builder) /\ ClausesSound(builder)
  BY <1>1 DEF FullInv, IInv, Run, BuilderSound
<1> DEFINE next(it) == [it EXCEPT !.attrs = Applied(builder, it.attrs)]
<1>3. items' = {IF StoredKey(it) = builder.key /\ ~Refusable(builder) THEN next(it) ELSE it : it \in items}
  BY <1>1 DEF Run
<1> HIDE DEF next
<1>4. PICK old \in items : StoredKey(old) = builder.key /\ ~Refusable(builder)
  BY <1>3
<1>5. \A it \in items \ {old} : StoredKey(it) # builder.key
  BY <1>4 DEF FullInv, UniqueKeys
<1>6. items' = (items \ {old}) \cup {next(old)}
  BY <1>3, <1>4, <1>5
<1>7. ItemSound(old)
  BY DEF FullInv, IInv
<1>8. builder.ent = old.ent
  <2>1. PICK vals : builder.key = KeyOf(Table[builder.ent], vals)
    BY <1>2 DEF BuilderTyped
  <2> QED
    BY <1>2, <1>4, <1>7, <2>1, SameKeySameEntity DEF BuilderTyped
<1>9. StoredKey(next(old)) = builder.key
  BY <1>2, <1>4, <1>7, <1>8, AppliedKey DEF next
<1>10. next(old).ent = old.ent /\ next(old).attrs = Applied(builder, old.attrs)
  BY <1>7 DEF ItemSound, next
<1>11. AskedSound(builder)
  BY <1>2, <1>4 DEF FullInv, Refusable
<1>12. Unmarshal(Table[builder.ent], next(old).attrs) = AskedOf(builder, Unmarshal(Table[builder.ent], old.attrs))
  BY <1>2, <1>7, <1>8, <1>10, <1>11, AppliedAsked
<1> QED
  BY <1>2, <1>4, <1>6, <1>8, <1>9, <1>10, <1>12

\* For any design that the checks accept: a Run that changes the table
\* changes the one item of the builder's key, to what the callers of its
\* setters asked for and one step of the version, and never after an error
\* of a setter (runtime/expr.go, emit.go Run).
THEOREM RunWritesWhatWasAsked == Spec => RunIsAllOrNothing
<1>1. FullInv /\ [Next]_vars => [AllOrNothingStep]_vars
  BY RunStep
<1> QED
  BY <1>1, FullInit, FullStep, PTL DEF Spec, RunIsAllOrNothing
==============================================================================
