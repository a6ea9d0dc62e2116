---------------------------- MODULE KeyTemplates -----------------------------
(***************************************************************************)
(* Key templates (internal/keytmpl): what parses as one, where a sort-key  *)
(* condition may stop within it (boundary.go), and the generator's own     *)
(* rendering and parsing of keys (encode.go).                              *)
(*                                                                         *)
(* A template is the sequence of its segments, a condition value such as   *)
(* "ORDER#" a record of segments and a trailing delimiter.  A rendered key *)
(* is kept as the sequence of its segments; Join is the string that is     *)
(* stored, and Split takes it apart again.                                 *)
(***************************************************************************)
EXTENDS KeyEncoders

\* The sort key of a table or an index that has none.
NoSK == <<>>

Lit(text) == [kind |-> "lit", literal |-> text, field |-> "", enc |-> Raw]
Ph(field, enc) == [kind |-> "ph", literal |-> <<>>, field |-> field, enc |-> enc]

\* parseSegment: a segment is a literal or a placeholder, whole.
IsSegment(seg) ==
  \/ seg.kind = "lit" /\ seg.literal # <<>> /\ {Hash, 123, 125} \cap ToSet(seg.literal) = {}
  \/ /\ seg.kind = "ph" /\ seg.field # ""
     /\ \/ seg.enc.name \in Strings \cup FixedEncoders \cup {"hex"}
        \/ seg.enc.name = "pad" /\ seg.enc.width \in 1..99

\* Parse and ParsePrefix.
Segments == [kind : {"lit", "ph"}, literal : Seq(Int), field : STRING,
             enc : [name : STRING, width : Nat]]
IsTemplate(t) == t \in Seq(Segments) \ {<<>>} /\ \A i \in DOMAIN t : IsSegment(t[i])
IsCondition(p) == IsTemplate(p.segs) /\ p.delim \in BOOLEAN

Literals(t) == {i \in DOMAIN t : t[i].kind = "lit"}
Placeholders(t) == {i \in DOMAIN t : t[i].kind = "ph"}
FieldsOf(t) == {t[i].field : i \in Placeholders(t)}

\* The Go type of a field; fields is a map from names to types and attributes.
GoType(fields, f) == IF f \in DOMAIN fields THEN fields[f].type ELSE ""

\* Is a placeholder's encoding as wide for every value?
FixedWidth(enc, goType) ==
  \/ enc.name \in FixedEncoders
  \/ enc.name = "hex" /\ goType \in ByteArrays
  \/ enc.name = "pad" /\ enc.width > 0

FixedAt(t, i, fields) == FixedWidth(t[i].enc, GoType(fields, t[i].field))

------------------------------------------------------------------------------
(* Cuts (boundary.go).  A cut is the number of segments consumed.          *)

\* AlignPrefix: does a condition stop at a boundary of the template?
Aligns(t, p, fields) ==
  LET n == Len(p.segs)
  IN  /\ n <= Len(t)
      /\ \A i \in DOMAIN p.segs : p.segs[i] = t[i]
      /\ t[n].kind = "lit" \/ p.delim \/ n = Len(t) \/ FixedAt(t, n, fields)

LeadingLiteralCut(t) ==
  CHOOSE n \in 0 .. Len(t) :
    /\ \A i \in 1 .. n : t[i].kind = "lit"
    /\ n = Len(t) \/ t[n + 1].kind = "ph"

\* cutAt: a placeholder follows.  RangeEligible: and its width is fixed.
HasNext(t, n) == n < Len(t) /\ t[n + 1].kind = "ph"
RangeEligible(t, n, fields) == HasNext(t, n) /\ FixedAt(t, n + 1, fields)

------------------------------------------------------------------------------
(* Rendered keys.                                                          *)

Join(segs) ==
  IF segs = <<>> THEN <<>>
  ELSE Tail(FlattenSeq([i \in DOMAIN segs |-> <<Hash>> \o segs[i]]))

\* The parts of the first n characters, and of all of them.
Split(s) ==
  LET parts[n \in 0 .. Len(s)] ==
        IF n = 0 THEN <<<<>>>>
        ELSE LET before == parts[n - 1]
             IN  IF s[n] = Hash THEN Append(before, <<>>)
                 ELSE [before EXCEPT ![Len(before)] = Append(@, s[n])]
  IN  parts[Len(s)]

\* PrefixString: the first n segments, all literals.
PrefixString(t, n) ==
  Join([i \in 1 .. n |-> t[i].literal]) \o (IF n \in 1 .. Len(t) - 1 THEN <<Hash>> ELSE <<>>)

AnyRefused(segs) == \E i \in DOMAIN segs : segs[i] = Refused

\* Template.Encode.
Encode(t, fields, vals) ==
  LET segs == [i \in DOMAIN t |->
                 IF t[i].kind = "lit" THEN t[i].literal
                 ELSE EncodeSegment(t[i].enc, GoType(fields, t[i].field), vals[t[i].field])]
  IN  IF AnyRefused(segs) THEN Refused ELSE Join(segs)

\* Template.Decode: the map from the fields to the values the key was made
\* of, as a set of one, or of none when the key does not parse.
Decode(t, key) ==
  LET parts == Split(key)
      at(f) == CHOOSE i \in Placeholders(t) :
                 t[i].field = f /\ \A j \in Placeholders(t) : t[j].field = f => j <= i
      values == [f \in FieldsOf(t) |-> DecodeSegment(t[at(f)].enc, parts[at(f)])]
  IN  IF \/ Len(parts) # Len(t)
         \/ \E i \in Literals(t) : parts[i] # t[i].literal
         \/ \E i \in Placeholders(t) : DecodeSegment(t[i].enc, parts[i]) = Refused
      THEN {} ELSE {values}

\* StructurallyEqual is the equality of templates.
StructurallyEqual(s, t) == s = t
==============================================================================
