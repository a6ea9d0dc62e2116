------------------------------ MODULE SchemaDiff ------------------------------
(***************************************************************************)
(* What internal/schema makes of the markers of a package: the compiled    *)
(* schema and which changes to it are breaking (diff.go), beside what the  *)
(* generated code does with items that are stored already.                 *)
(*                                                                         *)
(* A schema is a function from table names to tables, a table one from     *)
(* entity names (Go struct names) to entities.  An entity is a record:     *)
(* type and et (the string that marks its items, and the attribute it is   *)
(* in), version and ttl (fields or None), pk and sk (templates), indexes   *)
(* (GSI name to pk, sk and projection), patterns (name to definition) and  *)
(* fields (Go field name to attribute and Go type).                        *)
(***************************************************************************)

CONSTANT LowerName \* GSI name -> its lower case, which names the key attributes

\* A template that is not there: a table or an index without a sort key.
NoSK == "-"

Common(f, g) == DOMAIN f \cap DOMAIN g
Removed(f, g) == DOMAIN f \ DOMAIN g

------------------------------------------------------------------------------
(* Compile and mergeIndexes (schema.go 169-258).                           *)

IndexNames(table) == UNION {DOMAIN table[e].indexes : e \in DOMAIN table}

\* The table's definition of an index: what the entities in it agree on.
IndexDef(table, ix) ==
  LET e == CHOOSE e \in DOMAIN table : ix \in DOMAIN table[e].indexes
      decl == table[e].indexes[ix]
  IN  [sorted |-> decl.sk # NoSK, projection |-> decl.projection]

\* One physical table must fit all its entities, and no two indexes of it
\* share the attributes of their keys.
Fits(table) ==
  \A e, f \in DOMAIN table :
    /\ (table[e].sk = NoSK) = (table[f].sk = NoSK)
    /\ \A ix \in DOMAIN table[e].indexes, jx \in DOMAIN table[f].indexes :
         LowerName[ix] = LowerName[jx] => ix = jx
    /\ \A ix \in Common(table[e].indexes, table[f].indexes) :
         LET d == table[e].indexes[ix]
             g == table[f].indexes[ix]
         IN  d.projection = g.projection /\ (d.sk = NoSK) = (g.sk = NoSK)

------------------------------------------------------------------------------
(* Diff (diff.go 56-215), as far as the gate looks: is a change breaking?  *)

\* Mutant of EntityBroken: key templates of indexes are not compared.
EntityBrokenOnMain(o, n) ==
  \/ o.type # n.type \/ o.et # n.et \/ o.version # n.version \/ o.ttl # n.ttl
  \/ o.pk # n.pk \/ o.sk # n.sk
  \/ Removed(o.indexes, n.indexes) # {}
  \/ Removed(o.patterns, n.patterns) # {}
  \/ \E p \in Common(o.patterns, n.patterns) : o.patterns[p] # n.patterns[p]
  \/ \E f \in Common(o.fields, n.fields) : o.fields[f] # n.fields[f]

EntityBroken(o, n) ==
  \/ o.type # n.type \/ o.et # n.et \/ o.version # n.version \/ o.ttl # n.ttl
  \/ o.pk # n.pk \/ o.sk # n.sk
  \/ Removed(o.indexes, n.indexes) # {}
  \/ \E ix \in Common(o.indexes, n.indexes) :
       \/ o.indexes[ix].pk # n.indexes[ix].pk
       \/ o.indexes[ix].sk # n.indexes[ix].sk
  \/ Removed(o.patterns, n.patterns) # {}
  \/ \E p \in Common(o.patterns, n.patterns) : o.patterns[p] # n.patterns[p]
  \/ \E f \in Common(o.fields, n.fields) : o.fields[f] # n.fields[f]

TableBroken(o, n) ==
  \/ IndexNames(o) \ IndexNames(n) # {}
  \/ \E ix \in IndexNames(o) \cap IndexNames(n) : IndexDef(o, ix) # IndexDef(n, ix)
  \/ Removed(o, n) # {}
  \/ \E e \in Common(o, n) : EntityBroken(o[e], n[e])

HasBreaking(old, new) ==
  \/ Removed(old, new) # {}
  \/ \E t \in Common(old, new) : TableBroken(old[t], new[t])

------------------------------------------------------------------------------
(* What the code generated for an entity stores, and what it finds         *)
(* (internal/codegen/emit.go: marshal, Get and the pattern queries).  An   *)
(* item stands for all those written through the entity.                   *)

Item(table, ent) ==
  [table |-> table, pk |-> ent.pk, sk |-> ent.sk,
   et |-> ent.et, type |-> ent.type,
   keys |-> [ix \in DOMAIN ent.indexes |->
              <<ent.indexes[ix].pk, ent.indexes[ix].sk>>]]

Written(schema) ==
  UNION {{Item(t, schema[t][e]) : e \in DOMAIN schema[t]} : t \in DOMAIN schema}

\* Get builds the item's key, the type filter lets it through, and in every
\* index it is in it stands under the key that queries ask for.
FoundBy(ent, item) ==
  /\ ent.pk = item.pk /\ ent.sk = item.sk
  /\ ent.et = item.et /\ ent.type = item.type
  /\ \A ix \in DOMAIN item.keys :
       /\ ix \in DOMAIN ent.indexes
       /\ item.keys[ix] = <<ent.indexes[ix].pk, ent.indexes[ix].sk>>

Finds(schema, item) ==
  /\ item.table \in DOMAIN schema
  /\ \E e \in DOMAIN schema[item.table] : FoundBy(schema[item.table][e], item)
==============================================================================
