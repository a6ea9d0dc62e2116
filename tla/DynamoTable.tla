----------------------------- MODULE DynamoTable -----------------------------
(***************************************************************************)
(* What the generated client relies on from a DynamoDB table: an item map  *)
(* with conditional PutItem, UpdateItem and DeleteItem, each atomic on one *)
(* item.  The service is not part of the repository; it is modelled from   *)
(* the expressions the client sends (internal/codegen/emit.go) and from    *)
(* the runtime.DynamoDB interface.                                         *)
(*                                                                         *)
(* An item carries three history fields no program can read: wid names the *)
(* write that produced it, born the write that created the item it         *)
(* replaced, set the last write that named the field val.  The first two   *)
(* are what "the item changed since it was read" is about; the third tells *)
(* whether a write of this client has ever computed the index key.         *)
(***************************************************************************)
EXTENDS Integers

CONSTANTS
  Keys,       \* main-table keys (pk and sk together)
  Vals,       \* values of the field that feeds the index key
  IndexKeys,  \* encoded index keys
  IndexKey,   \* the index key of a value, None when it cannot be encoded
  None        \* absent item, attribute, struct, request or reply

NoVer == -1   \* the item has no version attribute

Seen == [wid: Nat, born: Nat]
NothingSeen == [wid |-> 0, born |-> 0]

Item == [ver: Nat \cup {NoVer}, val: Vals, idx: IndexKeys \cup {None},
         wid: Nat, born: Nat, set: Nat]

\* Mutant of GoVer: a missing field is not read as zero.
VersionAsStored(i) == i.ver

\* The version a program reads: unmarshalling leaves a missing field at zero.
GoVer(i) == IF i.ver = NoVer THEN 0 ELSE i.ver

Wid(i) == IF i = None THEN 0 ELSE i.wid

CondHolds(r, i) ==
  \/ r.cond = "none"
  \/ r.cond = "absent" /\ i = None
  \/ r.cond = "exists" /\ i # None
  \/ r.cond = "version" /\ i # None /\ i.ver = r.expected

\* PutItem replaces the whole item.
Stored(r, i, w) ==
  [ver |-> r.ver, val |-> r.val, idx |-> r.idx, wid |-> w,
   born |-> IF i = None THEN w ELSE i.born, set |-> w]

\* Mutant of Updated: the update does not increment the version.
UpdatedWithoutIncrement(r, i, w) ==
  [ver |-> i.ver,
   val |-> IF r.val = None THEN i.val ELSE r.val,
   idx |-> IF r.idx = None THEN i.idx ELSE r.idx,
   wid |-> w, born |-> i.born, set |-> IF r.val = None THEN i.set ELSE w]

\* UpdateItem changes the named attributes; the version clause is
\* if_not_exists(ver, 0) + 1.
Updated(r, i, w) ==
  [ver |-> GoVer(i) + 1,
   val |-> IF r.val = None THEN i.val ELSE r.val,
   idx |-> IF r.idx = None THEN i.idx ELSE r.idx,
   wid |-> w, born |-> i.born, set |-> IF r.val = None THEN i.set ELSE w]

After(r, i, w) ==
  CASE r.api = "PutItem" -> Stored(r, i, w)
    [] r.api = "UpdateItem" -> Updated(r, i, w)
    [] r.api = "DeleteItem" -> None
    [] r.api = "GetItem" -> i
==============================================================================
