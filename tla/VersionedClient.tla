--------------------------- MODULE VersionedClient ---------------------------
(***************************************************************************)
(* The generated client of one entity that declares version= and one index *)
(* (internal/codegen/emit.go, entityTmpl; examples/ecommerce/order_gen.go  *)
(* is an instance), used by several goroutines or processes at once.       *)
(*                                                                         *)
(* A method call is three steps: the client builds and sends a request,    *)
(* the table applies it, the client maps the answer to a result.  Between  *)
(* them anything may happen: other calls, a request or an answer lost, an  *)
(* attempt repeated by the SDK, an attempt applied after the caller gave   *)
(* up.  A request is lost when it stays in net for ever.                   *)
(***************************************************************************)
EXTENDS DynamoTable

CONSTANTS
  Clients,
  Calls,     \* the generated methods the application uses
  Legacy,    \* TRUE when the table may hold items older than the version
             \* field and the index
  MaxSends   \* bound: requests one client sends

AllCalls == {"Get", "Put", "PutIfNotExists", "Delete", "Update",
             "BatchPut", "TransactPut", "TransactDelete"}

\* The methods that send an item image.
PutOps == {"Put", "PutIfNotExists", "BatchPut", "TransactPut"}

\* The writes whose documentation says they skip optimistic locking.
Bypass == {"BatchPut", "TransactPut"}

ASSUME CallsAssumption == Calls \subseteq AllCalls
ASSUME LegacyAssumption == Legacy \in BOOLEAN
ASSUME MaxSendsAssumption == MaxSends \in Nat
ASSUME IndexKeyAssumption == IndexKey \in [Vals -> IndexKeys \cup {None}]
ASSUME NoneAssumption == None \notin Vals \cup IndexKeys

VARIABLES
  table,     \* the items
  replica,   \* what an eventually consistent read may return
  writes,    \* writes applied so far; names the next one
  net,       \* attempts sent and not yet applied
  obj,       \* the entity struct each client holds
  phase,     \* of each client's current call: idle, wait or replied
  req,       \* its request
  reply,     \* and the table's answer
  sent       \* attempts sent so far; tags the next one

vars == <<table, replica, writes, net, obj, phase, req, reply, sent>>
store == <<table, replica, writes>>

Struct == [key: Keys, ver: Nat, val: Vals, seen: Seen]
Request == [op: AllCalls,
            api: {"GetItem", "PutItem", "UpdateItem", "DeleteItem"},
            key: Keys, cond: {"none", "absent", "exists", "version"},
            expected: Nat, ver: Nat, val: Vals \cup {None},
            idx: IndexKeys \cup {None}, seen: Seen]
Reply == [ok: BOOLEAN, found: Item \cup {None}, new: Item \cup {None}]
Attempt == [c: Clients, tag: Nat, r: Request]

ASSUME NoneNotRecord == None \notin Item \cup Struct \cup Request \cup Reply

TypeOK ==
  /\ table \in [Keys -> Item \cup {None}]
  /\ replica \in [Keys -> Item \cup {None}]
  /\ writes \in Nat
  /\ net \subseteq Attempt
  /\ obj \in [Clients -> Struct \cup {None}]
  /\ phase \in [Clients -> {"idle", "wait", "replied"}]
  /\ req \in [Clients -> Request \cup {None}]
  /\ reply \in [Clients -> Reply \cup {None}]
  /\ sent \in [Clients -> Nat]
  /\ \A c \in Clients : phase[c] # "idle" => req[c] # None
  /\ \A c \in Clients : phase[c] = "replied" => reply[c] # None

\* Items written before the version field and the index were declared.
LegacyItem == [ver: {NoVer}, val: Vals, idx: {None}, wid: {1}, born: {1}, set: {1}]

Init ==
  /\ table \in [Keys -> {None} \cup (IF Legacy THEN LegacyItem ELSE {})]
  /\ replica = table
  /\ writes = 1
  /\ net = {}
  /\ obj = [c \in Clients |-> None]
  /\ phase = [c \in Clients |-> "idle"]
  /\ req = [c \in Clients |-> None]
  /\ reply = [c \in Clients |-> None]
  /\ sent = [c \in Clients |-> 0]

------------------------------------------------------------------------------
(* Requests the methods build.                                             *)

SeenOf(i) == [wid |-> i.wid, born |-> i.born]
StructOf(k, i) ==
  [key |-> k, ver |-> GoVer(i), val |-> i.val, seen |-> SeenOf(i)]

\* A request that carries no item image.
Bare(op, api, k, cond, expected, seen) ==
  [op |-> op, api |-> api, key |-> k, cond |-> cond, expected |-> expected,
   ver |-> 0, val |-> None, idx |-> None, seen |-> seen]

\* Mutant of Image: marshal forgets the index key.
ImageWithoutIndexKey(op, o, cond, ver, v) ==
  [op |-> op, api |-> "PutItem", key |-> o.key, cond |-> cond,
   expected |-> o.ver, ver |-> ver, val |-> v, idx |-> None,
   seen |-> o.seen]

\* A PutItem of struct o with field value v and version ver; marshal adds the
\* index key.
Image(op, o, cond, ver, v) ==
  [op |-> op, api |-> "PutItem", key |-> o.key, cond |-> cond,
   expected |-> o.ver, ver |-> ver, val |-> v, idx |-> IndexKey[v],
   seen |-> o.seen]

Encodes(v) == IndexKey[v] # None

GetRequest(k) == Bare("Get", "GetItem", k, "none", 0, NothingSeen)

\* Mutant of PutRequest: version one is taken for a new item.
PutRequestOffByOne(o, v) ==
  Image("Put", o, IF o.ver <= 1 THEN "absent" ELSE "version", o.ver + 1, v)

\* Put: a zero version must create, any other must still be the stored one.
PutRequest(o, v) ==
  Image("Put", o, IF o.ver = 0 THEN "absent" ELSE "version", o.ver + 1, v)

PutIfNotExistsRequest(o, v) ==
  Image("PutIfNotExists", o, "absent", IF o.ver = 0 THEN 1 ELSE o.ver, v)

BatchPutRequest(o, v) == Image("BatchPut", o, "none", o.ver, v)
TransactPutRequest(o, v) == Image("TransactPut", o, "none", o.ver, v)

DeleteRequest(k, cond, o) ==
  IF cond = "version"
  THEN Bare("Delete", "DeleteItem", k, cond, o.ver, o.seen)
  ELSE Bare("Delete", "DeleteItem", k, cond, 0, NothingSeen)

TransactDeleteRequest(k) ==
  Bare("TransactDelete", "DeleteItem", k, "none", 0, NothingSeen)

\* Run: v is the value a setter chose, None when only other fields are set.
\* The setter of a field that feeds an index key sets that key as well.
Changing(r, v) ==
  [r EXCEPT !.val = v, !.idx = IF v = None THEN None ELSE IndexKey[v]]

UpdateRequest(k, v) ==
  Changing(Bare("Update", "UpdateItem", k, "exists", 0, NothingSeen), v)
GuardedUpdateRequest(o, v) ==
  Changing(Bare("Update", "UpdateItem", o.key, "version", o.ver, o.seen), v)

------------------------------------------------------------------------------
(* The client's side of a call.                                            *)

Transmit(c, r) ==
  /\ sent[c] < MaxSends
  /\ sent' = [sent EXCEPT ![c] = @ + 1]
  /\ net' = net \cup {[c |-> c, tag |-> sent[c] + 1, r |-> r]}
  /\ phase' = [phase EXCEPT ![c] = "wait"]

Send(c, r) ==
  /\ phase[c] = "idle"
  /\ r.op \in Calls
  /\ Transmit(c, r)
  /\ req' = [req EXCEPT ![c] = r]
  /\ UNCHANGED <<store, reply>>

\* The application builds a struct of its own; its version is zero.
NewStruct(c, k, v) ==
  /\ phase[c] = "idle"
  /\ obj' = [obj EXCEPT ![c] =
               [key |-> k, ver |-> 0, val |-> v, seen |-> NothingSeen]]
  /\ UNCHANGED <<store, net, phase, req, reply, sent>>

Get(c, k) == Send(c, GetRequest(k)) /\ UNCHANGED obj

\* Mutants of Put and PutIfNotExists: the struct keeps its old version.
PutWithoutAdvance(c, v) ==
  /\ obj[c] # None /\ Encodes(v)
  /\ Send(c, PutRequest(obj[c], v))
  /\ obj' = [obj EXCEPT ![c].val = v]

PutIfNotExistsWithoutAdvance(c, v) ==
  /\ obj[c] # None /\ Encodes(v)
  /\ Send(c, PutIfNotExistsRequest(obj[c], v))
  /\ obj' = [obj EXCEPT ![c].val = v]

\* The version field is advanced in the caller's struct before the request
\* is sent.
Put(c, v) ==
  /\ obj[c] # None /\ Encodes(v)
  /\ Send(c, PutRequest(obj[c], v))
  /\ obj' = [obj EXCEPT ![c].ver = @ + 1, ![c].val = v]

PutIfNotExists(c, v) ==
  /\ obj[c] # None /\ Encodes(v)
  /\ Send(c, PutIfNotExistsRequest(obj[c], v))
  /\ obj' = [obj EXCEPT ![c].ver = IF @ = 0 THEN 1 ELSE @, ![c].val = v]

\* marshal fails on a value that has no index key: nothing is sent and the
\* version is as before.
PutRefused(c, v) ==
  /\ phase[c] = "idle"
  /\ obj[c] # None /\ ~Encodes(v)
  /\ obj' = [obj EXCEPT ![c].val = v]
  /\ UNCHANGED <<store, net, phase, req, reply, sent>>

BlindPut(c, v) ==
  /\ obj[c] # None /\ Encodes(v)
  /\ \/ Send(c, BatchPutRequest(obj[c], v))
     \/ Send(c, TransactPutRequest(obj[c], v))
  /\ obj' = [obj EXCEPT ![c].val = v]

Delete(c, k) ==
  /\ \/ \E cond \in {"none", "exists"} :
          Send(c, DeleteRequest(k, cond, obj[c]))
     \/ /\ obj[c] # None /\ obj[c].key = k
        /\ Send(c, DeleteRequest(k, "version", obj[c]))
     \/ Send(c, TransactDeleteRequest(k))
  /\ UNCHANGED obj

\* A setter given a value with no index key leaves an error that Run
\* returns, so such an update is never sent.
Update(c, k, v) ==
  /\ v # None => Encodes(v)
  /\ \/ Send(c, UpdateRequest(k, v))
     \/ /\ obj[c] # None /\ obj[c].key = k
        /\ Send(c, GuardedUpdateRequest(obj[c], v))
  /\ UNCHANGED obj

\* The SDK sends another attempt of the same request.
Resend(c) ==
  /\ phase[c] # "idle"
  /\ Transmit(c, req[c])
  /\ reply' = [reply EXCEPT ![c] = None]
  /\ UNCHANGED <<store, obj, req>>

------------------------------------------------------------------------------
(* The table's side: an attempt is applied once, early or late; only the   *)
(* answer to the latest attempt of a waiting client is heard.              *)

Apply(a, old) ==
  LET r  == a.r
      ok == CondHolds(r, old)
      w  == writes + 1
      i  == IF ok THEN After(r, old, w) ELSE old
      c  == a.c
  IN  /\ net' = net \ {a}
      /\ IF ok /\ r.api # "GetItem"
         THEN table' = [table EXCEPT ![r.key] = i] /\ writes' = w
         ELSE UNCHANGED <<table, writes>>
      /\ IF phase[c] = "wait" /\ a.tag = sent[c]
         THEN /\ phase' = [phase EXCEPT ![c] = "replied"]
              /\ reply' = [reply EXCEPT ![c] =
                             [ok |-> ok, found |-> old, new |-> i]]
         ELSE UNCHANGED <<phase, reply>>
      /\ UNCHANGED <<replica, obj, req, sent>>

\* A read without WithConsistentRead may be served from a replica.
ApplyOne ==
  \E a \in net :
    \/ Apply(a, table[a.r.key])
    \/ a.r.api = "GetItem" /\ Apply(a, replica[a.r.key])

Replicate(k) ==
  /\ replica[k] # table[k]
  /\ replica' = [replica EXCEPT ![k] = table[k]]
  /\ UNCHANGED <<table, writes, net, obj, phase, req, reply, sent>>

------------------------------------------------------------------------------
(* The result of a call whose answer has arrived.                          *)

\* A condition that does not hold, as each method reports it.
Refusal(r) ==
  CASE r.op = "Put" -> "ErrVersionConflict"
    [] r.op = "PutIfNotExists" -> "ErrConditionFailed"
    [] OTHER -> IF r.cond = "version" THEN "ErrVersionConflict"
                                      ELSE "ErrNotFound"

Result(c) ==
  IF req[c].op = "Get"
  THEN IF reply[c].found = None THEN "ErrNotFound" ELSE "ok"
  ELSE IF reply[c].ok THEN "ok" ELSE Refusal(req[c])

\* Mutant of Restored: a failed put leaves the advanced version behind.
NotRestored(c) == obj

\* A failed Put or PutIfNotExists puts the version field back.
Restored(c) ==
  IF req[c].op \in {"Put", "PutIfNotExists"}
  THEN [obj EXCEPT ![c].ver = req[c].expected]
  ELSE obj

EndCall(c) ==
  /\ phase' = [phase EXCEPT ![c] = "idle"]
  /\ req' = [req EXCEPT ![c] = None]
  /\ reply' = [reply EXCEPT ![c] = None]
  /\ UNCHANGED <<store, net, sent>>

\* Get and Run return a new struct; after a put the caller's own struct
\* stands for the item it wrote.
ReturnOk(c) ==
  /\ phase[c] = "replied" /\ Result(c) = "ok"
  /\ \/ /\ req[c].op \in {"Get", "Update"}
        /\ obj' = [obj EXCEPT ![c] = StructOf(req[c].key, reply[c].new)]
     \/ /\ req[c].op \in PutOps
        /\ obj' = [obj EXCEPT ![c].seen = SeenOf(reply[c].new)]
     \/ /\ req[c].op \in {"Delete", "TransactDelete"}
        /\ UNCHANGED obj
  /\ EndCall(c)

ReturnError(c) ==
  /\ phase[c] = "replied" /\ Result(c) # "ok"
  /\ obj' = Restored(c)
  /\ EndCall(c)

\* Any other error: a timeout, a cancelled context, a lost answer.  The
\* attempts sent so far stay on their way.
Fail(c) ==
  /\ phase[c] # "idle"
  /\ obj' = Restored(c)
  /\ EndCall(c)

------------------------------------------------------------------------------
Next ==
  \/ \E c \in Clients :
       \/ \E k \in Keys :
            \/ Get(c, k)
            \/ Delete(c, k)
            \/ \E v \in Vals : NewStruct(c, k, v)
            \/ \E v \in Vals \cup {None} : Update(c, k, v)
       \/ \E v \in Vals :
            Put(c, v) \/ PutIfNotExists(c, v) \/ PutRefused(c, v) \/ BlindPut(c, v)
       \/ Resend(c) \/ ReturnOk(c) \/ ReturnError(c) \/ Fail(c)
  \/ ApplyOne
  \/ \E k \in Keys : Replicate(k)

Spec == Init /\ [][Next]_vars

------------------------------------------------------------------------------
(* Properties.                                                             *)

\* Attempt a is the one applied in this step, and it changed the table.
Landed(a) == a \in net \ net' /\ writes' # writes

\* The requests optimistic locking protects.
Locked(r) == r.op = "Put" \/ r.cond = "version"

\* The item r was built from was deleted, and i has been created since.
DeletedSince(r, i) == r.seen.born # 0 /\ r.seen.born # i.born

\* No lost update: a Put, a guarded Run or a guarded Delete that takes effect
\* on an item replaces exactly the write its caller had read or made, for any
\* interleaving, loss, repetition and delay of attempts, unless that item was
\* deleted and created anew.
NoLostUpdateStep ==
  \A a \in net :
    LET i == table[a.r.key]
    IN  Landed(a) /\ Locked(a.r) /\ i # None
          => a.r.seen.wid = i.wid \/ DeletedSince(a.r, i)
NoLostUpdate == [][NoLostUpdateStep]_vars

\* A Put or an update of an item that was read and has since been deleted
\* does not bring it back; only a struct that was never stored, or
\* PutIfNotExists, creates.
DeletedStaysDeletedStep ==
  \A a \in net :
    Landed(a) /\ a.r.op \in {"Put", "Update"} /\ table[a.r.key] = None
      => a.r.op = "Put" /\ a.r.seen = NothingSeen
DeletedStaysDeleted == [][DeletedStaysDeletedStep]_vars

\* A caller told ErrVersionConflict held something other than what the table
\* had when it decided (a guarded Delete or Run of a struct that was never
\* stored, finding nothing, is refused as well).
ConflictMeansChanged ==
  \A c \in Clients :
    phase[c] = "replied" /\ Result(c) = "ErrVersionConflict"
      => \/ Wid(reply[c].found) # req[c].seen.wid
         \/ req[c].cond = "version" /\ req[c].seen = NothingSeen

\* The index key of a stored item is the key of the value it is stored with.
\* Only an item older than the index may lack one, and only as long as no
\* write of this client, a Put or an update that sets the field, named it.
IndexInSync ==
  \A k \in Keys :
    table[k] # None => \/ table[k].idx = IndexKey[table[k].val]
                       \/ table[k].set = 1 /\ table[k].idx = None

\* A struct at rest that stands for the stored write carries its version, so
\* that its owner can write again.
StructCarriesVersion ==
  \A c \in Clients :
    phase[c] = "idle" /\ obj[c] # None /\ table[obj[c].key] # None
      => (obj[c].seen.wid = table[obj[c].key].wid
            => obj[c].ver = GoVer(table[obj[c].key]))

------------------------------------------------------------------------------
(* The inductive invariant behind NoLostUpdate.  It holds for applications *)
(* whose Calls avoid the Bypass methods.                                   *)

\* How each method fills in its request.
WellFormed(r) ==
  /\ r.op \in Calls
  /\ r.op = "Get" <=> r.api = "GetItem"
  /\ r.op \in PutOps <=> r.api = "PutItem"
  /\ r.op = "Update" <=> r.api = "UpdateItem"
  /\ r.op \in PutOps => r.val # None
  /\ r.op = "Update" => r.cond \in {"exists", "version"}
  /\ r.op = "Put" => /\ r.ver = r.expected + 1
                     /\ r.cond = IF r.expected = 0 THEN "absent" ELSE "version"
  /\ r.op = "PutIfNotExists" => r.cond = "absent" /\ r.ver # 0
  /\ r.op # "Put" /\ r.cond = "version" => r.op \in {"Update", "Delete"}

\* The answer in reply[c] is one to req[c].
Answered(c) ==
  /\ req[c].op = "Get" => reply[c].new = reply[c].found
  /\ reply[c].ok /\ req[c].op \in PutOps =>
       reply[c].new # None /\ reply[c].new.ver = req[c].ver
  /\ reply[c].ok /\ req[c].op = "Update" => reply[c].new # None

\* A client waits for its own request; while a put is under way its struct
\* carries the version being written.
CallInv ==
  /\ \A a \in net :
       /\ WellFormed(a.r)
       /\ a.tag <= sent[a.c]
       /\ a.tag = sent[a.c] /\ phase[a.c] # "idle" => a.r = req[a.c]
  /\ \A c \in Clients : phase[c] # "idle" =>
       /\ WellFormed(req[c])
       /\ req[c].op \in PutOps =>
            /\ obj[c] # None /\ obj[c].key = req[c].key
            /\ obj[c].ver = req[c].ver
  /\ \A c \in Clients : phase[c] = "replied" => Answered(c)

\* The application deletes nothing.
NoDelete == Calls \cap {"Delete", "TransactDelete"} = {}

\* Version ver of key k, sighted as write s, is the version of that write, is
\* not ahead of the item, and within one life of the item equal versions are
\* equal writes.  Without deletes an item that was sighted is still there.
Honest(k, ver, s) ==
  /\ s.born <= s.wid /\ s.wid <= writes
  /\ ver # 0 => s.born # 0
  /\ ver = 0 /\ ~Legacy => s = NothingSeen
  /\ table[k] # None /\ table[k].wid = s.wid => ver = GoVer(table[k])
  /\ table[k] # None /\ table[k].born = s.born =>
       /\ ver <= GoVer(table[k])
       /\ ver = GoVer(table[k]) => s.wid = table[k].wid
  /\ NoDelete /\ s.born # 0 => table[k] # None /\ table[k].born = s.born

HonestItem(k, i) ==
  /\ i.ver # 0 /\ i.born # 0
  /\ Honest(k, GoVer(i), SeenOf(i))

\* The version an interrupted call falls back to.
Held(c) ==
  IF phase[c] # "idle" /\ req[c].op \in {"Put", "PutIfNotExists"}
  THEN req[c].expected ELSE obj[c].ver

HistoryInv ==
  /\ \A k \in Keys : table[k] # None => HonestItem(k, table[k])
  /\ \A k \in Keys : replica[k] # None => HonestItem(k, replica[k])
  /\ \A a \in net : Locked(a.r) => Honest(a.r.key, a.r.expected, a.r.seen)
  /\ \A c \in Clients : phase[c] # "idle" /\ Locked(req[c]) =>
       Honest(req[c].key, req[c].expected, req[c].seen)
  /\ \A c \in Clients : obj[c] # None =>
       Honest(obj[c].key, Held(c), obj[c].seen)
  /\ \A c \in Clients : phase[c] = "replied" /\ reply[c].new # None =>
       HonestItem(req[c].key, reply[c].new)

\* The application stays clear of the writes that skip the lock.
NoBypass == Calls \cap Bypass = {}

\* Every version a program holds names one write of one life of an item, and
\* none is ahead of the table: the state predicate NoLostUpdate follows from.
LockInv == CallInv /\ HistoryInv

------------------------------------------------------------------------------
(* Refinement.                                                             *)

KindOf(r) ==
  IF r.op = "Put" THEN "put"
  ELSE CASE r.cond = "version" -> "replace"
         [] r.cond = "absent" -> "create"
         [] r.cond = "exists" -> "touch"

\* Only a locked request depends on the write its struct was made from.
OperationOf(a) ==
  [id |-> <<a.c, a.tag>>, key |-> a.r.key, kind |-> KindOf(a.r),
   base |-> IF Locked(a.r) THEN a.r.seen.wid ELSE 0]

WriteAttempts == {a \in net : a.r.api # "GetItem"}

Abstract ==
  INSTANCE ConditionalStore WITH
    Ids <- Clients \X (1..MaxSends),
    current <- [k \in Keys |-> Wid(table[k])],
    pending <- {OperationOf(a) : a \in WriteAttempts},
    count <- writes

\* Comparing version numbers amounts to comparing writes: an attempt of Put,
\* PutIfNotExists or Run takes effect exactly when the write it was built
\* from is the one stored (for an application that neither deletes nor
\* bypasses the lock, on items that all have a version).
ImplementsConditionalStore == Abstract!Spec
==============================================================================
