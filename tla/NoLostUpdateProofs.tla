-------------------------- MODULE NoLostUpdateProofs --------------------------
(***************************************************************************)
(* Optimistic locking loses no update, for any clients, keys, values and   *)
(* bounds, as long as the application stays clear of the Bypass methods.   *)
(* HistoryInv says that within one life of an item (between two deletions) *)
(* a version names one write and never runs ahead of the table; every      *)
(* write that takes effect on an existing item moves its version up, so a  *)
(* version somebody holds cannot come to name another write.               *)
(* The last part shows that the client implements ConditionalStore.        *)
(***************************************************************************)
EXTENDS VersionedClientProofs

LockHistory == TypeInv /\ HistoryInv

\* What a write may leave at a key that held old: nothing, a first version of
\* a new life, or the next version of the same life.
Advances(old, i, w) ==
  \/ i = None /\ ~NoDelete
  \/ /\ i \in Item /\ i.wid = w
     /\ old = None
     /\ i.born = w /\ i.ver \in Nat /\ i.ver # 0
  \/ /\ i \in Item /\ i.wid = w
     /\ old \in Item
     /\ i.born = old.born /\ i.ver = GoVer(old) + 1

------------------------------------------------------------------------------
\* What is honest stays so while the table does.
LEMMA SameTable ==
  ASSUME UNCHANGED <<table, writes>>
  PROVE  /\ \A k, ver, s : Honest(k, ver, s)' <=> Honest(k, ver, s)
         /\ \A k, i : HonestItem(k, i)' <=> HonestItem(k, i)
<1>1. ASSUME NEW k, NEW ver, NEW s
      PROVE  Honest(k, ver, s)' <=> Honest(k, ver, s)
  BY DEF Honest
<1>2. QED
  BY <1>1 DEF HonestItem

LEMMA GoVerType ==
  ASSUME NEW i \in Item
  PROVE  /\ GoVer(i) \in Nat /\ i.wid \in Nat /\ i.born \in Nat
         /\ SeenOf(i).wid = i.wid /\ SeenOf(i).born = i.born
         /\ i.ver \in Nat => GoVer(i) = i.ver
BY DEF GoVer, Item, NoVer, SeenOf

\* Every applied write advances the version, the bypassing ones excepted.
LEMMA WriteAdvances ==
  ASSUME NoBypass, NEW r \in Request, WellFormed(r), r.api # "GetItem",
         NEW old \in Item \cup {None}, NEW w \in Nat, CondHolds(r, old)
  PROVE  Advances(old, After(r, old, w), w)
<1>1. After(r, old, w) \in Item \cup {None}
  BY AfterType
<1>2. CASE r.api = "DeleteItem"
  <2>1. r.op \in {"Delete", "TransactDelete"} /\ r.op \in Calls
    BY <1>2 DEF WellFormed, PutOps, Request, AllCalls
  <2>2. QED
    BY <1>2, <2>1 DEF After, Advances, NoDelete
<1>3. CASE r.api = "UpdateItem"
  <2>1. After(r, old, w) = Updated(r, old, w)
    BY <1>3 DEF After
  <2>2. old \in Item
    BY <1>3, NoneNotRecord DEF WellFormed, CondHolds
  <2>3. Updated(r, old, w) \in Item
    BY <1>1, <2>1, <1>3, <2>2, AfterType DEF WellFormed
  <2>4. /\ Updated(r, old, w).wid = w
        /\ Updated(r, old, w).born = old.born
        /\ Updated(r, old, w).ver = GoVer(old) + 1
    BY DEF Updated
  <2>5. QED
    BY <2>1, <2>2, <2>3, <2>4 DEF Advances
<1>4. CASE r.api = "PutItem"
  <2>1. After(r, old, w) = Stored(r, old, w)
    BY <1>4 DEF After
  <2>2. r.op \in {"Put", "PutIfNotExists"}
    BY <1>4 DEF WellFormed, PutOps, NoBypass, Bypass
  <2>3. Stored(r, old, w) \in Item
    BY <1>1, <2>1, <1>4, AfterType DEF WellFormed
  <2>4. /\ Stored(r, old, w).wid = w
        /\ Stored(r, old, w).ver = r.ver
        /\ Stored(r, old, w).born = IF old = None THEN w ELSE old.born
    BY DEF Stored
  <2>5. r.expected \in Nat /\ r.ver \in Nat
    BY DEF Request
  <2>6. CASE old = None
    <3>1. r.ver # 0
      BY <2>2, <2>5 DEF WellFormed
    <3>2. QED
      BY <2>1, <2>3, <2>4, <2>5, <2>6, <3>1 DEF Advances
  <2>7. CASE old # None
    <3>1. r.op = "Put" /\ old.ver = r.expected /\ r.ver = r.expected + 1
      BY <2>2, <2>7 DEF WellFormed, CondHolds
    <3>2. old \in Item /\ GoVer(old) = r.expected
      BY <2>5, <2>7, <3>1, GoVerType
    <3>3. QED
      BY <2>1, <2>3, <2>4, <2>7, <3>1, <3>2 DEF Advances
  <2>8. QED
    BY <2>6, <2>7
<1>5. QED
  BY <1>2, <1>3, <1>4 DEF Request

\* A sighting stays honest when the table and the count of writes do.
LEMMA HonestUnchanged ==
  ASSUME NEW k, NEW ver, NEW s, Honest(k, ver, s), UNCHANGED <<table, writes>>
  PROVE  Honest(k, ver, s)'
BY DEF Honest

\* A sighting stays honest when a write takes effect.
LEMMA HonestAdvance ==
  ASSUME TypeOK, NEW k \in Keys, NEW ver \in Nat, NEW s \in Seen,
         Honest(k, ver, s),
         NEW key \in Keys, NEW i, Advances(table[key], i, writes + 1),
         table' = [table EXCEPT ![key] = i], writes' = writes + 1
  PROVE  Honest(k, ver, s)'
<1>1. writes \in Nat /\ s.wid \in Nat /\ s.born \in Nat
  BY DEF TypeOK, Seen
<1>2. s.born <= s.wid /\ s.wid <= writes' /\ (ver # 0 => s.born # 0)
  BY <1>1 DEF Honest
<1>3. ASSUME table'[k] # None, table'[k].born = s.born
      PROVE  /\ ver <= GoVer(table'[k])
             /\ ver = GoVer(table'[k]) => s.wid = table'[k].wid
  <2>1. CASE k # key
    <3>1. table'[k] = table[k]
      BY <2>1 DEF TypeOK
    <3>2. QED
      BY <1>3, <3>1 DEF Honest
  <2>2. CASE k = key
    <3>1. table'[k] = i /\ i # None
      BY <2>2, <1>3 DEF TypeOK
    <3>2. i.born # writes + 1
      BY <1>1, <1>2, <1>3, <3>1 DEF Honest
    <3>3. /\ i \in Item /\ table[k] \in Item /\ table[k] # None
          /\ i.born = table[k].born /\ i.ver = GoVer(table[k]) + 1
      BY <2>2, <3>1, <3>2, NoneNotRecord DEF Advances
    <3>4. ver <= GoVer(table[k]) /\ GoVer(table[k]) \in Nat
      BY <1>3, <3>1, <3>3, GoVerType DEF Honest
    <3>5. GoVer(i) = GoVer(table[k]) + 1
      BY <3>3, <3>4, GoVerType
    <3>6. QED
      BY <3>1, <3>4, <3>5
  <2>3. QED
    BY <2>1, <2>2
<1>4. ASSUME table'[k] # None, table'[k].wid = s.wid
      PROVE  ver = GoVer(table'[k])
  <2>1. CASE k # key
    <3>1. table'[k] = table[k]
      BY <2>1 DEF TypeOK
    <3>2. QED
      BY <1>4, <3>1 DEF Honest
  <2>2. CASE k = key
    <3>1. table'[k] = i /\ i # None
      BY <2>2, <1>4 DEF TypeOK
    <3>2. i.wid = writes + 1
      BY <3>1 DEF Advances
    <3>3. QED
      BY <1>1, <1>2, <1>4, <3>1, <3>2 DEF Honest
  <2>3. QED
    BY <2>1, <2>2
<1>5. ASSUME NoDelete, s.born # 0
      PROVE  table'[k] # None /\ table'[k].born = s.born
  <2>1. table[k] # None /\ table[k].born = s.born
    BY <1>5 DEF Honest
  <2>2. CASE k # key
    BY <2>1, <2>2 DEF TypeOK
  <2>3. CASE k = key
    <3>1. table'[k] = i
      BY <2>3 DEF TypeOK
    <3>2. i \in Item /\ i.born = table[k].born
      BY <1>5, <2>1, <2>3 DEF Advances
    <3>3. QED
      BY <2>1, <3>1, <3>2, NoneNotRecord
  <2>4. QED
    BY <2>2, <2>3
<1>6. QED
  BY <1>2, <1>3, <1>4, <1>5 DEF Honest

\* So does an item somebody read, and the item just written is honest.
LEMMA HonestItemAdvance ==
  ASSUME TypeOK, NEW key \in Keys, NEW i,
         Advances(table[key], i, writes + 1),
         table[key] # None => HonestItem(key, table[key]),
         table' = [table EXCEPT ![key] = i], writes' = writes + 1
  PROVE  /\ i # None => HonestItem(key, i)'
         /\ \A k \in Keys, j \in Item : HonestItem(k, j) => HonestItem(k, j)'
<1>1. ASSUME NEW k \in Keys, NEW j \in Item, HonestItem(k, j)
      PROVE  HonestItem(k, j)'
  <2>1. GoVer(j) \in Nat /\ SeenOf(j) \in Seen
    BY GoVerType DEF SeenOf, Seen
  <2>2. Honest(k, GoVer(j), SeenOf(j))'
    BY <1>1, <2>1, HonestAdvance DEF HonestItem
  <2>3. QED
    BY <1>1, <2>2 DEF HonestItem
<1>2. ASSUME i # None
      PROVE  HonestItem(key, i)'
  <2>1. writes \in Nat /\ table'[key] = i /\ i \in Item /\ i.wid = writes + 1
    BY <1>2 DEF TypeOK, Advances
  <2>2. GoVer(i) \in Nat /\ SeenOf(i).wid = i.wid /\ SeenOf(i).born = i.born
    BY <2>1, GoVerType
  <2>3. i.ver \in Nat /\ i.ver # 0 /\ i.born # 0 /\ i.born <= i.wid
    <3>1. CASE i.born = writes + 1 /\ i.ver \in Nat /\ i.ver # 0
      BY <3>1, <2>1
    <3>2. CASE /\ table[key] \in Item
               /\ i.born = table[key].born
               /\ i.ver = GoVer(table[key]) + 1
      <4>1. HonestItem(key, table[key])
        BY <3>2, NoneNotRecord
      <4>2. /\ GoVer(table[key]) \in Nat /\ table[key].born \in Nat
            /\ table[key].wid \in Nat
            /\ SeenOf(table[key]).wid = table[key].wid
            /\ SeenOf(table[key]).born = table[key].born
        BY <3>2, GoVerType
      <4>3. table[key].born # 0 /\ table[key].born <= writes
        BY <2>1, <4>1, <4>2 DEF HonestItem, Honest
      <4>4. QED
        BY <2>1, <3>2, <4>2, <4>3
    <3>3. QED
      BY <1>2, <3>1, <3>2 DEF Advances
  <2>4. Honest(key, GoVer(i), SeenOf(i))'
    <3>1. GoVer(i) # 0
      BY <2>1, <2>3, GoVerType
    <3>2. QED
      BY <1>2, <2>1, <2>2, <2>3, <3>1 DEF Honest
  <2>5. QED
    BY <2>3, <2>4 DEF HonestItem
<1>3. QED
  BY <1>1, <1>2

------------------------------------------------------------------------------
(* One lemma per kind of step.                                             *)

LEMMA HistoryInit == Init => HistoryInv
<1> SUFFICES ASSUME Init PROVE HistoryInv
  OBVIOUS
<1>1. ASSUME NEW k \in Keys, table[k] # None
      PROVE  HonestItem(k, table[k])
  <2>1. table[k] \in LegacyItem /\ writes = 1 /\ Legacy
    BY <1>1 DEF Init
  <2>2. /\ table[k].ver = -1 /\ table[k].wid = 1 /\ table[k].born = 1
        /\ GoVer(table[k]) = 0
        /\ SeenOf(table[k]).wid = 1 /\ SeenOf(table[k]).born = 1
    BY <2>1 DEF LegacyItem, GoVer, NoVer, SeenOf
  <2>3. Honest(k, GoVer(table[k]), SeenOf(table[k]))
    BY <1>1, <2>1, <2>2 DEF Honest
  <2>4. QED
    BY <2>2, <2>3 DEF HonestItem
<1>2. replica = table
  BY DEF Init
<1>3. QED
  BY <1>1, <1>2 DEF Init, HistoryInv, Held

\* Sending a request built from a struct that is honest.
LEMMA SendHistory ==
  ASSUME LockHistory, NEW c \in Clients, NEW r \in Request, Send(c, r),
         NEW o, obj' = [obj EXCEPT ![c] = o],
         Locked(r) => Honest(r.key, r.expected, r.seen),
         o # None => Honest(o.key, IF r.op \in {"Put", "PutIfNotExists"}
                                   THEN r.expected ELSE o.ver, o.seen)
  PROVE  HistoryInv'
<1> USE DEF LockHistory, TypeInv, Send, Transmit, store
<1>1. UNCHANGED <<table, replica, writes, reply>>
  OBVIOUS
<1>2. /\ req'[c] = r /\ obj'[c] = o /\ phase'[c] = "wait"
      /\ \A d \in Clients : d # c =>
           /\ req'[d] = req[d] /\ obj'[d] = obj[d] /\ phase'[d] = phase[d]
  BY DEF TypeOK
<1>3. ASSUME NEW k \in Keys
      PROVE  /\ table'[k] # None => HonestItem(k, table[k])'
             /\ replica'[k] # None => HonestItem(k, replica[k])'
  BY <1>1, SameTable DEF HistoryInv
<1>4. ASSUME NEW a \in net', Locked(a.r)
      PROVE  Honest(a.r.key, a.r.expected, a.r.seen)'
  <2>1. Honest(a.r.key, a.r.expected, a.r.seen)
    BY <1>4 DEF HistoryInv
  <2>2. QED
    BY <1>1, <2>1 DEF Honest
<1>5. ASSUME NEW d \in Clients, phase'[d] # "idle", Locked(req'[d])
      PROVE  Honest(req[d].key, req[d].expected, req[d].seen)'
  BY <1>1, <1>2, <1>5 DEF HistoryInv, Honest
<1>6. ASSUME NEW d \in Clients, obj'[d] # None
      PROVE  Honest(obj[d].key, Held(d), obj[d].seen)'
  BY <1>1, <1>2, <1>6 DEF HistoryInv, Honest, Held
<1>7. ASSUME NEW d \in Clients, phase'[d] = "replied", reply'[d].new # None
      PROVE  HonestItem(req[d].key, reply[d].new)'
  BY <1>1, <1>2, <1>7, SameTable DEF HistoryInv
<1>8. QED
  BY <1>3, <1>4, <1>5, <1>6, <1>7 DEF HistoryInv, Locked

\* Ending a call with an honest struct, or changing the struct between calls.
LEMMA RestHistory ==
  ASSUME LockHistory, NEW c \in Clients, NEW o, obj' = [obj EXCEPT ![c] = o],
         phase' = [phase EXCEPT ![c] = "idle"],
         \A d \in Clients : d # c => req'[d] = req[d] /\ reply'[d] = reply[d],
         UNCHANGED <<store, net>>,
         o # None => Honest(o.key, o.ver, o.seen)
  PROVE  HistoryInv'
<1> USE DEF LockHistory, TypeInv, store
<1>1. /\ obj'[c] = o /\ phase'[c] = "idle"
      /\ \A d \in Clients : d # c =>
           obj'[d] = obj[d] /\ phase'[d] = phase[d]
  BY DEF TypeOK
<1>2. ASSUME NEW k \in Keys
      PROVE  /\ table'[k] # None => HonestItem(k, table[k])'
             /\ replica'[k] # None => HonestItem(k, replica[k])'
  BY DEF HistoryInv, HonestItem, Honest, GoVer, SeenOf
<1>3. ASSUME NEW a \in net', Locked(a.r)
      PROVE  Honest(a.r.key, a.r.expected, a.r.seen)'
  BY <1>3 DEF HistoryInv, Honest
<1>4. ASSUME NEW d \in Clients, phase'[d] # "idle", Locked(req'[d])
      PROVE  Honest(req[d].key, req[d].expected, req[d].seen)'
  BY <1>1, <1>4 DEF HistoryInv, Honest
<1>5. ASSUME NEW d \in Clients, obj'[d] # None
      PROVE  Honest(obj[d].key, Held(d), obj[d].seen)'
  BY <1>1, <1>5 DEF HistoryInv, Honest, Held
<1>6. ASSUME NEW d \in Clients, phase'[d] = "replied", reply'[d].new # None
      PROVE  HonestItem(req[d].key, reply[d].new)'
  BY <1>1, <1>6, SameTable DEF HistoryInv
<1>7. QED
  BY <1>2, <1>3, <1>4, <1>5, <1>6 DEF HistoryInv, Locked

LEMMA PutHistory ==
  ASSUME LockHistory, NEW c \in Clients, NEW v \in Vals,
         Put(c, v) \/ PutIfNotExists(c, v)
  PROVE  HistoryInv'
<1>1. /\ obj[c] \in Struct /\ obj[c] # None /\ phase[c] = "idle"
      /\ Honest(obj[c].key, obj[c].ver, obj[c].seen)
  BY DEF Put, PutIfNotExists, Send, LockHistory, TypeInv, TypeOK,
         HistoryInv, Held
<1>2. CASE Put(c, v)
  <2> DEFINE o == [obj[c] EXCEPT !.ver = @ + 1, !.val = v]
             r == PutRequest(obj[c], v)
  <2>1. obj' = [obj EXCEPT ![c] = o] /\ o.key = obj[c].key /\ o.seen = obj[c].seen
    BY <1>1, <1>2 DEF Put, LockHistory, TypeInv, TypeOK, Struct
  <2>2. /\ r.key = obj[c].key /\ r.expected = obj[c].ver
        /\ r.seen = obj[c].seen /\ r.op = "Put"
    BY DEF PutRequest, Image
  <2>3. r \in Request /\ Send(c, r)
    BY <1>1, <1>2, PutRequestFits DEF Put, Send
  <2> HIDE DEF o, r
  <2>4. QED
    BY <1>1, <2>1, <2>2, <2>3, SendHistory
<1>3. CASE PutIfNotExists(c, v)
  <2> DEFINE o == [obj[c] EXCEPT !.ver = IF @ = 0 THEN 1 ELSE @, !.val = v]
             r == PutIfNotExistsRequest(obj[c], v)
  <2>1. obj' = [obj EXCEPT ![c] = o] /\ o.key = obj[c].key /\ o.seen = obj[c].seen
    BY <1>1, <1>3 DEF PutIfNotExists, LockHistory, TypeInv, TypeOK, Struct
  <2>2. /\ r.key = obj[c].key /\ r.expected = obj[c].ver
        /\ r.seen = obj[c].seen /\ r.op = "PutIfNotExists"
    BY DEF PutIfNotExistsRequest, Image
  <2>3. r \in Request /\ Send(c, r)
    BY <1>1, <1>3, PutIfNotExistsRequestFits DEF PutIfNotExists, Send
  <2> HIDE DEF o, r
  <2>4. QED
    BY <1>1, <2>1, <2>2, <2>3, SendHistory
<1>4. QED
  BY <1>2, <1>3

\* A request that leaves the struct alone; its sighting, if it is guarded, is
\* the struct's.
LEMMA SendKeepingHistory ==
  ASSUME LockHistory, NEW c \in Clients, NEW r \in Request, Send(c, r),
         UNCHANGED obj, r.op \notin PutOps,
         r.cond = "version" => /\ obj[c] # None /\ r.key = obj[c].key
                               /\ r.expected = obj[c].ver
                               /\ r.seen = obj[c].seen
  PROVE  HistoryInv'
<1>1. obj' = [obj EXCEPT ![c] = obj[c]] /\ phase[c] = "idle"
  BY DEF Send, LockHistory, TypeInv, TypeOK
<1>2. obj[c] # None => Honest(obj[c].key, obj[c].ver, obj[c].seen)
  BY <1>1 DEF LockHistory, HistoryInv, Held
<1>3. Locked(r) => Honest(r.key, r.expected, r.seen)
  BY <1>2 DEF Locked, PutOps
<1>4. QED
  BY <1>1, <1>2, <1>3, SendHistory DEF PutOps

LEMMA GetHistory ==
  ASSUME LockHistory, NEW c \in Clients, NEW k \in Keys, Get(c, k)
  PROVE  HistoryInv'
<1>1. GetRequest(k).op \notin PutOps /\ GetRequest(k).cond # "version"
  BY DEF GetRequest, Bare, PutOps
<1>2. GetRequest(k) \in Request
  BY GetRequestFits DEF Get, Send
<1>3. QED
  BY <1>1, <1>2, SendKeepingHistory DEF Get

LEMMA DeleteHistory ==
  ASSUME LockHistory, NEW c \in Clients, NEW k \in Keys, Delete(c, k)
  PROVE  HistoryInv'
<1>1. obj[c] \in Struct \cup {None}
  BY DEF LockHistory, TypeInv, TypeOK
<1>2. ASSUME NEW cond \in {"none", "exists"},
             Send(c, DeleteRequest(k, cond, obj[c])), UNCHANGED obj
      PROVE  HistoryInv'
  <2>1. /\ DeleteRequest(k, cond, obj[c]).op \notin PutOps
        /\ DeleteRequest(k, cond, obj[c]).cond # "version"
    BY DEF DeleteRequest, Bare, PutOps
  <2>2. DeleteRequest(k, cond, obj[c]) \in Request
    BY <1>1, <1>2, DeleteRequestFits DEF Send
  <2>3. QED
    BY <1>2, <2>1, <2>2, SendKeepingHistory
<1>3. ASSUME obj[c] # None, obj[c].key = k, UNCHANGED obj,
             Send(c, DeleteRequest(k, "version", obj[c]))
      PROVE  HistoryInv'
  <2> DEFINE r == DeleteRequest(k, "version", obj[c])
  <2>1. /\ r.op \notin PutOps /\ r.key = obj[c].key
        /\ r.expected = obj[c].ver /\ r.seen = obj[c].seen
    BY <1>3 DEF DeleteRequest, Bare, PutOps
  <2>2. r \in Request /\ Send(c, r)
    BY <1>1, <1>3, DeleteRequestFits DEF Send
  <2> HIDE DEF r
  <2>3. QED
    BY <1>3, <2>1, <2>2, SendKeepingHistory
<1>4. ASSUME Send(c, TransactDeleteRequest(k)), UNCHANGED obj
      PROVE  HistoryInv'
  <2>1. /\ TransactDeleteRequest(k).op \notin PutOps
        /\ TransactDeleteRequest(k).cond # "version"
    BY DEF TransactDeleteRequest, Bare, PutOps
  <2>2. TransactDeleteRequest(k) \in Request
    BY <1>4, TransactDeleteRequestFits DEF Send
  <2>3. QED
    BY <1>4, <2>1, <2>2, SendKeepingHistory
<1>5. QED
  BY <1>2, <1>3, <1>4 DEF Delete

LEMMA UpdateHistory ==
  ASSUME LockHistory, NEW c \in Clients, NEW k \in Keys,
         NEW v \in Vals \cup {None}, Update(c, k, v)
  PROVE  HistoryInv'
<1>1. obj[c] \in Struct \cup {None}
  BY DEF LockHistory, TypeInv, TypeOK
<1>2. ASSUME Send(c, UpdateRequest(k, v)), UNCHANGED obj
      PROVE  HistoryInv'
  <2>1. /\ UpdateRequest(k, v).op \notin PutOps
        /\ UpdateRequest(k, v).cond # "version"
    BY DEF UpdateRequest, Changing, Bare, PutOps
  <2>2. UpdateRequest(k, v) \in Request
    BY <1>2, UpdateRequestFits DEF Send
  <2>3. QED
    BY <1>2, <2>1, <2>2, SendKeepingHistory
<1>3. ASSUME obj[c] # None, UNCHANGED obj,
             Send(c, GuardedUpdateRequest(obj[c], v))
      PROVE  HistoryInv'
  <2> DEFINE r == GuardedUpdateRequest(obj[c], v)
  <2>1. /\ r.op \notin PutOps /\ r.key = obj[c].key
        /\ r.expected = obj[c].ver /\ r.seen = obj[c].seen
    BY DEF GuardedUpdateRequest, Changing, Bare, PutOps
  <2>2. r \in Request /\ Send(c, r)
    BY <1>1, <1>3, GuardedUpdateRequestFits DEF Send
  <2> HIDE DEF r
  <2>3. QED
    BY <1>3, <2>1, <2>2, SendKeepingHistory
<1>4. QED
  BY <1>2, <1>3 DEF Update

LEMMA NewStructHistory ==
  ASSUME LockHistory, NEW c \in Clients, NEW k \in Keys, NEW v \in Vals,
         NewStruct(c, k, v)
  PROVE  HistoryInv'
<1> DEFINE o == [key |-> k, ver |-> 0, val |-> v, seen |-> NothingSeen]
<1>1. /\ o.key = k /\ o.ver = 0
      /\ o.seen.wid = 0 /\ o.seen.born = 0
  BY DEF NothingSeen
<1>2. Honest(o.key, o.ver, o.seen)
  <2>1. table[k] # None => table[k].born # 0 /\ table[k].wid # 0
    <3>1. table[k] \in Item \cup {None}
      BY DEF LockHistory, TypeInv, TypeOK
    <3>2. QED
      BY <3>1, GoVerType DEF LockHistory, HistoryInv, HonestItem, Honest
  <2>2. writes \in Nat
    BY DEF LockHistory, TypeInv, TypeOK
  <2>3. o.seen = NothingSeen
    OBVIOUS
  <2> HIDE DEF o
  <2>4. QED
    BY <1>1, <2>1, <2>2, <2>3 DEF Honest
<1>3. obj' = [obj EXCEPT ![c] = o] /\ phase' = [phase EXCEPT ![c] = "idle"]
  BY DEF NewStruct, LockHistory, TypeInv, TypeOK
<1> HIDE DEF o
<1>4. QED
  BY <1>2, <1>3, RestHistory DEF NewStruct

LEMMA PutRefusedHistory ==
  ASSUME LockHistory, NEW c \in Clients, NEW v \in Vals, PutRefused(c, v)
  PROVE  HistoryInv'
<1> DEFINE o == [obj[c] EXCEPT !.val = v]
<1>1. /\ obj[c] \in Struct /\ obj[c] # None /\ phase[c] = "idle"
      /\ Honest(obj[c].key, obj[c].ver, obj[c].seen)
  BY DEF PutRefused, LockHistory, TypeInv, TypeOK, HistoryInv, Held
<1>2. o.key = obj[c].key /\ o.ver = obj[c].ver /\ o.seen = obj[c].seen
  BY <1>1 DEF Struct
<1>3. obj' = [obj EXCEPT ![c] = o] /\ phase' = [phase EXCEPT ![c] = "idle"]
  BY <1>1 DEF PutRefused, LockHistory, TypeInv, TypeOK
<1> HIDE DEF o
<1>4. QED
  BY <1>1, <1>2, <1>3, RestHistory DEF PutRefused

\* The bypassing puts are not used.
LEMMA NoBlindPut ==
  ASSUME NoBypass, NEW c \in Clients, NEW v \in Vals
  PROVE  ~BlindPut(c, v)
BY DEF BlindPut, Send, BatchPutRequest, TransactPutRequest, Image, NoBypass,
       Bypass

LEMMA ResendHistory ==
  ASSUME LockHistory, NEW c \in Clients, Resend(c)
  PROVE  HistoryInv'
<1> USE DEF LockHistory, TypeInv, Resend, Transmit, store
<1>1. /\ phase'[c] = "wait" /\ phase[c] # "idle"
      /\ \A d \in Clients : d # c =>
           phase'[d] = phase[d] /\ reply'[d] = reply[d]
  BY DEF TypeOK
<1>2. ASSUME NEW k \in Keys
      PROVE  /\ table'[k] # None => HonestItem(k, table[k])'
             /\ replica'[k] # None => HonestItem(k, replica[k])'
  BY DEF HistoryInv, HonestItem, Honest, GoVer, SeenOf
<1>3. ASSUME NEW a \in net', Locked(a.r)
      PROVE  Honest(a.r.key, a.r.expected, a.r.seen)'
  <2>1. Honest(a.r.key, a.r.expected, a.r.seen)
    BY <1>3 DEF HistoryInv
  <2>2. QED
    BY <2>1 DEF Honest
<1>4. ASSUME NEW d \in Clients, phase'[d] # "idle", Locked(req'[d])
      PROVE  Honest(req[d].key, req[d].expected, req[d].seen)'
  BY <1>1, <1>4 DEF HistoryInv, Honest
<1>5. ASSUME NEW d \in Clients, obj'[d] # None
      PROVE  Honest(obj[d].key, Held(d), obj[d].seen)'
  BY <1>1, <1>5 DEF HistoryInv, Honest, Held
<1>6. ASSUME NEW d \in Clients, phase'[d] = "replied", reply'[d].new # None
      PROVE  HonestItem(req[d].key, reply[d].new)'
  BY <1>1, <1>6, SameTable DEF HistoryInv
<1>7. QED
  BY <1>2, <1>3, <1>4, <1>5, <1>6 DEF HistoryInv, Locked

LEMMA ReplicateHistory ==
  ASSUME LockHistory, NEW key \in Keys, Replicate(key)
  PROVE  HistoryInv'
<1> USE DEF LockHistory, TypeInv, Replicate
<1>1. ASSUME NEW k \in Keys
      PROVE  /\ table'[k] # None => HonestItem(k, table[k])'
             /\ replica'[k] # None => HonestItem(k, replica[k])'
  <2>1. table'[k] = table[k] /\ replica'[k] \in {replica[k], table[k]}
    BY DEF TypeOK
  <2>2. QED
    BY <2>1, SameTable DEF HistoryInv
<1>2. ASSUME NEW a \in net', Locked(a.r)
      PROVE  Honest(a.r.key, a.r.expected, a.r.seen)'
  BY <1>2 DEF HistoryInv, Honest
<1>3. ASSUME NEW d \in Clients
      PROVE  /\ phase'[d] # "idle" /\ Locked(req'[d]) =>
                  Honest(req[d].key, req[d].expected, req[d].seen)'
             /\ obj'[d] # None => Honest(obj[d].key, Held(d), obj[d].seen)'
             /\ phase'[d] = "replied" /\ reply'[d].new # None =>
                  HonestItem(req[d].key, reply[d].new)'
  <2>1. phase'[d] # "idle" /\ Locked(req'[d]) =>
          Honest(req[d].key, req[d].expected, req[d].seen)'
    BY DEF HistoryInv, Honest
  <2>2. Held(d)' = Held(d)
    BY DEF Held
  <2>3. obj'[d] # None => Honest(obj[d].key, Held(d), obj[d].seen)'
    BY <2>2 DEF HistoryInv, Honest
  <2>4. phase'[d] = "replied" /\ reply'[d].new # None =>
          HonestItem(req[d].key, reply[d].new)'
    BY SameTable DEF HistoryInv
  <2>5. QED
    BY <2>1, <2>3, <2>4
<1>4. QED
  BY <1>1, <1>2, <1>3 DEF HistoryInv, Locked

LEMMA ReturnHistory ==
  ASSUME LockHistory, NEW c \in Clients,
         ReturnOk(c) \/ ReturnError(c) \/ Fail(c)
  PROVE  HistoryInv'
<1>1. /\ EndCall(c) /\ phase[c] # "idle"
      /\ req[c] \in Request /\ WellFormed(req[c])
      /\ obj[c] \in Struct \cup {None}
      /\ obj[c] # None => Honest(obj[c].key, Held(c), obj[c].seen)
  BY DEF ReturnOk, ReturnError, Fail, LockHistory, TypeInv, TypeOK, CallInv,
         HistoryInv
<1>2. ASSUME NEW o, obj' = [obj EXCEPT ![c] = o],
             o # None => Honest(o.key, o.ver, o.seen)
      PROVE  HistoryInv'
  <2>1. /\ phase' = [phase EXCEPT ![c] = "idle"]
        /\ \A d \in Clients : d # c => req'[d] = req[d] /\ reply'[d] = reply[d]
        /\ UNCHANGED <<store, net>>
    BY <1>1 DEF EndCall, LockHistory, TypeInv, TypeOK
  <2>2. QED
    BY <1>2, <2>1, RestHistory
<1>3. CASE ReturnOk(c)
  <2>1. reply[c].new \in Item => HonestItem(req[c].key, reply[c].new)
    BY <1>3, NoneNotRecord DEF ReturnOk, LockHistory, HistoryInv
  <2>2. CASE /\ req[c].op \in {"Get", "Update"} /\ reply[c].new \in Item
             /\ obj' = [obj EXCEPT ![c] = StructOf(req[c].key, reply[c].new)]
    <3> DEFINE o == StructOf(req[c].key, reply[c].new)
    <3>1. /\ o.key = req[c].key /\ o.ver = GoVer(reply[c].new)
          /\ o.seen = SeenOf(reply[c].new)
      BY DEF StructOf
    <3> HIDE DEF o
    <3>2. Honest(o.key, o.ver, o.seen)
      BY <2>1, <2>2, <3>1 DEF HonestItem
    <3>3. obj' = [obj EXCEPT ![c] = o]
      BY <2>2 DEF o
    <3>4. QED
      BY <1>2, <3>2, <3>3
  <2>3. CASE /\ req[c].op \in PutOps /\ reply[c].new \in Item
             /\ obj[c] \in Struct
             /\ obj' = [obj EXCEPT ![c] =
                          [obj[c] EXCEPT !.seen = SeenOf(reply[c].new)]]
    <3> DEFINE o == [obj[c] EXCEPT !.seen = SeenOf(reply[c].new)]
    <3>1. /\ o.key = req[c].key /\ o.ver = req[c].ver
          /\ o.seen = SeenOf(reply[c].new)
      BY <1>1, <2>3 DEF Struct, LockHistory, TypeInv, CallInv
    <3>2. reply[c].ok
      BY <1>3, <2>3 DEF ReturnOk, Result, Refusal, PutOps
    <3>3. reply[c].new.ver = req[c].ver
      BY <1>3, <2>3, <3>2 DEF ReturnOk, LockHistory, TypeInv, CallInv, Answered
    <3>4. GoVer(reply[c].new) = req[c].ver
      BY <1>1, <2>3, <3>3, GoVerType DEF Request
    <3> HIDE DEF o
    <3>5. Honest(o.key, o.ver, o.seen)
      BY <2>1, <2>3, <3>1, <3>4 DEF HonestItem
    <3>6. obj' = [obj EXCEPT ![c] = o]
      BY <2>3 DEF o
    <3>7. QED
      BY <1>2, <3>5, <3>6
  <2>4. CASE req[c].op \in {"Delete", "TransactDelete"}
    <3>1. obj' = [obj EXCEPT ![c] = obj[c]] /\ Held(c) = obj[c].ver
      BY <1>3, <2>4 DEF ReturnOk, Held, PutOps, LockHistory, TypeInv, TypeOK
    <3>2. QED
      BY <1>1, <1>2, <3>1
  <2>5. QED
    BY <1>3, <2>2, <2>3, <2>4, ReturnOkStruct DEF LockHistory
<1>4. CASE ReturnError(c) \/ Fail(c)
  <2>1. obj' = Restored(c)
    BY <1>4 DEF ReturnError, Fail
  <2>2. CASE req[c].op \in {"Put", "PutIfNotExists"}
    <3> DEFINE o == [obj[c] EXCEPT !.ver = req[c].expected]
    <3>1. obj[c] \in Struct /\ obj[c] # None
      BY <1>1, <2>2 DEF LockHistory, TypeInv, CallInv, PutOps
    <3>2. obj' = [obj EXCEPT ![c] = o]
      BY <2>1, <2>2 DEF Restored
    <3>3. /\ o.key = obj[c].key /\ o.ver = req[c].expected
          /\ o.seen = obj[c].seen /\ Held(c) = req[c].expected
      BY <1>1, <2>2, <3>1 DEF Struct, Held
    <3> HIDE DEF o
    <3>4. QED
      BY <1>1, <1>2, <3>1, <3>2, <3>3
  <2>3. CASE req[c].op \notin {"Put", "PutIfNotExists"}
    <3>1. obj' = [obj EXCEPT ![c] = obj[c]] /\ Held(c) = obj[c].ver
      BY <2>1, <2>3 DEF Restored, Held, LockHistory, TypeInv, TypeOK
    <3>2. QED
      BY <1>1, <1>2, <3>1
  <2>4. QED
    BY <2>2, <2>3
<1>5. QED
  BY <1>3, <1>4

\* What one applied attempt does to the table.
LEMMA ApplyEffect ==
  ASSUME NoBypass, TypeInv, NEW a \in net, NEW old \in Item \cup {None},
         Apply(a, old), old = table[a.r.key] \/ a.r.api = "GetItem"
  PROVE  \/ UNCHANGED <<table, writes>>
         \/ /\ CondHolds(a.r, table[a.r.key]) /\ a.r.api # "GetItem"
            /\ old = table[a.r.key]
            /\ Advances(old, After(a.r, old, writes + 1), writes + 1)
            /\ table' = [table EXCEPT ![a.r.key] = After(a.r, old, writes + 1)]
            /\ writes' = writes + 1
<1>1. a.r \in Request /\ WellFormed(a.r) /\ writes + 1 \in Nat
  BY DEF TypeInv, TypeOK, CallInv, Attempt
<1>2. CASE CondHolds(a.r, old) /\ a.r.api # "GetItem"
  <2>1. /\ table' = [table EXCEPT ![a.r.key] = After(a.r, old, writes + 1)]
        /\ writes' = writes + 1
    BY <1>2 DEF Apply
  <2>2. Advances(old, After(a.r, old, writes + 1), writes + 1)
    BY <1>1, <1>2, WriteAdvances
  <2>3. QED
    BY <1>2, <2>1, <2>2
<1>3. CASE ~(CondHolds(a.r, old) /\ a.r.api # "GetItem")
  BY <1>3 DEF Apply
<1>4. QED
  BY <1>2, <1>3

\* Sightings survive an applied attempt.
LEMMA ApplyKeeps ==
  ASSUME NoBypass, LockHistory, NEW a \in net, NEW old \in Item \cup {None},
         Apply(a, old), old = table[a.r.key] \/ a.r.api = "GetItem"
  PROVE  /\ \A k \in Keys, ver \in Nat, s \in Seen :
              Honest(k, ver, s) => Honest(k, ver, s)'
         /\ \A k \in Keys, i \in Item : HonestItem(k, i) => HonestItem(k, i)'
         /\ \A k \in Keys : table'[k] # None => HonestItem(k, table[k])'
<1>1. a.r.key \in Keys /\ TypeOK
  BY DEF LockHistory, TypeInv, TypeOK, Attempt, Request
<1>2. \A k \in Keys : table[k] # None => HonestItem(k, table[k])
  BY DEF LockHistory, HistoryInv
<1>3. CASE UNCHANGED <<table, writes>>
  <2>1. \A k \in Keys, ver \in Nat, s \in Seen :
          Honest(k, ver, s) => Honest(k, ver, s)'
    BY <1>3 DEF Honest
  <2>2. \A k \in Keys, i \in Item : HonestItem(k, i) => HonestItem(k, i)'
    BY <1>3 DEF HonestItem, Honest
  <2>3. \A k \in Keys : table'[k] # None => HonestItem(k, table[k])'
    BY <1>2, <1>3 DEF HonestItem, Honest, GoVer, SeenOf
  <2>4. QED
    BY <2>1, <2>2, <2>3
<1>4. ASSUME NEW i, Advances(table[a.r.key], i, writes + 1),
             table' = [table EXCEPT ![a.r.key] = i], writes' = writes + 1
      PROVE  /\ \A k \in Keys, ver \in Nat, s \in Seen :
                  Honest(k, ver, s) => Honest(k, ver, s)'
             /\ \A k \in Keys, j \in Item : HonestItem(k, j) => HonestItem(k, j)'
             /\ \A k \in Keys : table'[k] # None => HonestItem(k, table[k])'
  <2>1. \A k \in Keys, ver \in Nat, s \in Seen :
          Honest(k, ver, s) => Honest(k, ver, s)'
    BY <1>1, <1>4, HonestAdvance
  <2>2. /\ i # None => HonestItem(a.r.key, i)'
        /\ \A k \in Keys, j \in Item : HonestItem(k, j) => HonestItem(k, j)'
    BY <1>1, <1>2, <1>4, HonestItemAdvance
  <2>3. ASSUME NEW k \in Keys, table'[k] # None
        PROVE  HonestItem(k, table[k])'
    <3>1. CASE k = a.r.key
      <4>1. table'[k] = i
        BY <3>1, <1>1, <1>4 DEF TypeOK
      <4>2. QED
        BY <2>2, <2>3, <3>1, <4>1 DEF HonestItem, Honest, GoVer, SeenOf
    <3>2. CASE k # a.r.key
      <4>1. table'[k] = table[k] /\ table[k] \in Item
        BY <3>2, <2>3, <1>1, <1>4 DEF TypeOK
      <4>2. HonestItem(k, table[k])
        BY <1>2, <2>3, <4>1
      <4>3. QED
        BY <2>2, <4>1, <4>2 DEF HonestItem, Honest, GoVer, SeenOf
    <3>3. QED
      BY <3>1, <3>2
  <2>4. QED
    BY <2>1, <2>2, <2>3
<1>5. QED
  BY <1>3, <1>4, ApplyEffect DEF LockHistory

LEMMA ApplyHistory ==
  ASSUME NoBypass, LockHistory, NEW a \in net, NEW old \in Item \cup {None},
         Apply(a, old),
         \/ old = table[a.r.key]
         \/ a.r.api = "GetItem" /\ old = replica[a.r.key]
  PROVE  HistoryInv'
<1> DEFINE i == IF CondHolds(a.r, old) THEN After(a.r, old, writes + 1)
                                       ELSE old
<1>1. /\ a.c \in Clients /\ a.r \in Request /\ a.r.key \in Keys
      /\ WellFormed(a.r) /\ writes + 1 \in Nat /\ TypeOK
  BY DEF LockHistory, TypeInv, TypeOK, CallInv, Attempt, Request
<1>2. /\ \A k \in Keys, ver \in Nat, s \in Seen :
           Honest(k, ver, s) => Honest(k, ver, s)'
      /\ \A k \in Keys, j \in Item : HonestItem(k, j) => HonestItem(k, j)'
      /\ \A k \in Keys : table'[k] # None => HonestItem(k, table[k])'
  BY ApplyKeeps
<1>3. /\ net' = net \ {a} /\ UNCHANGED <<replica, obj, req, sent>>
      /\ \/ /\ phase[a.c] = "wait" /\ a.tag = sent[a.c]
            /\ phase' = [phase EXCEPT ![a.c] = "replied"]
            /\ reply' = [reply EXCEPT ![a.c] =
                           [ok |-> CondHolds(a.r, old), found |-> old, new |-> i]]
         \/ UNCHANGED <<phase, reply>>
  BY DEF Apply
<1>4. ASSUME NEW k \in Keys, replica'[k] # None
      PROVE  HonestItem(k, replica[k])'
  <2>1. HonestItem(k, replica[k]) /\ replica[k] \in Item
    BY <1>1, <1>3, <1>4 DEF LockHistory, HistoryInv, TypeOK
  <2>2. QED
    BY <1>2, <1>3, <2>1 DEF HonestItem, Honest, GoVer, SeenOf
<1>5. ASSUME NEW b \in net', Locked(b.r)
      PROVE  Honest(b.r.key, b.r.expected, b.r.seen)'
  <2>1. /\ Honest(b.r.key, b.r.expected, b.r.seen)
        /\ b.r.key \in Keys /\ b.r.expected \in Nat /\ b.r.seen \in Seen
    BY <1>1, <1>3, <1>5 DEF LockHistory, HistoryInv, TypeOK, Attempt, Request
  <2>2. QED
    BY <1>2, <2>1
<1>6. ASSUME NEW d \in Clients, phase'[d] # "idle", Locked(req'[d])
      PROVE  Honest(req[d].key, req[d].expected, req[d].seen)'
  <2>1. phase[d] # "idle" /\ req'[d] = req[d] /\ req[d] \in Request
    BY <1>1, <1>3, <1>6 DEF TypeOK
  <2>2. /\ Honest(req[d].key, req[d].expected, req[d].seen)
        /\ req[d].key \in Keys /\ req[d].expected \in Nat /\ req[d].seen \in Seen
    BY <1>6, <2>1 DEF LockHistory, HistoryInv, Request
  <2>3. QED
    BY <1>2, <2>1, <2>2 DEF Honest
<1>7. ASSUME NEW d \in Clients, obj'[d] # None
      PROVE  Honest(obj[d].key, Held(d), obj[d].seen)'
  <2>1. /\ obj'[d] = obj[d] /\ obj[d] \in Struct /\ req'[d] = req[d]
        /\ (phase'[d] # "idle") <=> (phase[d] # "idle")
        /\ phase[d] # "idle" => req[d] \in Request
    BY <1>1, <1>3, <1>7 DEF TypeOK
  <2>2. Held(d)' = Held(d)
    BY <2>1 DEF Held
  <2>3. /\ Honest(obj[d].key, Held(d), obj[d].seen)
        /\ obj[d].key \in Keys /\ Held(d) \in Nat /\ obj[d].seen \in Seen
    BY <1>7, <2>1 DEF LockHistory, HistoryInv, Struct, Request, Held
  <2>4. QED
    BY <1>2, <2>1, <2>2, <2>3 DEF Honest
<1>8. ASSUME NEW d \in Clients, phase'[d] = "replied", reply'[d].new # None
      PROVE  HonestItem(req[d].key, reply[d].new)'
  <2>1. CASE phase'[d] = phase[d] /\ reply'[d] = reply[d]
    <3>1. /\ HonestItem(req[d].key, reply[d].new)
          /\ req[d].key \in Keys /\ reply[d].new \in Item /\ req'[d] = req[d]
      BY <1>1, <1>3, <1>8, <2>1
         DEF LockHistory, HistoryInv, TypeOK, Request, Reply
    <3>2. QED
      BY <1>2, <2>1, <3>1 DEF HonestItem, Honest, GoVer, SeenOf
  <2>2. CASE /\ d = a.c /\ phase[d] = "wait" /\ a.tag = sent[d]
             /\ reply'[d].new = i
    <3>1. req'[d] = a.r
      BY <1>3, <2>2 DEF LockHistory, TypeInv, CallInv
    <3>2. CASE CondHolds(a.r, old) /\ a.r.api # "GetItem"
      <4>1. table'[a.r.key] = i
        BY <1>1, <3>2 DEF Apply, TypeOK
      <4>2. QED
        BY <1>1, <1>2, <1>8, <2>2, <3>1, <4>1 DEF HonestItem, Honest, GoVer, SeenOf
    <3>3. CASE ~(CondHolds(a.r, old) /\ a.r.api # "GetItem")
      <4>1. i = old
        BY <1>1, <3>3, AfterType DEF WellFormed
      <4>2. HonestItem(a.r.key, old) /\ old \in Item
        BY <1>1, <1>8, <2>2, <4>1 DEF LockHistory, HistoryInv
      <4>3. HonestItem(a.r.key, old)'
        BY <1>1, <1>2, <4>2
      <4>4. QED
        BY <2>2, <3>1, <4>1, <4>3 DEF HonestItem, Honest, GoVer, SeenOf
    <3>4. QED
      BY <3>2, <3>3
  <2>3. QED
    <3> HIDE DEF i
    <3>1. QED
      BY <1>1, <1>3, <1>8, <2>1, <2>2 DEF TypeOK
<1>9. QED
  BY <1>2, <1>4, <1>5, <1>6, <1>7, <1>8 DEF HistoryInv, Locked

LEMMA ApplyOneHistory ==
  ASSUME NoBypass, LockHistory, ApplyOne
  PROVE  HistoryInv'
<1>1. \A a \in net : /\ table[a.r.key] \in Item \cup {None}
                     /\ replica[a.r.key] \in Item \cup {None}
  BY DEF LockHistory, TypeInv, TypeOK, Attempt, Request
<1>2. QED
  BY <1>1, ApplyHistory DEF ApplyOne

LEMMA HistoryNext ==
  ASSUME NoBypass, LockHistory, [Next]_vars
  PROVE  HistoryInv'
<1>1. ASSUME NEW c \in Clients, NEW k \in Keys,
             \/ Get(c, k)
             \/ Delete(c, k)
             \/ \E v \in Vals : NewStruct(c, k, v)
             \/ \E v \in Vals \cup {None} : Update(c, k, v)
      PROVE  HistoryInv'
  BY <1>1, GetHistory, DeleteHistory, NewStructHistory, UpdateHistory
<1>2. ASSUME NEW c \in Clients, NEW v \in Vals,
             Put(c, v) \/ PutIfNotExists(c, v) \/ PutRefused(c, v) \/ BlindPut(c, v)
      PROVE  HistoryInv'
  BY <1>2, PutHistory, PutRefusedHistory, NoBlindPut
<1>3. ASSUME NEW c \in Clients,
             Resend(c) \/ ReturnOk(c) \/ ReturnError(c) \/ Fail(c)
      PROVE  HistoryInv'
  BY <1>3, ResendHistory, ReturnHistory
<1>4. CASE ApplyOne
  BY <1>4, ApplyOneHistory
<1>5. ASSUME NEW k \in Keys, Replicate(k)
      PROVE  HistoryInv'
  BY <1>5, ReplicateHistory
<1>6. CASE UNCHANGED vars
  BY <1>6, SameTable DEF vars, LockHistory, HistoryInv, Held
<1>7. QED
  BY <1>1, <1>2, <1>3, <1>4, <1>5, <1>6 DEF Next

------------------------------------------------------------------------------
(* From the invariant to the property.                                     *)

\* Only the table's own step changes the items.
LEMMA OnlyApplyLands ==
  ASSUME TypeInv, [Next]_vars, NEW a \in net, Landed(a)
  PROVE  /\ a.r.api # "GetItem"
         /\ CondHolds(a.r, table[a.r.key])
<1>1. writes' # writes /\ a \in net \ net'
  BY DEF Landed
<1>2. ~UNCHANGED vars
  BY <1>1 DEF vars
<1>3. ASSUME NEW c \in Clients
      PROVE  /\ \A r : ~Send(c, r)
             /\ \A k \in Keys, v \in Vals : ~NewStruct(c, k, v)
             /\ \A v \in Vals : ~PutRefused(c, v)
             /\ ~Resend(c) /\ ~EndCall(c)
  BY <1>1 DEF Send, NewStruct, PutRefused, Resend, EndCall, store
<1>4. \A k \in Keys : ~Replicate(k)
  BY <1>1 DEF Replicate
<1>5. ApplyOne
  <2>1. ASSUME NEW c \in Clients
        PROVE  /\ \A k \in Keys : ~Get(c, k) /\ ~Delete(c, k)
               /\ \A k \in Keys, v \in Vals \cup {None} : ~Update(c, k, v)
    BY <1>3 DEF Get, Delete, Update
  <2>2. ASSUME NEW c \in Clients, NEW v \in Vals
        PROVE  ~Put(c, v) /\ ~PutIfNotExists(c, v) /\ ~BlindPut(c, v)
    BY <1>3 DEF Put, PutIfNotExists, BlindPut
  <2>3. ASSUME NEW c \in Clients
        PROVE  ~ReturnOk(c) /\ ~ReturnError(c) /\ ~Fail(c)
    BY <1>3 DEF ReturnOk, ReturnError, Fail
  <2>4. QED
    BY <1>2, <1>3, <1>4, <2>1, <2>2, <2>3 DEF Next
<1>6. PICK b \in net : \/ Apply(b, table[b.r.key])
                       \/ b.r.api = "GetItem" /\ Apply(b, replica[b.r.key])
  BY <1>5 DEF ApplyOne
<1>7. a = b
  BY <1>1, <1>6 DEF Apply
<1>8. QED
  BY <1>1, <1>6, <1>7 DEF Apply

LEMMA LockingStep ==
  ASSUME LockHistory, [Next]_vars
  PROVE  NoLostUpdateStep
<1> SUFFICES ASSUME NEW a \in net, Landed(a), Locked(a.r),
                    table[a.r.key] # None
             PROVE  \/ a.r.seen.wid = table[a.r.key].wid
                    \/ DeletedSince(a.r, table[a.r.key])
  BY DEF NoLostUpdateStep
<1> DEFINE i == table[a.r.key]
<1>1. /\ a.r \in Request /\ a.r.key \in Keys /\ a.r.expected \in Nat
      /\ WellFormed(a.r) /\ i \in Item
      /\ Honest(a.r.key, a.r.expected, a.r.seen) /\ HonestItem(a.r.key, i)
  BY DEF LockHistory, TypeInv, TypeOK, CallInv, HistoryInv, Attempt, Request
<1>2. i.ver = a.r.expected
  <2>1. CondHolds(a.r, i)
    BY OnlyApplyLands DEF LockHistory
  <2>2. a.r.cond = "version"
    BY <1>1, <2>1 DEF Locked, WellFormed, CondHolds
  <2>3. QED
    BY <2>1, <2>2 DEF CondHolds
<1>3. GoVer(i) = a.r.expected /\ a.r.expected # 0
  BY <1>1, <1>2, GoVerType DEF HonestItem
<1>4. CASE a.r.seen.born = i.born
  BY <1>1, <1>3, <1>4 DEF Honest
<1>5. CASE a.r.seen.born # i.born
  BY <1>1, <1>3, <1>5 DEF Honest, DeletedSince
<1>6. QED
  BY <1>4, <1>5

\* A refusal by version is due to another write, or to a struct never stored.
Refused(r, found) ==
  \/ Wid(found) # r.seen.wid
  \/ r.cond = "version" /\ r.seen = NothingSeen

LEMMA RefusalIsDue ==
  ASSUME ~Legacy, LockHistory, NEW r \in Request, WellFormed(r),
         r.op # "Get", Refusal(r) = "ErrVersionConflict",
         Honest(r.key, r.expected, r.seen), ~CondHolds(r, table[r.key])
  PROVE  Refused(r, table[r.key])
<1> DEFINE i == table[r.key]
<1>1. /\ i \in Item \cup {None} /\ r.expected \in Nat /\ r.seen \in Seen
      /\ (i # None => HonestItem(r.key, i))
  BY DEF LockHistory, TypeInv, TypeOK, HistoryInv, Request
<1>2. /\ r.op = "Put" \/ r.cond = "version"
      /\ r.cond = "version" \/ (r.cond = "absent" /\ r.expected = 0)
      /\ r.op = "Put" /\ r.cond = "version" => r.expected # 0
  BY <1>1 DEF Refusal, WellFormed
<1>3. CASE i = None
  <2>1. r.cond = "version"
    BY <1>2, <1>3 DEF CondHolds
  <2>2. CASE r.seen.wid = 0
    <3>1. r.seen.born = 0
      BY <1>1, <2>2 DEF Honest, Seen
    <3>2. QED
      BY <1>1, <2>1, <2>2, <3>1 DEF Refused, Seen, NothingSeen
  <2>3. QED
    BY <1>3, <2>2 DEF Refused, Wid
<1>4. CASE i # None
  <2> SUFFICES ASSUME i.wid = r.seen.wid PROVE FALSE
    BY <1>4 DEF Refused, Wid
  <2>1. i \in Item /\ r.expected = GoVer(i)
    BY <1>1, <1>4 DEF Honest
  <2>2. i.ver # 0 /\ i.born # 0 /\ (GoVer(i) = 0 => SeenOf(i) = NothingSeen)
    BY <1>1, <1>4 DEF HonestItem, Honest
  <2>3. GoVer(i) # 0
    BY <2>1, <2>2, GoVerType DEF NothingSeen
  <2>4. i.ver = r.expected
    BY <2>1, <2>3 DEF GoVer
  <2>5. QED
    BY <1>2, <1>4, <2>1, <2>3, <2>4 DEF CondHolds
<1>5. QED
  BY <1>3, <1>4

LEMMA ConflictNext ==
  ASSUME NoBypass, ~Legacy, LockHistory, ConflictMeansChanged, [Next]_vars
  PROVE  ConflictMeansChanged'
<1> USE DEF LockHistory
<1>1. ASSUME NEW c \in Clients,
             phase'[c] = "replied" => phase[c] = "replied" /\ req'[c] = req[c]
                                      /\ reply'[c] = reply[c]
      PROVE  phase'[c] = "replied" /\ Result(c)' = "ErrVersionConflict" =>
               Refused(req'[c], reply'[c].found)
  BY <1>1 DEF ConflictMeansChanged, Result, Refused
<1>2. ASSUME NEW a \in net, NEW old \in Item \cup {None}, Apply(a, old),
             \/ old = table[a.r.key]
             \/ a.r.api = "GetItem",
             NEW c \in Clients,
             phase'[c] = "replied", Result(c)' = "ErrVersionConflict"
      PROVE  Refused(req'[c], reply'[c].found)
  <2>1. /\ a.c \in Clients /\ a.r \in Request /\ WellFormed(a.r)
        /\ req' = req
        /\ \/ /\ phase[a.c] = "wait" /\ a.tag = sent[a.c]
              /\ phase' = [phase EXCEPT ![a.c] = "replied"]
              /\ reply' = [reply EXCEPT ![a.c] =
                             [ok |-> CondHolds(a.r, old), found |-> old,
                              new |-> IF CondHolds(a.r, old)
                                      THEN After(a.r, old, writes + 1) ELSE old]]
           \/ UNCHANGED <<phase, reply>>
    BY <1>2 DEF TypeInv, TypeOK, CallInv, Attempt, Apply
  <2>2. CASE phase[c] = "replied" /\ reply'[c] = reply[c]
    BY <1>1, <1>2, <2>1, <2>2
  <2>3. CASE /\ c = a.c /\ phase[c] = "wait" /\ a.tag = sent[c]
             /\ reply'[c].ok = CondHolds(a.r, old) /\ reply'[c].found = old
    <3>1. req'[c] = a.r
      BY <2>1, <2>3 DEF TypeInv, CallInv
    <3>2. a.r.op # "Get" /\ ~CondHolds(a.r, old) /\ Refusal(a.r) = "ErrVersionConflict"
      BY <1>2, <2>3, <3>1 DEF Result
    <3>3. old = table[a.r.key]
      BY <1>2, <2>1, <3>2 DEF WellFormed
    <3>4. Locked(a.r)
      BY <3>2 DEF Refusal, Locked
    <3>5. Honest(a.r.key, a.r.expected, a.r.seen)
      BY <3>4 DEF HistoryInv
    <3>6. Refused(a.r, old)
      BY <2>1, <3>2, <3>3, <3>5, RefusalIsDue
    <3>7. QED
      BY <2>3, <3>1, <3>6
  <2>4. QED
    BY <1>2, <2>1, <2>2, <2>3 DEF TypeInv, TypeOK
<1>3. CASE ApplyOne
  <2>1. \A a \in net : /\ table[a.r.key] \in Item \cup {None}
                       /\ replica[a.r.key] \in Item \cup {None}
    BY DEF TypeInv, TypeOK, Attempt, Request
  <2>2. QED
    BY <1>2, <1>3, <2>1 DEF ApplyOne, ConflictMeansChanged, Refused
<1>4. CASE ~ApplyOne
  <2>1. ASSUME NEW c \in Clients, phase'[c] = "replied"
        PROVE  phase[c] = "replied" /\ req'[c] = req[c] /\ reply'[c] = reply[c]
    <3>1. CASE UNCHANGED <<phase, req, reply>>
      BY <2>1, <3>1
    <3>2. ASSUME NEW d \in Clients, phase' = [phase EXCEPT ![d] = "wait"] \/
                                    phase' = [phase EXCEPT ![d] = "idle"],
                 \A e \in Clients : e # d => req'[e] = req[e] /\ reply'[e] = reply[e]
          PROVE  phase[c] = "replied" /\ req'[c] = req[c] /\ reply'[c] = reply[c]
      BY <2>1, <3>2 DEF TypeInv, TypeOK
    <3>3. ASSUME NEW d \in Clients, NEW r, Send(d, r)
          PROVE  phase[c] = "replied" /\ req'[c] = req[c] /\ reply'[c] = reply[c]
      BY <3>2, <3>3 DEF Send, Transmit, TypeInv, TypeOK
    <3>4. ASSUME NEW d \in Clients, Resend(d) \/ EndCall(d)
          PROVE  phase[c] = "replied" /\ req'[c] = req[c] /\ reply'[c] = reply[c]
      BY <3>2, <3>4 DEF Resend, EndCall, Transmit, TypeInv, TypeOK
    <3>5. ASSUME NEW d \in Clients, NEW k \in Keys, NEW v \in Vals \cup {None},
                 Get(d, k) \/ Delete(d, k) \/ NewStruct(d, k, v) \/ Update(d, k, v)
          PROVE  phase[c] = "replied" /\ req'[c] = req[c] /\ reply'[c] = reply[c]
      BY <3>1, <3>3, <3>5 DEF Get, Delete, NewStruct, Update
    <3>6. ASSUME NEW d \in Clients, NEW v \in Vals,
                 Put(d, v) \/ PutIfNotExists(d, v) \/ PutRefused(d, v) \/ BlindPut(d, v)
          PROVE  phase[c] = "replied" /\ req'[c] = req[c] /\ reply'[c] = reply[c]
      BY <3>1, <3>3, <3>6 DEF Put, PutIfNotExists, PutRefused, BlindPut
    <3>7. ASSUME NEW d \in Clients, ReturnOk(d) \/ ReturnError(d) \/ Fail(d)
          PROVE  phase[c] = "replied" /\ req'[c] = req[c] /\ reply'[c] = reply[c]
      BY <3>4, <3>7 DEF ReturnOk, ReturnError, Fail
    <3>8. CASE UNCHANGED vars \/ \E k \in Keys : Replicate(k)
      BY <3>1, <3>8 DEF vars, Replicate
    <3>9. QED
      BY <1>4, <3>4, <3>5, <3>6, <3>7, <3>8 DEF Next
  <2>2. QED
    BY <1>1, <2>1 DEF ConflictMeansChanged, Refused
<1>5. QED
  BY <1>3, <1>4

\* A write that would bring a deleted item back is not sent.
LEMMA RevivalStep ==
  ASSUME ~Legacy, LockHistory, [Next]_vars
  PROVE  DeletedStaysDeletedStep
<1> SUFFICES ASSUME NEW a \in net, Landed(a), a.r.op \in {"Put", "Update"},
                    table[a.r.key] = None
             PROVE  a.r.op = "Put" /\ a.r.seen = NothingSeen
  BY DEF DeletedStaysDeletedStep
<1>1. a.r \in Request /\ WellFormed(a.r) /\ a.r.expected \in Nat
  BY DEF LockHistory, TypeInv, TypeOK, CallInv, Attempt, Request
<1>2. CondHolds(a.r, table[a.r.key])
  BY OnlyApplyLands DEF LockHistory
<1>3. a.r.op = "Put" /\ a.r.expected = 0
  BY <1>1, <1>2 DEF CondHolds, WellFormed
<1>4. Honest(a.r.key, a.r.expected, a.r.seen)
  BY <1>3 DEF LockHistory, HistoryInv, Locked
<1>5. QED
  BY <1>3, <1>4 DEF Honest

\* The inductive invariant: in every reachable state of an application that
\* avoids the bypassing writes, each version held, requested or stored names
\* one write of one life of its item.
THEOREM VersionsNameWrites == NoBypass => (Spec => []LockInv)
<1> SUFFICES ASSUME NoBypass PROVE Spec => []LockInv
  OBVIOUS
<1>1. Init => LockHistory
  BY TypeInit, HistoryInit DEF LockHistory
<1>2. LockHistory /\ [Next]_vars => LockHistory'
  BY TypeNext, HistoryNext DEF LockHistory
<1>3. LockHistory => LockInv
  BY DEF LockHistory, LockInv, TypeInv
<1>4. QED
  BY <1>1, <1>2, <1>3, PTL DEF Spec

\* No lost update (runtime.ErrVersionConflict, emit.go Put, Run and Delete):
\* whatever the number of clients, keys, resends and losses, a guarded write
\* that takes effect replaces the write its caller had seen, unless the item
\* was deleted in between.
THEOREM NoUpdateIsLost == NoBypass => (Spec => NoLostUpdate)
<1> SUFFICES ASSUME NoBypass PROVE Spec => NoLostUpdate
  OBVIOUS
<1>1. Init => LockHistory
  BY TypeInit, HistoryInit DEF LockHistory
<1>2. LockHistory /\ [Next]_vars => LockHistory'
  BY TypeNext, HistoryNext DEF LockHistory
<1>3. LockHistory /\ [Next]_vars => [NoLostUpdateStep]_vars
  BY LockingStep
<1>4. QED
  BY <1>1, <1>2, <1>3, PTL DEF Spec, NoLostUpdate

\* A caller is told ErrVersionConflict only if the item changed since it was
\* read, or the struct was never stored (runtime.go 56-58), on tables without
\* items older than the version field.
THEOREM ConflictIsReal == NoBypass /\ ~Legacy => (Spec => []ConflictMeansChanged)
<1> SUFFICES ASSUME NoBypass, ~Legacy PROVE Spec => []ConflictMeansChanged
  OBVIOUS
<1>1. Init => LockHistory
  BY TypeInit, HistoryInit DEF LockHistory
<1>2. LockHistory /\ [Next]_vars => LockHistory'
  BY TypeNext, HistoryNext DEF LockHistory
<1>3. Init => ConflictMeansChanged
  BY DEF Init, ConflictMeansChanged
<1>4. LockHistory /\ ConflictMeansChanged /\ [Next]_vars => ConflictMeansChanged'
  BY ConflictNext
<1>5. QED
  BY <1>1, <1>2, <1>3, <1>4, PTL DEF Spec

\* A struct at rest that stands for the stored write carries its version,
\* after failed calls too (emit.go 358-364, 410-413).
THEOREM StructIsUsable == NoBypass => (Spec => []StructCarriesVersion)
<1> SUFFICES ASSUME NoBypass PROVE Spec => []StructCarriesVersion
  OBVIOUS
<1>1. LockInv => StructCarriesVersion
  BY DEF LockInv, HistoryInv, Held, Honest, StructCarriesVersion
<1>2. Spec => []LockInv
  BY VersionsNameWrites
<1>3. QED
  BY <1>1, <1>2, PTL

\* A Put or an update of an item that was read and has since been deleted does
\* not bring it back (emit.go Put and Run), on tables without items older than
\* the version field.
THEOREM NothingIsRevived == NoBypass /\ ~Legacy => (Spec => DeletedStaysDeleted)
<1> SUFFICES ASSUME NoBypass, ~Legacy PROVE Spec => DeletedStaysDeleted
  OBVIOUS
<1>1. Init => LockHistory
  BY TypeInit, HistoryInit DEF LockHistory
<1>2. LockHistory /\ [Next]_vars => LockHistory'
  BY TypeNext, HistoryNext DEF LockHistory
<1>3. LockHistory /\ [Next]_vars => [DeletedStaysDeletedStep]_vars
  BY RevivalStep
<1>4. QED
  BY <1>1, <1>2, <1>3, PTL DEF Spec, DeletedStaysDeleted

------------------------------------------------------------------------------
(* Comparing versions implements comparing writes.                         *)

\* Attempts under way are told apart by their sender and tag.
TagInv ==
  /\ \A a \in net : a.tag \in 1..MaxSends /\ a.tag <= sent[a.c]
  /\ \A a, b \in net : a.c = b.c /\ a.tag = b.tag => a = b

RefinementInv == LockHistory /\ TagInv

\* A step sends one attempt, or applies one, or touches neither the attempts
\* nor the table.
LEMMA StepKinds ==
  ASSUME [Next]_vars
  PROVE  \/ \E c \in Clients : \E r :
              Transmit(c, r) /\ UNCHANGED <<table, writes>>
         \/ ApplyOne
         \/ UNCHANGED <<net, sent, table, writes>>
<1> DEFINE Sends == \E c \in Clients : \E r :
                      Transmit(c, r) /\ UNCHANGED <<table, writes>>
<1> SUFFICES Sends \/ ApplyOne \/ UNCHANGED <<net, sent, table, writes>>
  OBVIOUS
<1>1. ASSUME NEW c \in Clients, NEW r, Send(c, r) PROVE Sends
  BY <1>1 DEF Send, store
<1> HIDE DEF Sends
<1>2. ASSUME NEW c \in Clients, NEW k \in Keys,
             Get(c, k) \/ Delete(c, k) \/ \E v \in Vals \cup {None} : Update(c, k, v)
      PROVE  Sends
  BY <1>1, <1>2 DEF Get, Delete, Update
<1>3. ASSUME NEW c \in Clients, NEW v \in Vals,
             Put(c, v) \/ PutIfNotExists(c, v) \/ BlindPut(c, v)
      PROVE  Sends
  BY <1>1, <1>3 DEF Put, PutIfNotExists, BlindPut
<1>4. ASSUME NEW c \in Clients, Resend(c) PROVE Sends
  BY <1>4 DEF Sends, Resend, store
<1>5. ASSUME NEW c, NEW k, NEW v,
             NewStruct(c, k, v) \/ PutRefused(c, v) \/ Replicate(k)
      PROVE  UNCHANGED <<net, sent, table, writes>>
  BY <1>5 DEF NewStruct, PutRefused, Replicate, store
<1>6. ASSUME NEW c \in Clients, ReturnOk(c) \/ ReturnError(c) \/ Fail(c)
      PROVE  UNCHANGED <<net, sent, table, writes>>
  BY <1>6 DEF ReturnOk, ReturnError, Fail, EndCall, store
<1>7. CASE UNCHANGED vars
  BY <1>7 DEF vars
<1>8. CASE Next
  <2>1. ASSUME NEW c \in Clients, NEW k \in Keys,
               \/ Get(c, k)
               \/ Delete(c, k)
               \/ \E v \in Vals : NewStruct(c, k, v)
               \/ \E v \in Vals \cup {None} : Update(c, k, v)
        PROVE  Sends \/ UNCHANGED <<net, sent, table, writes>>
    BY <1>2, <1>5, <2>1
  <2>2. ASSUME NEW c \in Clients, NEW v \in Vals,
               Put(c, v) \/ PutIfNotExists(c, v) \/ PutRefused(c, v) \/ BlindPut(c, v)
        PROVE  Sends \/ UNCHANGED <<net, sent, table, writes>>
    BY <1>3, <1>5, <2>2
  <2>3. QED
    BY <1>4, <1>5, <1>6, <1>8, <2>1, <2>2 DEF Next
<1>9. QED
  BY <1>7, <1>8

LEMMA TagNext ==
  ASSUME TypeOK, TagInv, [Next]_vars
  PROVE  TagInv'
<1>1. ASSUME NEW c \in Clients, NEW r, Transmit(c, r)
      PROVE  TagInv'
  <2> DEFINE n == [c |-> c, tag |-> sent[c] + 1, r |-> r]
  <2>1. /\ sent[c] \in Nat /\ sent[c] < MaxSends
        /\ net' = net \cup {n}
        /\ sent' = [sent EXCEPT ![c] = sent[c] + 1]
    BY <1>1 DEF Transmit, TypeOK
  <2>2. n.c = c /\ n.tag = sent[c] + 1
    OBVIOUS
  <2> HIDE DEF n
  <2>3. ASSUME NEW a \in net
        PROVE  /\ a.c \in Clients /\ a.tag \in Nat /\ a.tag \in 1..MaxSends
               /\ a.tag <= sent[a.c] /\ sent[a.c] \in Nat
               /\ sent[a.c] <= sent'[a.c]
               /\ a.c = c => a.tag # sent[c] + 1
    BY <2>1 DEF TypeOK, TagInv, Attempt
  <2>4. ASSUME NEW a \in net' PROVE a.tag \in 1..MaxSends /\ a.tag <= sent'[a.c]
    <3>1. CASE a \in net
      BY <2>1, <2>3, <3>1 DEF TypeOK
    <3>2. CASE a = n
      BY <2>1, <2>2, <3>2, MaxSendsAssumption DEF TypeOK
    <3>3. QED
      BY <2>1, <3>1, <3>2
  <2>5. ASSUME NEW a \in net', NEW b \in net', a.c = b.c, a.tag = b.tag
        PROVE  a = b
    <3>1. CASE a \in net /\ b \in net
      BY <2>5, <3>1 DEF TagInv
    <3>2. CASE a = n /\ b \in net
      BY <2>2, <2>3, <2>5, <3>2
    <3>3. CASE a \in net /\ b = n
      BY <2>2, <2>3, <2>5, <3>3
    <3>4. QED
      BY <2>1, <3>1, <3>2, <3>3
  <2>6. QED
    BY <2>4, <2>5 DEF TagInv
<1>2. CASE ApplyOne
  BY <1>2 DEF ApplyOne, Apply, TagInv
<1>3. CASE UNCHANGED <<net, sent>>
  BY <1>3 DEF TagInv
<1>4. QED
  BY <1>1, <1>2, <1>3, StepKinds

\* The writes of an application that neither bypasses the lock nor deletes.
LEMMA WriteKinds ==
  ASSUME NoBypass, NoDelete, NEW r \in Request, WellFormed(r),
         r.api # "GetItem"
  PROVE  /\ r.api \in {"PutItem", "UpdateItem"}
         /\ \/ /\ r.op = "Put" /\ KindOf(r) = "put" /\ Locked(r)
               /\ r.cond = IF r.expected = 0 THEN "absent" ELSE "version"
            \/ /\ r.op # "Put" /\ KindOf(r) = "replace" /\ Locked(r)
               /\ r.cond = "version"
            \/ KindOf(r) = "create" /\ ~Locked(r) /\ r.cond = "absent"
            \/ KindOf(r) = "touch" /\ ~Locked(r) /\ r.cond = "exists"
<1>1. r.op \in {"Put", "PutIfNotExists", "Update"}
  BY DEF WellFormed, NoBypass, Bypass, NoDelete, PutOps, Request, AllCalls
<1>2. r.api \in {"PutItem", "UpdateItem"}
  BY <1>1 DEF WellFormed, PutOps
<1>3. CASE r.op = "Put"
  BY <1>2, <1>3 DEF WellFormed, KindOf, Locked
<1>4. CASE r.op = "PutIfNotExists"
  BY <1>2, <1>4 DEF WellFormed, KindOf, Locked
<1>5. CASE r.op = "Update" /\ r.cond = "exists"
  BY <1>2, <1>5 DEF KindOf, Locked
<1>6. CASE r.op = "Update" /\ r.cond = "version"
  BY <1>2, <1>6 DEF KindOf, Locked
<1>7. QED
  BY <1>1, <1>3, <1>4, <1>5, <1>6 DEF WellFormed

\* A condition on versions holds exactly when the operation that names the
\* write is admitted.
LEMMA AdmittedIff ==
  ASSUME NoBypass, NoDelete, ~Legacy, LockHistory, NEW a \in net,
         a.r.api # "GetItem"
  PROVE  CondHolds(a.r, table[a.r.key])
           <=> Abstract!Admitted(OperationOf(a), Wid(table[a.r.key]))
<1> DEFINE r == a.r
           i == table[r.key]
<1>1. /\ r \in Request /\ WellFormed(r) /\ r.key \in Keys
      /\ r.expected \in Nat /\ r.seen.wid \in Nat /\ r.seen.born \in Nat
      /\ i \in Item \cup {None}
      /\ i # None => HonestItem(r.key, i)
      /\ Locked(r) => Honest(r.key, r.expected, r.seen)
  BY DEF LockHistory, TypeInv, TypeOK, CallInv, HistoryInv, Attempt, Request,
         Seen
<1>2. OperationOf(a).kind = KindOf(r)
      /\ OperationOf(a).base = IF Locked(r) THEN r.seen.wid ELSE 0
  BY DEF OperationOf
<1>3. i # None => /\ i \in Item /\ Wid(i) # 0 /\ Wid(i) = i.wid
                  /\ i.ver \in Nat /\ i.ver # 0 /\ GoVer(i) = i.ver
  <2> SUFFICES ASSUME i # None
               PROVE  /\ i \in Item /\ i.wid # 0
                      /\ i.ver \in Nat /\ i.ver # 0 /\ GoVer(i) = i.ver
    BY DEF Wid
  <2>1. /\ i \in Item /\ i.ver # 0 /\ i.born # 0 /\ i.born <= i.wid
        /\ GoVer(i) = 0 => i.born = 0
    BY <1>1, GoVerType DEF HonestItem, Honest, NothingSeen
  <2>2. i.wid \in Nat /\ i.born \in Nat /\ i.ver \in Nat \cup {NoVer}
    BY <2>1 DEF Item
  <2>3. QED
    BY <2>1, <2>2 DEF GoVer, NoVer
<1>4. i = None => Wid(i) = 0
  BY DEF Wid
<1>5. ASSUME Locked(r), r.expected = 0
      PROVE  r.seen.wid = 0
  BY <1>1, <1>5 DEF Honest, NothingSeen
<1>6. ASSUME Locked(r), r.expected # 0
      PROVE  /\ i # None /\ r.seen.wid # 0
             /\ i.ver = r.expected <=> i.wid = r.seen.wid
  <2>1. i # None /\ i.born = r.seen.born /\ r.seen.born # 0
    BY <1>1, <1>6 DEF Honest
  <2>2. r.seen.wid # 0
    BY <1>1, <1>6, <2>1 DEF Honest
  <2>3. i.ver = r.expected <=> i.wid = r.seen.wid
    BY <1>1, <1>3, <1>6, <2>1 DEF Honest
  <2>4. QED
    BY <2>1, <2>2, <2>3
<1> HIDE DEF r, i
<1>7. CondHolds(r, i) <=> Abstract!Admitted(OperationOf(a), Wid(i))
  <2>1. CASE /\ r.op = "Put" /\ KindOf(r) = "put" /\ Locked(r)
             /\ r.cond = IF r.expected = 0 THEN "absent" ELSE "version"
    BY <1>1, <1>2, <1>3, <1>4, <1>5, <1>6, <2>1
    DEF CondHolds, Abstract!Admitted
  <2>2. CASE KindOf(r) = "replace" /\ Locked(r) /\ r.cond = "version"
    BY <1>1, <1>2, <1>3, <1>4, <1>5, <1>6, <2>2
    DEF CondHolds, Abstract!Admitted
  <2>3. CASE KindOf(r) = "create" /\ r.cond = "absent"
    BY <1>2, <1>3, <1>4, <2>3 DEF CondHolds, Abstract!Admitted
  <2>4. CASE KindOf(r) = "touch" /\ r.cond = "exists"
    BY <1>2, <1>3, <1>4, <2>4 DEF CondHolds, Abstract!Admitted
  <2>5. r.api # "GetItem"
    BY DEF r
  <2>6. QED
    BY <1>1, <2>1, <2>2, <2>3, <2>4, <2>5, WriteKinds
<1>8. QED
  BY <1>7 DEF r, i

\* Sending a write submits an operation; sending a read changes nothing.
LEMMA SendRefines ==
  ASSUME NoBypass, NoDelete, RefinementInv, RefinementInv',
         NEW c \in Clients, NEW r, Transmit(c, r), UNCHANGED <<table, writes>>
  PROVE  [Abstract!Next]_(Abstract!vars)
<1> DEFINE n == [c |-> c, tag |-> sent[c] + 1, r |-> r]
<1>1. net' = net \cup {n} /\ n.c = c /\ n.tag = sent[c] + 1 /\ n.r = r
  BY DEF Transmit
<1> HIDE DEF n
<1>2. /\ n \in net' /\ r \in Request /\ WellFormed(r) /\ r.key \in Keys
      /\ n.tag \in 1..MaxSends /\ writes \in Nat /\ r.seen.wid \in Nat
  BY <1>1 DEF RefinementInv, LockHistory, TypeInv, TypeOK, CallInv, TagInv,
              Attempt, Request, Seen
<1>3. CASE r.api = "GetItem"
  <2>1. WriteAttempts' = WriteAttempts
    BY <1>1, <1>3 DEF WriteAttempts
  <2>2. QED
    BY <2>1 DEF Abstract!vars
<1>4. CASE r.api # "GetItem"
  <2> DEFINE base == IF Locked(r) THEN r.seen.wid ELSE 0
  <2>1. OperationOf(n) = [id |-> <<c, n.tag>>, key |-> r.key,
                          kind |-> KindOf(r), base |-> base]
    BY <1>1 DEF OperationOf
  <2>2. base \in 0..writes
    BY <1>1, <1>2 DEF RefinementInv, LockHistory, HistoryInv, Honest
  <2>3. KindOf(r) \in Abstract!Kinds
    BY <1>2, <1>4, WriteKinds DEF Abstract!Kinds
  <2>4. WriteAttempts' = WriteAttempts \cup {n}
    BY <1>1, <1>4 DEF WriteAttempts
  <2>5. \A a \in WriteAttempts : OperationOf(a).id # <<c, n.tag>>
    BY <1>1 DEF WriteAttempts, OperationOf, RefinementInv, TagInv, LockHistory,
                TypeInv, TypeOK
  <2> HIDE DEF base
  <2>6. Abstract!Submit(<<c, n.tag>>, r.key, KindOf(r), base)
    BY <2>1, <2>4, <2>5 DEF Abstract!Submit
  <2>7. QED
    BY <1>2, <2>2, <2>3, <2>6 DEF Abstract!Next
<1>5. QED
  BY <1>3, <1>4

\* The service commits or rejects the operation whose attempt it applies.
LEMMA ApplyRefines ==
  ASSUME NoBypass, NoDelete, ~Legacy, RefinementInv, ApplyOne
  PROVE  [Abstract!Next]_(Abstract!vars)
<1>1. PICK a \in net : \/ Apply(a, table[a.r.key])
                       \/ a.r.api = "GetItem" /\ Apply(a, replica[a.r.key])
  BY DEF ApplyOne
<1>2. net' = net \ {a}
  BY <1>1 DEF Apply
<1>3. CASE a.r.api = "GetItem"
  <2>1. WriteAttempts' = WriteAttempts /\ UNCHANGED <<table, writes>>
    BY <1>1, <1>2, <1>3 DEF WriteAttempts, Apply
  <2>2. QED
    BY <2>1 DEF Abstract!vars
<1>4. CASE a.r.api # "GetItem"
  <2> DEFINE o == OperationOf(a)
             old == table[a.r.key]
             pending == {OperationOf(b) : b \in WriteAttempts}
  <2>1. a \in WriteAttempts /\ WriteAttempts' = WriteAttempts \ {a}
    BY <1>2, <1>4 DEF WriteAttempts
  <2>2. \A b \in WriteAttempts : OperationOf(b) = o => b = a
    BY DEF OperationOf, WriteAttempts, RefinementInv, TagInv
  <2>3. pending' = pending \ {o} /\ o \in pending
    BY <2>1, <2>2
  <2>4. o.key = a.r.key /\ a.r.key \in Keys
    BY DEF OperationOf, RefinementInv, LockHistory, TypeInv, TypeOK, Attempt,
           Request
  <2>5. CondHolds(a.r, old) <=> Abstract!Admitted(o, Wid(old))
    BY <1>4, AdmittedIff DEF RefinementInv
  <2>6. CASE CondHolds(a.r, old)
    <3> DEFINE i == After(a.r, old, writes + 1)
    <3>1. table' = [table EXCEPT ![a.r.key] = i] /\ writes' = writes + 1
      BY <1>1, <1>4, <2>6 DEF Apply
    <3>2. Wid(i) = writes + 1
      <4>1. a.r \in Request /\ WellFormed(a.r) /\ old \in Item \cup {None}
            /\ writes + 1 \in Nat
        BY <2>4 DEF RefinementInv, LockHistory, TypeInv, TypeOK, CallInv, Attempt
      <4>2. Advances(old, i, writes + 1)
        BY <1>4, <2>6, <4>1, WriteAdvances
      <4>3. QED
        BY <4>2, NoneNotRecord DEF Advances, Wid
    <3> HIDE DEF i
    <3>3. [k \in Keys |-> Wid(table[k])]'
            = [[k \in Keys |-> Wid(table[k])] EXCEPT ![o.key] = writes + 1]
      BY <2>4, <3>1, <3>2 DEF RefinementInv, LockHistory, TypeInv, TypeOK
    <3>4. Abstract!Commit(o)
      BY <2>3, <2>4, <2>5, <2>6, <3>1, <3>3 DEF Abstract!Commit
    <3>5. QED
      BY <2>3, <3>4 DEF Abstract!Next
  <2>7. CASE ~CondHolds(a.r, old)
    <3>1. UNCHANGED <<table, writes>>
      BY <1>1, <1>4, <2>7 DEF Apply
    <3>2. Abstract!Reject(o)
      BY <2>3, <2>4, <2>5, <2>7, <3>1 DEF Abstract!Reject
    <3>3. QED
      BY <2>3, <3>2 DEF Abstract!Next
  <2>8. QED
    BY <2>6, <2>7
<1>5. QED
  BY <1>3, <1>4

LEMMA InitRefines ==
  ASSUME ~Legacy, Init
  PROVE  Abstract!Init
<1>1. \A k \in Keys : Wid(table[k]) = 0
  BY DEF Init, Wid
<1>2. WriteAttempts = {} /\ writes = 1
  BY DEF Init, WriteAttempts
<1>3. QED
  BY <1>1, <1>2 DEF Abstract!Init

\* The client and the table implement the store that knows only which write
\* is current (emit.go Put, PutIfNotExists and Run): comparing version numbers
\* amounts to comparing writes, for an application that neither deletes nor
\* bypasses the lock, on items that all have a version.
THEOREM VersionsStandForWrites ==
  NoBypass /\ NoDelete /\ ~Legacy => (Spec => ImplementsConditionalStore)
<1> SUFFICES ASSUME NoBypass, NoDelete, ~Legacy
             PROVE  Spec => ImplementsConditionalStore
  OBVIOUS
<1>1. Init => RefinementInv
  BY TypeInit, HistoryInit DEF RefinementInv, LockHistory, Init, TagInv
<1>2. RefinementInv /\ [Next]_vars => RefinementInv'
  BY TypeNext, HistoryNext, TagNext DEF RefinementInv, LockHistory, TypeInv
<1>3. Init => Abstract!Init
  BY InitRefines
<1>4. RefinementInv /\ RefinementInv' /\ [Next]_vars
        => [Abstract!Next]_(Abstract!vars)
  <2> SUFFICES ASSUME RefinementInv, RefinementInv', [Next]_vars
               PROVE  [Abstract!Next]_(Abstract!vars)
    OBVIOUS
  <2>1. CASE UNCHANGED <<net, table, writes>>
    BY <2>1 DEF Abstract!vars, WriteAttempts
  <2>2. QED
    BY <2>1, SendRefines, ApplyRefines, StepKinds
<1>5. QED
  BY <1>1, <1>2, <1>3, <1>4, PTL
  DEF Spec, ImplementsConditionalStore, Abstract!Spec
==============================================================================
