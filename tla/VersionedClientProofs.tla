------------------------ MODULE VersionedClientProofs ------------------------
(***************************************************************************)
(* Proofs about VersionedClient, for any clients, keys, values and bounds. *)
(* CallInv says what a call in progress looks like; it carries the type    *)
(* invariant.  HistoryInv, on top of it, gives NoLostUpdate for            *)
(* applications that stay clear of the Bypass methods.                     *)
(***************************************************************************)
EXTENDS VersionedClient, TLAPS

Apis == {"GetItem", "PutItem", "UpdateItem", "DeleteItem"}

TypeInv == TypeOK /\ CallInv

\* The struct an application ends up with when it sends r.
Fits(o, r) ==
  /\ o \in Struct \cup {None}
  /\ r.op \in PutOps => o # None /\ o.key = r.key /\ o.ver = r.ver

------------------------------------------------------------------------------
(* The requests the methods build.                                         *)

LEMMA BareType ==
  ASSUME NEW op \in AllCalls, NEW api \in Apis, NEW k \in Keys,
         NEW cond \in {"none", "absent", "exists", "version"},
         NEW e \in Nat, NEW s \in Seen
  PROVE  Bare(op, api, k, cond, e, s) \in Request
BY DEF Bare, Request, Apis

LEMMA ImageType ==
  ASSUME NEW op \in AllCalls, NEW o \in Struct,
         NEW cond \in {"none", "absent", "exists", "version"},
         NEW ver \in Nat, NEW v \in Vals
  PROVE  Image(op, o, cond, ver, v) \in Request
BY IndexKeyAssumption DEF Image, Request, Struct

LEMMA NothingSeenType == NothingSeen \in Seen
BY DEF NothingSeen, Seen

LEMMA GetRequestFits ==
  ASSUME NEW k \in Keys, GetRequest(k).op \in Calls
  PROVE  GetRequest(k) \in Request /\ WellFormed(GetRequest(k))
<1>1. GetRequest(k) \in Request
  BY BareType, NothingSeenType DEF GetRequest, AllCalls, Apis
<1>2. WellFormed(GetRequest(k))
  BY DEF GetRequest, Bare, WellFormed, PutOps
<1>3. QED
  BY <1>1, <1>2

LEMMA PutRequestFits ==
  ASSUME NEW o \in Struct, NEW v \in Vals, PutRequest(o, v).op \in Calls
  PROVE  PutRequest(o, v) \in Request /\ WellFormed(PutRequest(o, v))
<1>1. o.ver + 1 \in Nat
  BY DEF Struct
<1>2. PutRequest(o, v) \in Request
  BY <1>1, ImageType DEF PutRequest, AllCalls
<1>3. WellFormed(PutRequest(o, v))
  BY NoneAssumption DEF PutRequest, Image, WellFormed, PutOps
<1>4. QED
  BY <1>2, <1>3

LEMMA PutIfNotExistsRequestFits ==
  ASSUME NEW o \in Struct, NEW v \in Vals,
         PutIfNotExistsRequest(o, v).op \in Calls
  PROVE  /\ PutIfNotExistsRequest(o, v) \in Request
         /\ WellFormed(PutIfNotExistsRequest(o, v))
<1>1. (IF o.ver = 0 THEN 1 ELSE o.ver) \in Nat
  BY DEF Struct
<1>2. PutIfNotExistsRequest(o, v) \in Request
  BY <1>1, ImageType DEF PutIfNotExistsRequest, AllCalls
<1>3. WellFormed(PutIfNotExistsRequest(o, v))
  BY NoneAssumption DEF PutIfNotExistsRequest, Image, WellFormed, PutOps
<1>4. QED
  BY <1>2, <1>3

LEMMA BlindPutRequestFits ==
  ASSUME NEW o \in Struct, NEW v \in Vals
  PROVE  /\ BatchPutRequest(o, v).op \in Calls =>
              /\ BatchPutRequest(o, v) \in Request
              /\ WellFormed(BatchPutRequest(o, v))
         /\ TransactPutRequest(o, v).op \in Calls =>
              /\ TransactPutRequest(o, v) \in Request
              /\ WellFormed(TransactPutRequest(o, v))
<1>1. o.ver \in Nat
  BY DEF Struct
<1>2. /\ BatchPutRequest(o, v) \in Request
      /\ TransactPutRequest(o, v) \in Request
  BY <1>1, ImageType DEF BatchPutRequest, TransactPutRequest, AllCalls
<1>3. BatchPutRequest(o, v).op \in Calls => WellFormed(BatchPutRequest(o, v))
  BY NoneAssumption DEF BatchPutRequest, Image, WellFormed, PutOps
<1>4. TransactPutRequest(o, v).op \in Calls =>
        WellFormed(TransactPutRequest(o, v))
  BY NoneAssumption DEF TransactPutRequest, Image, WellFormed, PutOps
<1>5. QED
  BY <1>2, <1>3, <1>4

LEMMA DeleteRequestFits ==
  ASSUME NEW k \in Keys, NEW o \in Struct \cup {None},
         NEW cond \in {"none", "exists", "version"},
         cond = "version" => o # None,
         DeleteRequest(k, cond, o).op \in Calls
  PROVE  /\ DeleteRequest(k, cond, o) \in Request
         /\ WellFormed(DeleteRequest(k, cond, o))
<1>1. cond = "version" => o.ver \in Nat /\ o.seen \in Seen
  BY DEF Struct
<1>2. DeleteRequest(k, cond, o) \in Request
  BY <1>1, BareType, NothingSeenType DEF DeleteRequest, AllCalls, Apis
<1>3. WellFormed(DeleteRequest(k, cond, o))
  BY DEF DeleteRequest, Bare, WellFormed, PutOps
<1>4. QED
  BY <1>2, <1>3

LEMMA TransactDeleteRequestFits ==
  ASSUME NEW k \in Keys, TransactDeleteRequest(k).op \in Calls
  PROVE  /\ TransactDeleteRequest(k) \in Request
         /\ WellFormed(TransactDeleteRequest(k))
<1>1. TransactDeleteRequest(k) \in Request
  BY BareType, NothingSeenType DEF TransactDeleteRequest, AllCalls, Apis
<1>2. WellFormed(TransactDeleteRequest(k))
  BY DEF TransactDeleteRequest, Bare, WellFormed, PutOps
<1>3. QED
  BY <1>1, <1>2

LEMMA ChangingType ==
  ASSUME NEW r \in Request, NEW v \in Vals \cup {None}
  PROVE  Changing(r, v) \in Request
BY IndexKeyAssumption DEF Changing, Request

LEMMA UpdateRequestFits ==
  ASSUME NEW k \in Keys, NEW v \in Vals \cup {None},
         UpdateRequest(k, v).op \in Calls
  PROVE  UpdateRequest(k, v) \in Request /\ WellFormed(UpdateRequest(k, v))
<1>1. UpdateRequest(k, v) \in Request
  BY ChangingType, BareType, NothingSeenType DEF UpdateRequest, AllCalls, Apis
<1>2. WellFormed(UpdateRequest(k, v))
  BY DEF UpdateRequest, Changing, Bare, WellFormed, PutOps
<1>3. QED
  BY <1>1, <1>2

LEMMA GuardedUpdateRequestFits ==
  ASSUME NEW o \in Struct, NEW v \in Vals \cup {None},
         GuardedUpdateRequest(o, v).op \in Calls
  PROVE  /\ GuardedUpdateRequest(o, v) \in Request
         /\ WellFormed(GuardedUpdateRequest(o, v))
<1>1. o.key \in Keys /\ o.ver \in Nat /\ o.seen \in Seen
  BY DEF Struct
<1>2. GuardedUpdateRequest(o, v) \in Request
  BY <1>1, ChangingType, BareType DEF GuardedUpdateRequest, AllCalls, Apis
<1>3. WellFormed(GuardedUpdateRequest(o, v))
  BY DEF GuardedUpdateRequest, Changing, Bare, WellFormed, PutOps
<1>4. QED
  BY <1>2, <1>3

------------------------------------------------------------------------------
(* Types and calls: one lemma per kind of step.                            *)

LEMMA TypeInit == Init => TypeInv
<1> SUFFICES ASSUME Init PROVE TypeInv
  OBVIOUS
<1>1. LegacyItem \subseteq Item
  BY DEF LegacyItem, Item, NoVer
<1>2. TypeOK
  BY <1>1 DEF Init, TypeOK
<1>3. CallInv
  BY DEF Init, CallInv
<1>4. QED
  BY <1>2, <1>3 DEF TypeInv

\* Sending a well-formed request, whatever the method.
LEMMA SendType ==
  ASSUME TypeInv, NEW c \in Clients, NEW r \in Request, NEW o,
         WellFormed(r), Send(c, r), Fits(o, r), obj' = [obj EXCEPT ![c] = o]
  PROVE  TypeInv'
<1> USE DEF TypeInv, Send, Transmit, store
<1>1. sent' = [sent EXCEPT ![c] = sent[c] + 1] /\ sent[c] + 1 \in Nat
  BY DEF TypeOK
<1>2. [c |-> c, tag |-> sent[c] + 1, r |-> r] \in Attempt
  BY <1>1 DEF Attempt
<1>3. TypeOK'
  <2>1. r # None
    BY NoneNotRecord
  <2>2. /\ table' \in [Keys -> Item \cup {None}]
        /\ replica' \in [Keys -> Item \cup {None}]
        /\ writes' \in Nat
        /\ net' \subseteq Attempt
        /\ sent' \in [Clients -> Nat]
        /\ phase' \in [Clients -> {"idle", "wait", "replied"}]
        /\ req' \in [Clients -> Request \cup {None}]
        /\ reply' \in [Clients -> Reply \cup {None}]
    BY <1>1, <1>2 DEF TypeOK
  <2>3. obj' \in [Clients -> Struct \cup {None}]
    BY DEF TypeOK, Fits
  <2>4. \A d \in Clients : phase'[d] # "idle" => req'[d] # None
    BY <2>1 DEF TypeOK
  <2>5. \A d \in Clients : phase'[d] = "replied" => reply'[d] # None
    BY DEF TypeOK
  <2>6. QED
    BY <2>2, <2>3, <2>4, <2>5 DEF TypeOK
<1>4. ASSUME NEW a \in net'
      PROVE  /\ WellFormed(a.r)
             /\ a.tag <= sent'[a.c]
             /\ a.tag = sent'[a.c] /\ phase'[a.c] # "idle" => a.r = req'[a.c]
  <2>1. CASE a = [c |-> c, tag |-> sent[c] + 1, r |-> r]
    BY <2>1, <1>1 DEF TypeOK
  <2>2. CASE a \in net
    <3>1. a.c \in Clients /\ a.tag \in Nat /\ a.tag <= sent[a.c] /\ WellFormed(a.r)
      BY <2>2 DEF TypeOK, Attempt, CallInv
    <3>2. CASE a.c = c
      BY <3>1, <3>2, <1>1 DEF TypeOK
    <3>3. CASE a.c # c
      BY <3>1, <3>3, <2>2, <1>1 DEF TypeOK, CallInv
    <3>4. QED
      BY <3>2, <3>3
  <2>3. QED
    BY <2>1, <2>2
<1>5. ASSUME NEW d \in Clients, phase'[d] # "idle"
      PROVE  /\ WellFormed(req'[d])
             /\ req'[d].op \in PutOps =>
                  /\ obj'[d] # None /\ obj'[d].key = req'[d].key
                  /\ obj'[d].ver = req'[d].ver
  BY <1>5 DEF TypeOK, CallInv, Fits
<1>6. ASSUME NEW d \in Clients, phase'[d] = "replied"
      PROVE  Answered(d)'
  BY <1>6 DEF TypeOK, CallInv, Answered
<1>7. QED
  BY <1>3, <1>4, <1>5, <1>6 DEF CallInv

\* Sending a request that involves no struct.
LEMMA SendBareType ==
  ASSUME TypeInv, NEW c \in Clients, NEW r \in Request,
         WellFormed(r), Send(c, r), r.op \notin PutOps, UNCHANGED obj
  PROVE  TypeInv'
<1>1. obj' = [obj EXCEPT ![c] = obj[c]] /\ Fits(obj[c], r)
  BY DEF TypeInv, TypeOK, Fits
<1>2. QED
  BY <1>1, SendType

LEMMA GetType ==
  ASSUME TypeInv, NEW c \in Clients, NEW k \in Keys, Get(c, k)
  PROVE  TypeInv'
<1>1. GetRequest(k).op \in Calls /\ GetRequest(k).op \notin PutOps
  BY DEF Get, Send, GetRequest, Bare, PutOps
<1>2. QED
  BY <1>1, GetRequestFits, SendBareType DEF Get

LEMMA PutType ==
  ASSUME TypeInv, NEW c \in Clients, NEW v \in Vals, Put(c, v)
  PROVE  TypeInv'
<1> DEFINE o == [obj[c] EXCEPT !.ver = @ + 1, !.val = v]
<1>1. obj[c] \in Struct /\ PutRequest(obj[c], v).op \in Calls
  BY DEF Put, Send, TypeInv, TypeOK
<1>2. o \in Struct
  <2>1. obj[c].ver + 1 \in Nat
    BY <1>1 DEF Struct
  <2>2. QED
    BY <1>1, <2>1, Zenon DEF Struct
<1>3. Fits(o, PutRequest(obj[c], v))
  BY <1>1, <1>2, NoneNotRecord DEF Fits, PutRequest, Image, Struct
<1>4. obj' = [obj EXCEPT ![c] = o]
  BY <1>1 DEF Put, TypeInv, TypeOK
<1>5. QED
  BY <1>1, <1>3, <1>4, PutRequestFits, SendType DEF Put

LEMMA PutIfNotExistsType ==
  ASSUME TypeInv, NEW c \in Clients, NEW v \in Vals, PutIfNotExists(c, v)
  PROVE  TypeInv'
<1> DEFINE o == [obj[c] EXCEPT !.ver = IF @ = 0 THEN 1 ELSE @, !.val = v]
<1>1. obj[c] \in Struct /\ PutIfNotExistsRequest(obj[c], v).op \in Calls
  BY DEF PutIfNotExists, Send, TypeInv, TypeOK
<1>2. o \in Struct
  BY <1>1 DEF Struct
<1>3. Fits(o, PutIfNotExistsRequest(obj[c], v))
  BY <1>1, <1>2, NoneNotRecord DEF Fits, PutIfNotExistsRequest, Image, Struct
<1>4. obj' = [obj EXCEPT ![c] = o]
  BY <1>1 DEF PutIfNotExists, TypeInv, TypeOK
<1>5. QED
  BY <1>1, <1>3, <1>4, PutIfNotExistsRequestFits, SendType DEF PutIfNotExists

LEMMA BlindPutType ==
  ASSUME TypeInv, NEW c \in Clients, NEW v \in Vals, BlindPut(c, v)
  PROVE  TypeInv'
<1> DEFINE o == [obj[c] EXCEPT !.val = v]
<1>1. obj[c] \in Struct
  BY DEF BlindPut, TypeInv, TypeOK
<1>2. o \in Struct
  BY <1>1 DEF Struct
<1>3. /\ Fits(o, BatchPutRequest(obj[c], v))
      /\ Fits(o, TransactPutRequest(obj[c], v))
  BY <1>1, <1>2, NoneNotRecord
     DEF Fits, BatchPutRequest, TransactPutRequest, Image, Struct
<1>4. obj' = [obj EXCEPT ![c] = o]
  BY <1>1 DEF BlindPut, TypeInv, TypeOK
<1>5. CASE Send(c, BatchPutRequest(obj[c], v))
  <2>1. BatchPutRequest(obj[c], v).op \in Calls
    BY <1>5 DEF Send
  <2>2. QED
    BY <2>1, <1>1, <1>3, <1>4, <1>5, BlindPutRequestFits, SendType
<1>6. CASE Send(c, TransactPutRequest(obj[c], v))
  <2>1. TransactPutRequest(obj[c], v).op \in Calls
    BY <1>6 DEF Send
  <2>2. QED
    BY <2>1, <1>1, <1>3, <1>4, <1>6, BlindPutRequestFits, SendType
<1>7. QED
  BY <1>5, <1>6 DEF BlindPut

LEMMA DeleteType ==
  ASSUME TypeInv, NEW c \in Clients, NEW k \in Keys, Delete(c, k)
  PROVE  TypeInv'
<1>1. obj[c] \in Struct \cup {None} /\ UNCHANGED obj
  BY DEF Delete, TypeInv, TypeOK
<1>2. ASSUME NEW cond \in {"none", "exists", "version"},
             cond = "version" => obj[c] # None,
             Send(c, DeleteRequest(k, cond, obj[c]))
      PROVE  TypeInv'
  <2>1. /\ DeleteRequest(k, cond, obj[c]).op \in Calls
        /\ DeleteRequest(k, cond, obj[c]).op \notin PutOps
    BY <1>2 DEF Send, DeleteRequest, Bare, PutOps
  <2>2. QED
    BY <2>1, <1>1, <1>2, DeleteRequestFits, SendBareType
<1>3. ASSUME Send(c, TransactDeleteRequest(k))
      PROVE  TypeInv'
  <2>1. /\ TransactDeleteRequest(k).op \in Calls
        /\ TransactDeleteRequest(k).op \notin PutOps
    BY <1>3 DEF Send, TransactDeleteRequest, Bare, PutOps
  <2>2. QED
    BY <2>1, <1>1, <1>3, TransactDeleteRequestFits, SendBareType
<1>4. QED
  BY <1>2, <1>3 DEF Delete

LEMMA UpdateType ==
  ASSUME TypeInv, NEW c \in Clients, NEW k \in Keys,
         NEW v \in Vals \cup {None}, Update(c, k, v)
  PROVE  TypeInv'
<1>1. obj[c] \in Struct \cup {None} /\ UNCHANGED obj
  BY DEF Update, TypeInv, TypeOK
<1>2. CASE Send(c, UpdateRequest(k, v))
  <2>1. /\ UpdateRequest(k, v).op \in Calls
        /\ UpdateRequest(k, v).op \notin PutOps
    BY <1>2 DEF Send, UpdateRequest, Changing, Bare, PutOps
  <2>2. QED
    BY <2>1, <1>1, <1>2, UpdateRequestFits, SendBareType
<1>3. CASE obj[c] # None /\ Send(c, GuardedUpdateRequest(obj[c], v))
  <2>1. /\ GuardedUpdateRequest(obj[c], v).op \in Calls
        /\ GuardedUpdateRequest(obj[c], v).op \notin PutOps
    BY <1>3 DEF Send, GuardedUpdateRequest, Changing, Bare, PutOps
  <2>2. QED
    BY <2>1, <1>1, <1>3, GuardedUpdateRequestFits, SendBareType
<1>4. QED
  BY <1>2, <1>3 DEF Update

\* Steps between calls that only touch the struct.
LEMMA NewStructType ==
  ASSUME TypeInv, NEW c \in Clients, NEW k \in Keys, NEW v \in Vals,
         NewStruct(c, k, v)
  PROVE  TypeInv'
<1> USE DEF NewStruct, store, TypeInv
<1>1. TypeOK'
  BY NothingSeenType DEF TypeOK, Struct
<1>2. CallInv'
  BY DEF TypeOK, CallInv, Answered
<1>3. QED
  BY <1>1, <1>2

LEMMA PutRefusedType ==
  ASSUME TypeInv, NEW c \in Clients, NEW v \in Vals, PutRefused(c, v)
  PROVE  TypeInv'
<1> USE DEF PutRefused, store, TypeInv
<1>1. TypeOK'
  BY DEF TypeOK, Struct
<1>2. CallInv'
  BY DEF TypeOK, CallInv, Answered
<1>3. QED
  BY <1>1, <1>2

LEMMA ReplicateType ==
  ASSUME TypeInv, NEW k \in Keys, Replicate(k)
  PROVE  TypeInv'
<1> USE DEF Replicate, TypeInv
<1>1. TypeOK'
  BY DEF TypeOK
<1>2. CallInv'
  BY DEF CallInv, Answered
<1>3. QED
  BY <1>1, <1>2

LEMMA ResendType ==
  ASSUME TypeInv, NEW c \in Clients, Resend(c)
  PROVE  TypeInv'
<1> USE DEF TypeInv, Resend, Transmit, store
<1>1. /\ sent' = [sent EXCEPT ![c] = sent[c] + 1] /\ sent[c] + 1 \in Nat
      /\ req[c] \in Request /\ WellFormed(req[c])
  BY DEF TypeOK, CallInv
<1>2. [c |-> c, tag |-> sent[c] + 1, r |-> req[c]] \in Attempt
  BY <1>1 DEF Attempt
<1>3. TypeOK'
  BY <1>1, <1>2 DEF TypeOK
<1>4. ASSUME NEW a \in net'
      PROVE  /\ WellFormed(a.r)
             /\ a.tag <= sent'[a.c]
             /\ a.tag = sent'[a.c] /\ phase'[a.c] # "idle" => a.r = req'[a.c]
  <2>1. CASE a = [c |-> c, tag |-> sent[c] + 1, r |-> req[c]]
    BY <2>1, <1>1 DEF TypeOK
  <2>2. CASE a \in net
    <3>1. a.c \in Clients /\ a.tag \in Nat /\ a.tag <= sent[a.c] /\ WellFormed(a.r)
      BY <2>2 DEF TypeOK, Attempt, CallInv
    <3>2. CASE a.c = c
      BY <3>1, <3>2, <1>1 DEF TypeOK
    <3>3. CASE a.c # c
      BY <3>1, <3>3, <2>2, <1>1 DEF TypeOK, CallInv
    <3>4. QED
      BY <3>2, <3>3
  <2>3. QED
    BY <2>1, <2>2
<1>5. ASSUME NEW d \in Clients, phase'[d] # "idle"
      PROVE  /\ WellFormed(req'[d])
             /\ req'[d].op \in PutOps =>
                  /\ obj'[d] # None /\ obj'[d].key = req'[d].key
                  /\ obj'[d].ver = req'[d].ver
  BY <1>5 DEF TypeOK, CallInv
<1>6. ASSUME NEW d \in Clients, phase'[d] = "replied"
      PROVE  Answered(d)'
  BY <1>6 DEF TypeOK, CallInv, Answered
<1>7. QED
  BY <1>3, <1>4, <1>5, <1>6 DEF CallInv

\* The item a request leaves behind.
LEMMA AfterType ==
  ASSUME NEW r \in Request, WellFormed(r), NEW i \in Item \cup {None},
         NEW w \in Nat, CondHolds(r, i)
  PROVE  /\ After(r, i, w) \in Item \cup {None}
         /\ r.op = "Get" => After(r, i, w) = i
         /\ r.op \in PutOps => /\ After(r, i, w) # None
                               /\ After(r, i, w).ver = r.ver
         /\ r.op = "Update" => i # None /\ After(r, i, w) # None
<1>1. CASE r.api = "GetItem"
  BY <1>1 DEF After, WellFormed, PutOps
<1>2. CASE r.api = "PutItem"
  <2>1. After(r, i, w) = Stored(r, i, w)
    BY <1>2 DEF After
  <2>2. r.ver \in Nat /\ r.val \in Vals /\ r.idx \in IndexKeys \cup {None}
    BY <1>2 DEF Request, WellFormed, PutOps
  <2>3. (IF i = None THEN w ELSE i.born) \in Nat
    BY DEF Item
  <2>4. Stored(r, i, w) \in Item
    BY <2>2, <2>3 DEF Stored, Item
  <2>5. Stored(r, i, w).ver = r.ver
    BY DEF Stored
  <2>6. QED
    BY <1>2, <2>1, <2>4, <2>5, NoneNotRecord DEF WellFormed, PutOps
<1>3. CASE r.api = "UpdateItem"
  <2>1. After(r, i, w) = Updated(r, i, w)
    BY <1>3 DEF After
  <2>2. i \in Item /\ i # None
    BY <1>3, NoneNotRecord DEF WellFormed, CondHolds
  <2>3. GoVer(i) + 1 \in Nat
    BY <2>2 DEF GoVer, Item, NoVer
  <2>4. /\ (IF r.val = None THEN i.val ELSE r.val) \in Vals
        /\ (IF r.idx = None THEN i.idx ELSE r.idx) \in IndexKeys \cup {None}
        /\ (IF r.val = None THEN i.set ELSE w) \in Nat
    BY <2>2 DEF Item, Request
  <2>5. Updated(r, i, w) \in Item
    BY <2>2, <2>3, <2>4 DEF Updated, Item
  <2>6. QED
    BY <1>3, <2>1, <2>2, <2>5, NoneNotRecord DEF WellFormed, PutOps
<1>4. CASE r.api = "DeleteItem"
  BY <1>4 DEF After, WellFormed, PutOps
<1>5. QED
  BY <1>1, <1>2, <1>3, <1>4 DEF Request

LEMMA ApplyType ==
  ASSUME TypeInv, NEW a \in net, NEW old \in Item \cup {None}, Apply(a, old)
  PROVE  TypeInv'
<1> DEFINE r  == a.r
           c  == a.c
           ok == CondHolds(r, old)
           w  == writes + 1
           i  == IF ok THEN After(r, old, w) ELSE old
           ans == [ok |-> ok, found |-> old, new |-> i]
<1>1. /\ c \in Clients /\ r \in Request /\ r.key \in Keys /\ a.tag \in Nat
      /\ WellFormed(r) /\ w \in Nat
  BY DEF TypeInv, TypeOK, CallInv, Attempt, Request
<1>2. ok => /\ After(r, old, w) \in Item \cup {None}
            /\ r.op = "Get" => After(r, old, w) = old
            /\ r.op \in PutOps => /\ After(r, old, w) # None
                                  /\ After(r, old, w).ver = r.ver
            /\ r.op = "Update" => After(r, old, w) # None
  BY <1>1, AfterType
<1>3. i \in Item \cup {None} /\ ok \in BOOLEAN
  BY <1>2 DEF CondHolds
<1>4. ans \in Reply /\ ans # None
  <2> HIDE DEF i, ok
  <2>1. ans \in Reply
    BY <1>3 DEF Reply
  <2>2. QED
    BY <2>1, NoneNotRecord
<1>5. /\ net' = net \ {a}
      /\ \/ table' = [table EXCEPT ![r.key] = i] /\ writes' = w
         \/ UNCHANGED <<table, writes>>
      /\ \/ /\ phase[c] = "wait" /\ a.tag = sent[c]
            /\ phase' = [phase EXCEPT ![c] = "replied"]
            /\ reply' = [reply EXCEPT ![c] = ans]
         \/ UNCHANGED <<phase, reply>>
      /\ UNCHANGED <<replica, obj, req, sent>>
  BY DEF Apply
<1>6. TypeOK'
  <2> HIDE DEF i, ok, ans
  <2>1. /\ table' \in [Keys -> Item \cup {None}]
        /\ writes' \in Nat
    BY <1>1, <1>3, <1>5 DEF TypeInv, TypeOK
  <2>2. /\ phase' \in [Clients -> {"idle", "wait", "replied"}]
        /\ reply' \in [Clients -> Reply \cup {None}]
    BY <1>1, <1>4, <1>5 DEF TypeInv, TypeOK
  <2>3. \A d \in Clients : phase'[d] # "idle" => req'[d] # None
    BY <1>1, <1>5 DEF TypeInv, TypeOK
  <2>4. \A d \in Clients : phase'[d] = "replied" => reply'[d] # None
    BY <1>1, <1>4, <1>5 DEF TypeInv, TypeOK
  <2>5. QED
    BY <2>1, <2>2, <2>3, <2>4, <1>5 DEF TypeInv, TypeOK
<1>7. CallInv'
  <2>1. ASSUME NEW b \in net'
        PROVE  /\ WellFormed(b.r)
               /\ b.tag <= sent'[b.c]
               /\ b.tag = sent'[b.c] /\ phase'[b.c] # "idle" => b.r = req'[b.c]
    <3> HIDE DEF i, ok, ans
    <3>1. b \in net /\ b.c \in Clients
      BY <1>5 DEF TypeInv, TypeOK, Attempt
    <3>2. phase'[b.c] # "idle" => phase[b.c] # "idle"
      BY <3>1, <1>1, <1>5 DEF TypeInv, TypeOK
    <3>3. QED
      BY <3>1, <3>2, <1>5 DEF TypeInv, CallInv
  <2>2. ASSUME NEW d \in Clients, phase'[d] # "idle"
        PROVE  /\ WellFormed(req'[d])
               /\ req'[d].op \in PutOps =>
                    /\ obj'[d] # None /\ obj'[d].key = req'[d].key
                    /\ obj'[d].ver = req'[d].ver
    <3> HIDE DEF i, ok, ans
    <3>1. phase[d] # "idle"
      BY <2>2, <1>1, <1>5 DEF TypeInv, TypeOK
    <3>2. QED
      BY <3>1, <1>5 DEF TypeInv, CallInv
  <2>3. ASSUME NEW d \in Clients, phase'[d] = "replied"
        PROVE  Answered(d)'
    <3>1. CASE phase[c] = "wait" /\ a.tag = sent[c] /\ d = c
               /\ reply' = [reply EXCEPT ![c] = ans]
      <4>1. r = req'[c] /\ reply'[c] = ans
        BY <3>1, <1>1, <1>5 DEF TypeInv, TypeOK, CallInv
      <4>2. /\ reply'[c].ok = ok /\ reply'[c].found = old /\ reply'[c].new = i
        BY <4>1
      <4>3. QED
        <5> HIDE DEF ans
        <5>1. r.op = "Get" => i = old
          BY <1>2
        <5>2. ok /\ r.op \in PutOps => i # None /\ i.ver = r.ver
          BY <1>2
        <5>3. ok /\ r.op = "Update" => i # None
          BY <1>2
        <5> HIDE DEF i, ok
        <5>4. QED
          BY <3>1, <4>1, <4>2, <5>1, <5>2, <5>3 DEF Answered
    <3>2. CASE phase'[d] = phase[d] /\ reply'[d] = reply[d]
      BY <3>2, <2>3, <1>5 DEF TypeInv, CallInv, Answered
    <3>3. QED
      <4> HIDE DEF i, ok, ans
      <4>1. QED
        BY <3>1, <3>2, <1>1, <1>5, <2>3 DEF TypeInv, TypeOK
  <2>4. QED
    BY <2>1, <2>2, <2>3 DEF CallInv
<1>8. QED
  BY <1>6, <1>7 DEF TypeInv

\* Ending a call, with whatever struct it leaves.
LEMMA EndCallType ==
  ASSUME TypeInv, NEW c \in Clients, EndCall(c),
         NEW o \in Struct \cup {None}, obj' = [obj EXCEPT ![c] = o]
  PROVE  TypeInv'
<1> USE DEF TypeInv, EndCall, store
<1>1. TypeOK'
  BY DEF TypeOK
<1>2. CallInv'
  <2>1. \A d \in Clients : phase'[d] # "idle" =>
          /\ d # c /\ phase'[d] = phase[d] /\ req'[d] = req[d]
          /\ reply'[d] = reply[d] /\ obj'[d] = obj[d]
    BY DEF TypeOK
  <2>2. \A a \in net : a.c \in Clients
    BY DEF TypeOK, Attempt
  <2>3. \A d \in Clients : phase'[d] = "replied" => Answered(d)'
    BY <2>1 DEF CallInv, Answered
  <2>4. QED
    BY <2>1, <2>2, <2>3 DEF CallInv
<1>3. QED
  BY <1>1, <1>2

LEMMA RestoredType ==
  ASSUME TypeInv, NEW c \in Clients, phase[c] # "idle", obj' = Restored(c)
  PROVE  \E o \in Struct \cup {None} : obj' = [obj EXCEPT ![c] = o]
<1>1. CASE req[c].op \in {"Put", "PutIfNotExists"}
  <2>1. obj[c] \in Struct /\ req[c].expected \in Nat
    BY <1>1 DEF TypeInv, TypeOK, CallInv, PutOps, Request
  <2>2. [obj[c] EXCEPT !.ver = req[c].expected] \in Struct
    BY <2>1 DEF Struct
  <2>3. obj' = [obj EXCEPT ![c] = [obj[c] EXCEPT !.ver = req[c].expected]]
    BY <1>1 DEF Restored
  <2>4. QED
    BY <2>2, <2>3
<1>2. CASE req[c].op \notin {"Put", "PutIfNotExists"}
  <2>1. obj' = [obj EXCEPT ![c] = obj[c]] /\ obj[c] \in Struct \cup {None}
    BY <1>2 DEF Restored, TypeInv, TypeOK
  <2>2. QED
    BY <2>1
<1>3. QED
  BY <1>1, <1>2

LEMMA StructOfType ==
  ASSUME NEW k \in Keys, NEW i \in Item
  PROVE  StructOf(k, i) \in Struct /\ SeenOf(i) \in Seen
<1>1. SeenOf(i) \in Seen
  BY DEF SeenOf, Seen, Item
<1>2. GoVer(i) \in Nat /\ i.val \in Vals
  BY DEF GoVer, Item, NoVer
<1>3. QED
  BY <1>1, <1>2 DEF StructOf, Struct

\* What a successful call leaves in its caller's struct.
LEMMA ReturnOkStruct ==
  ASSUME TypeInv, NEW c \in Clients, ReturnOk(c)
  PROVE  \/ /\ req[c].op \in {"Get", "Update"} /\ reply[c].new \in Item
            /\ obj' = [obj EXCEPT ![c] = StructOf(req[c].key, reply[c].new)]
         \/ /\ req[c].op \in PutOps /\ reply[c].new \in Item
            /\ obj[c] \in Struct
            /\ obj' = [obj EXCEPT ![c] =
                         [obj[c] EXCEPT !.seen = SeenOf(reply[c].new)]]
         \/ /\ req[c].op \in {"Delete", "TransactDelete"}
            /\ obj' = [obj EXCEPT ![c] = obj[c]]
<1> USE DEF TypeInv
<1>1. /\ phase[c] = "replied" /\ Result(c) = "ok" /\ req[c] \in Request
      /\ reply[c] \in Reply /\ WellFormed(req[c]) /\ Answered(c)
      /\ obj[c] \in Struct \cup {None}
      /\ req[c].op \in PutOps => obj[c] \in Struct
  BY DEF ReturnOk, TypeOK, CallInv
<1>2. CASE req[c].op \in {"Get", "Update"}
  <2>1. reply[c].new \in Item
    <3>1. reply[c].found \in Item \cup {None} /\ reply[c].new \in Item \cup {None}
      BY <1>1 DEF Reply
    <3>2. CASE req[c].op = "Get"
      <4>1. reply[c].new = reply[c].found
        BY <1>1, <3>2 DEF Answered
      <4>2. reply[c].found # None
        BY <1>1, <3>2 DEF Result
      <4>3. QED
        BY <3>1, <4>1, <4>2
    <3>3. CASE req[c].op = "Update"
      <4>1. reply[c].ok
        BY <1>1, <3>3 DEF Result, Refusal
      <4>2. reply[c].new # None
        BY <1>1, <3>3, <4>1 DEF Answered
      <4>3. QED
        BY <3>1, <4>2
    <3>4. QED
      BY <1>2, <3>2, <3>3
  <2>2. obj' = [obj EXCEPT ![c] = StructOf(req[c].key, reply[c].new)]
    BY <1>2 DEF ReturnOk, PutOps
  <2>3. QED
    BY <2>1, <2>2, <1>2
<1>3. CASE req[c].op \in PutOps
  <2>1. reply[c].ok
    BY <1>1, <1>3 DEF Result, Refusal, PutOps
  <2>2. reply[c].new \in Item
    BY <1>1, <1>3, <2>1 DEF Answered, Reply
  <2>3. obj' = [obj EXCEPT ![c].seen = SeenOf(reply[c].new)]
    BY <1>3 DEF ReturnOk, PutOps
  <2>4. QED
    BY <1>1, <1>3, <2>2, <2>3
<1>4. CASE req[c].op \notin {"Get", "Update"} \cup PutOps
  <2>1. req[c].op \in {"Delete", "TransactDelete"} /\ obj' = obj
    BY <1>4 DEF ReturnOk
  <2>2. QED
    BY <2>1 DEF TypeOK
<1>5. QED
  BY <1>2, <1>3, <1>4

LEMMA ReturnType ==
  ASSUME TypeInv, NEW c \in Clients,
         ReturnOk(c) \/ ReturnError(c) \/ Fail(c)
  PROVE  TypeInv'
<1>1. EndCall(c) /\ phase[c] # "idle"
  BY DEF ReturnOk, ReturnError, Fail
<1>2. \E o \in Struct \cup {None} : obj' = [obj EXCEPT ![c] = o]
  <2>1. CASE ReturnOk(c)
    <3>1. req[c] \in Request /\ obj[c] \in Struct \cup {None}
      BY <1>1 DEF TypeInv, TypeOK
    <3>2. req[c].key \in Keys
      BY <3>1 DEF Request
    <3>3. ASSUME reply[c].new \in Item
          PROVE  /\ StructOf(req[c].key, reply[c].new) \in Struct
                 /\ SeenOf(reply[c].new) \in Seen
      BY <3>2, <3>3, StructOfType
    <3>4. ASSUME obj[c] \in Struct, reply[c].new \in Item
          PROVE  [obj[c] EXCEPT !.seen = SeenOf(reply[c].new)] \in Struct
      BY <3>3, <3>4 DEF Struct
    <3>5. QED
      BY <2>1, <3>1, <3>3, <3>4, ReturnOkStruct
  <2>2. CASE ReturnError(c) \/ Fail(c)
    BY <1>1, <2>2, RestoredType DEF ReturnError, Fail
  <2>3. QED
    BY <2>1, <2>2
<1>3. QED
  BY <1>1, <1>2, EndCallType

LEMMA ApplyOneType ==
  ASSUME TypeInv, ApplyOne
  PROVE  TypeInv'
<1>1. \A a \in net : /\ table[a.r.key] \in Item \cup {None}
                     /\ replica[a.r.key] \in Item \cup {None}
  BY DEF TypeInv, TypeOK, Attempt, Request
<1>2. QED
  BY <1>1, ApplyType DEF ApplyOne

LEMMA TypeNext ==
  ASSUME TypeInv, [Next]_vars
  PROVE  TypeInv'
<1>1. ASSUME NEW c \in Clients, NEW k \in Keys,
             \/ Get(c, k)
             \/ Delete(c, k)
             \/ \E v \in Vals : NewStruct(c, k, v)
             \/ \E v \in Vals \cup {None} : Update(c, k, v)
      PROVE  TypeInv'
  BY <1>1, GetType, DeleteType, NewStructType, UpdateType
<1>2. ASSUME NEW c \in Clients, NEW v \in Vals,
             Put(c, v) \/ PutIfNotExists(c, v) \/ PutRefused(c, v) \/ BlindPut(c, v)
      PROVE  TypeInv'
  BY <1>2, PutType, PutIfNotExistsType, PutRefusedType, BlindPutType
<1>3. ASSUME NEW c \in Clients,
             Resend(c) \/ ReturnOk(c) \/ ReturnError(c) \/ Fail(c)
      PROVE  TypeInv'
  BY <1>3, ResendType, ReturnType
<1>4. CASE ApplyOne
  BY <1>4, ApplyOneType
<1>5. ASSUME NEW k \in Keys, Replicate(k)
      PROVE  TypeInv'
  BY <1>5, ReplicateType
<1>6. CASE UNCHANGED vars
  BY <1>6 DEF vars, TypeInv, TypeOK, CallInv, Answered
<1>7. QED
  BY <1>1, <1>2, <1>3, <1>4, <1>5, <1>6 DEF Next

\* Type correctness, with the shape of the calls in progress.
THEOREM TypeCorrect == Spec => [](TypeOK /\ CallInv)
<1>1. TypeInv /\ [Next]_vars => TypeInv'
  BY TypeNext
<1>2. TypeInv <=> TypeOK /\ CallInv
  BY DEF TypeInv
<1>3. QED
  BY TypeInit, <1>1, <1>2, PTL DEF Spec

------------------------------------------------------------------------------
(* The index key cannot drift from the field it is computed from, for any  *)
(* clients, keys, values and bounds, and whichever methods are used: every *)
(* request that carries the field carries its key, and no request carries  *)
(* a field that has none.                                                  *)

\* A request names the field and its index key together, or neither.
Indexed(r) ==
  /\ r.api = "PutItem" => r.idx = IndexKey[r.val]
  /\ r.api = "UpdateItem" /\ r.val = None => r.idx = None
  /\ r.api = "UpdateItem" /\ r.val # None =>
       r.idx = IndexKey[r.val] /\ r.idx # None

IndexInv ==
  /\ TypeInv
  /\ IndexInSync
  /\ \A a \in net : Indexed(a.r)
  /\ \A c \in Clients : phase[c] # "idle" => Indexed(req[c])

InSync(i) ==
  i # None => \/ i.idx = IndexKey[i.val]
              \/ i.set = 1 /\ i.idx = None

------------------------------------------------------------------------------
LEMMA IndexInit == Init => IndexInv
<1> SUFFICES ASSUME Init PROVE IndexInv
  OBVIOUS
<1>1. TypeInv
  BY TypeInit
<1>2. IndexInSync
  BY DEF Init, IndexInSync, LegacyItem
<1>3. QED
  BY <1>1, <1>2 DEF Init, IndexInv

\* Every request a method sends is indexed.
LEMMA SendsIndexed ==
  ASSUME NEW c \in Clients, NEW r, Indexed(r), Send(c, r), TypeInv,
         \A a \in net : Indexed(a.r),
         \A d \in Clients : phase[d] # "idle" => Indexed(req[d])
  PROVE  /\ \A a \in net' : Indexed(a.r)
         /\ \A d \in Clients : phase'[d] # "idle" => Indexed(req'[d])
<1>1. \A a \in net' : Indexed(a.r)
  <2>1. net' = net \cup {[c |-> c, tag |-> sent[c] + 1, r |-> r]}
    BY DEF Send, Transmit
  <2>2. QED
    BY <2>1
<1>2. ASSUME NEW d \in Clients, phase'[d] # "idle"
      PROVE  Indexed(req'[d])
  BY <1>2 DEF Send, Transmit, TypeInv, TypeOK
<1>3. QED
  BY <1>1, <1>2

LEMMA RequestsIndexed ==
  /\ \A k : Indexed(GetRequest(k)) /\ Indexed(TransactDeleteRequest(k))
  /\ \A o, v : /\ Indexed(PutRequest(o, v))
               /\ Indexed(PutIfNotExistsRequest(o, v))
               /\ Indexed(BatchPutRequest(o, v))
               /\ Indexed(TransactPutRequest(o, v))
  /\ \A k, cond, o : Indexed(DeleteRequest(k, cond, o))
  /\ \A k, o : \A v \in Vals \cup {None} :
       (v # None => Encodes(v)) =>
         Indexed(UpdateRequest(k, v)) /\ Indexed(GuardedUpdateRequest(o, v))
<1>1. \A k : Indexed(GetRequest(k)) /\ Indexed(TransactDeleteRequest(k))
  BY DEF GetRequest, TransactDeleteRequest, Bare, Indexed
<1>2. \A o, v : /\ Indexed(PutRequest(o, v))
                /\ Indexed(PutIfNotExistsRequest(o, v))
  BY DEF PutRequest, PutIfNotExistsRequest, Image, Indexed
<1>3. \A o, v : /\ Indexed(BatchPutRequest(o, v))
                /\ Indexed(TransactPutRequest(o, v))
  BY DEF BatchPutRequest, TransactPutRequest, Image, Indexed
<1>4. \A k, cond, o : Indexed(DeleteRequest(k, cond, o))
  BY DEF DeleteRequest, Bare, Indexed
<1>5. \A k, o : \A v \in Vals \cup {None} :
        (v # None => Encodes(v)) =>
          Indexed(UpdateRequest(k, v)) /\ Indexed(GuardedUpdateRequest(o, v))
  BY DEF UpdateRequest, GuardedUpdateRequest, Changing, Bare, Encodes, Indexed
<1>6. QED
  BY <1>1, <1>2, <1>3, <1>4, <1>5

\* A write leaves an item in sync with its index.
LEMMA WriteInSync ==
  ASSUME NEW r \in Request, WellFormed(r), Indexed(r), NEW w \in Nat,
         NEW i \in Item \cup {None}, InSync(i), CondHolds(r, i)
  PROVE  InSync(After(r, i, w))
<1>1. CASE r.api \in {"GetItem", "DeleteItem"}
  BY <1>1 DEF After, InSync
<1>2. CASE r.api = "PutItem"
  <2>1. After(r, i, w) = Stored(r, i, w) /\ r.idx = IndexKey[r.val]
    BY <1>2 DEF After, Indexed
  <2>2. QED
    BY <2>1 DEF Stored, InSync
<1>3. CASE r.api = "UpdateItem"
  <2>1. After(r, i, w) = Updated(r, i, w)
    BY <1>3 DEF After
  <2>2. i # None
    BY <1>3 DEF WellFormed, CondHolds
  <2>3. CASE r.val = None
    <3>1. r.idx = None
      BY <1>3, <2>3 DEF Indexed
    <3>2. /\ Updated(r, i, w).val = i.val /\ Updated(r, i, w).idx = i.idx
          /\ Updated(r, i, w).set = i.set
      BY <2>3, <3>1 DEF Updated
    <3>3. QED
      BY <2>1, <2>2, <3>2 DEF InSync
  <2>4. CASE r.val # None
    <3>1. r.idx = IndexKey[r.val] /\ r.idx # None
      BY <1>3, <2>4 DEF Indexed
    <3>2. Updated(r, i, w).val = r.val /\ Updated(r, i, w).idx = r.idx
      BY <2>4, <3>1 DEF Updated
    <3>3. QED
      BY <2>1, <3>1, <3>2 DEF InSync
  <2>5. QED
    BY <2>3, <2>4
<1>4. QED
  BY <1>1, <1>2, <1>3 DEF Request

LEMMA ApplyInSync ==
  ASSUME IndexInv, NEW a \in net, NEW old,
         old = table[a.r.key] \/ a.r.api = "GetItem", Apply(a, old)
  PROVE  IndexInSync'
<1>1. /\ a.r \in Request /\ a.r.key \in Keys /\ WellFormed(a.r)
      /\ Indexed(a.r) /\ writes + 1 \in Nat /\ TypeOK
  BY DEF IndexInv, TypeInv, TypeOK, CallInv, Attempt, Request
<1>2. \A k \in Keys : InSync(table[k])
  BY DEF IndexInv, IndexInSync, InSync
<1>3. \A k \in Keys : InSync(table'[k])
  <2>1. CASE CondHolds(a.r, old) /\ a.r.api # "GetItem"
    <3>1. /\ old = table[a.r.key] /\ old \in Item \cup {None}
          /\ table' = [table EXCEPT ![a.r.key] = After(a.r, old, writes + 1)]
      BY <1>1, <2>1 DEF Apply, TypeOK
    <3>2. InSync(After(a.r, old, writes + 1))
      BY <1>1, <1>2, <2>1, <3>1, WriteInSync
    <3>3. QED
      BY <1>1, <1>2, <3>1, <3>2 DEF TypeOK
  <2>2. CASE ~(CondHolds(a.r, old) /\ a.r.api # "GetItem")
    BY <1>2, <2>2 DEF Apply
  <2>3. QED
    BY <2>1, <2>2
<1>4. QED
  BY <1>3 DEF IndexInSync, InSync

\* Steps other than the table's leave the items alone.
LEMMA IndexUntouched ==
  ASSUME IndexInSync, UNCHANGED table
  PROVE  IndexInSync'
BY DEF IndexInSync

LEMMA IndexNext ==
  ASSUME IndexInv, [Next]_vars
  PROVE  IndexInv'
<1>1. TypeInv'
  BY TypeNext DEF IndexInv
<1>2. ASSUME NEW c \in Clients, NEW r, Indexed(r), Send(c, r)
      PROVE  IndexInv'
  <2>1. UNCHANGED table
    BY <1>2 DEF Send, store
  <2>2. QED
    BY <1>1, <1>2, <2>1, SendsIndexed, IndexUntouched DEF IndexInv
<1>3. ASSUME NEW c \in Clients, NEW k \in Keys,
             \/ Get(c, k)
             \/ Delete(c, k)
             \/ \E v \in Vals \cup {None} : Update(c, k, v)
      PROVE  IndexInv'
  BY <1>2, <1>3, RequestsIndexed DEF Get, Delete, Update
<1>4. ASSUME NEW c \in Clients, NEW v \in Vals,
             Put(c, v) \/ PutIfNotExists(c, v) \/ BlindPut(c, v)
      PROVE  IndexInv'
  BY <1>2, <1>4, RequestsIndexed DEF Put, PutIfNotExists, BlindPut
<1>5. ASSUME UNCHANGED <<table, net, phase, req>>
      PROVE  IndexInv'
  BY <1>1, <1>5, IndexUntouched DEF IndexInv
<1>6. ASSUME NEW c \in Clients, NEW v \in Vals,
             PutRefused(c, v) \/ \E k \in Keys : NewStruct(c, k, v)
      PROVE  IndexInv'
  BY <1>5, <1>6 DEF PutRefused, NewStruct, store
<1>7. ASSUME NEW k \in Keys, Replicate(k)
      PROVE  IndexInv'
  BY <1>5, <1>7 DEF Replicate
<1>8. ASSUME NEW c \in Clients, Resend(c)
      PROVE  IndexInv'
  <2>1. /\ UNCHANGED <<table, req>> /\ phase[c] # "idle"
        /\ net' = net \cup {[c |-> c, tag |-> sent[c] + 1, r |-> req[c]]}
        /\ \A d \in Clients : d # c => phase'[d] = phase[d]
    BY <1>8 DEF Resend, Transmit, store, IndexInv, TypeInv, TypeOK
  <2>2. QED
    BY <1>1, <2>1, IndexUntouched DEF IndexInv
<1>9. ASSUME NEW c \in Clients, ReturnOk(c) \/ ReturnError(c) \/ Fail(c)
      PROVE  IndexInv'
  <2>1. /\ UNCHANGED <<table, net>>
        /\ \A d \in Clients : phase'[d] # "idle" =>
             phase'[d] = phase[d] /\ req'[d] = req[d]
    BY <1>9 DEF ReturnOk, ReturnError, Fail, EndCall, store, IndexInv, TypeInv,
                TypeOK
  <2>2. QED
    BY <1>1, <2>1, IndexUntouched DEF IndexInv
<1>10. ASSUME NEW a \in net, NEW old,
              old = table[a.r.key] \/ a.r.api = "GetItem", Apply(a, old)
       PROVE  IndexInv'
  <2>1. /\ net' = net \ {a} /\ req' = req
        /\ \A d \in Clients : phase'[d] # "idle" => phase[d] # "idle"
    BY <1>10 DEF Apply, IndexInv, TypeInv, TypeOK, Attempt
  <2>2. QED
    BY <1>1, <1>10, <2>1, ApplyInSync DEF IndexInv
<1>11. CASE UNCHANGED vars
  BY <1>5, <1>11 DEF vars
<1>12. QED
  BY <1>3, <1>4, <1>6, <1>7, <1>8, <1>9, <1>10, <1>11 DEF Next, ApplyOne

\* "The index cannot drift" (README.md, Run's setters and marshal): in every
\* reachable state each stored item has the index key of its own value, or
\* none, if the item is older than the index and no client has written the
\* field since.
THEOREM IndexNeverDrifts == Spec => []IndexInSync
<1>1. IndexInv /\ [Next]_vars => IndexInv'
  BY IndexNext
<1>2. IndexInv => IndexInSync
  BY DEF IndexInv
<1>3. QED
  BY IndexInit, <1>1, <1>2, PTL DEF Spec
==============================================================================
