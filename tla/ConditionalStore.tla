-------------------------- MODULE ConditionalStore --------------------------
(***************************************************************************)
(* What optimistic locking promises, with no version numbers in sight: a   *)
(* key holds one write at a time, and an operation that names the write    *)
(* it expects takes effect exactly when that write is still the current    *)
(* one.  The expected write is 0 for an item that must not exist.          *)
(***************************************************************************)
EXTENDS Integers

CONSTANTS
  Keys,
  Ids      \* names of operations

VARIABLES
  current,   \* the write each key holds, 0 when it has no item
  pending,   \* operations submitted and not yet decided
  count      \* writes so far

vars == <<current, pending, count>>

Kinds == {"put", "replace", "create", "touch"}
Operation == [id: Ids, key: Keys, kind: Kinds, base: Nat]

TypeOK ==
  /\ current \in [Keys -> Nat]
  /\ pending \subseteq Operation
  /\ count \in Nat

Init ==
  /\ current \in [Keys -> {0, 1}]
  /\ pending = {}
  /\ count = 1

\* When an operation may take effect on a key that holds write w.
Admitted(o, w) ==
  \/ o.kind = "put" /\ w = o.base
  \/ o.kind = "replace" /\ w = o.base /\ w # 0
  \/ o.kind = "create" /\ w = 0
  \/ o.kind = "touch" /\ w # 0

Submit(id, key, kind, base) ==
  /\ \A o \in pending : o.id # id
  /\ pending' = pending \cup
       {[id |-> id, key |-> key, kind |-> kind, base |-> base]}
  /\ UNCHANGED <<current, count>>

Commit(o) ==
  /\ Admitted(o, current[o.key])
  /\ current' = [current EXCEPT ![o.key] = count + 1]
  /\ count' = count + 1
  /\ pending' = pending \ {o}

Reject(o) ==
  /\ ~Admitted(o, current[o.key])
  /\ pending' = pending \ {o}
  /\ UNCHANGED <<current, count>>

\* An operation names a write that has happened; one that is neither
\* committed nor rejected was lost.
Next ==
  \/ \E o \in pending : Commit(o) \/ Reject(o)
  \/ \E id \in Ids, key \in Keys, kind \in Kinds, base \in 0..count :
       Submit(id, key, kind, base)

Spec == Init /\ [][Next]_vars
==============================================================================
