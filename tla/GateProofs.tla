------------------------------ MODULE GateProofs ------------------------------
(***************************************************************************)
(* The gate of ddbgen generate, for any directories, schemas and number of *)
(* failures: a run that writes has been cleared everywhere (AllOrNothing), *)
(* a failed run can be repeated (CanRepeat), unless the gate is overridden *)
(* no schema gets past it whose code would miss stored items (StoredFound) *)
(* and no snapshot is ahead of the generated code (SnapshotMatchesFiles).  *)
(***************************************************************************)
EXTENDS GenerateCmd, WellFoundedInduction, TLAPS

------------------------------------------------------------------------------
(* Schemas.                                                                *)

\* A schema is no breaking change of itself.
LEMMA SameIsNotBreaking == \A s : ~HasBreaking(s, s)
<1>1. \A t : ~TableBroken(t, t)
  BY DEF TableBroken, EntityBroken, Removed, Common
<1>2. QED
  BY <1>1 DEF HasBreaking, Removed, Common

\* What an entity finds, it still finds after a change that is not breaking.
LEMMA EntityStillFinds ==
  ASSUME NEW o, NEW n, NEW item, FoundBy(o, item), ~EntityBroken(o, n)
  PROVE  FoundBy(n, item)
<1>1. /\ n.pk = item.pk /\ n.sk = item.sk
      /\ n.et = item.et /\ n.type = item.type
  BY DEF FoundBy, EntityBroken
<1>2. ASSUME NEW ix \in DOMAIN item.keys
      PROVE  /\ ix \in DOMAIN n.indexes
             /\ item.keys[ix] = <<n.indexes[ix].pk, n.indexes[ix].sk>>
  <2>1. /\ ix \in DOMAIN o.indexes
        /\ item.keys[ix] = <<o.indexes[ix].pk, o.indexes[ix].sk>>
    BY <1>2 DEF FoundBy
  <2>2. ix \in DOMAIN n.indexes
    BY <2>1 DEF EntityBroken, Removed
  <2>3. o.indexes[ix].pk = n.indexes[ix].pk /\ o.indexes[ix].sk = n.indexes[ix].sk
    BY <2>1, <2>2 DEF EntityBroken, Common
  <2>4. QED
    BY <2>1, <2>2, <2>3
<1>3. QED
  BY <1>1, <1>2 DEF FoundBy

LEMMA StillFinds ==
  ASSUME NEW old, NEW new, NEW item, Finds(old, item), ~HasBreaking(old, new)
  PROVE  Finds(new, item)
<1> DEFINE t == item.table
<1>1. PICK e \in DOMAIN old[t] : FoundBy(old[t][e], item)
  BY DEF Finds
<1>2. t \in DOMAIN old /\ t \in DOMAIN new
  BY DEF Finds, HasBreaking, Removed
<1>3. ~TableBroken(old[t], new[t])
  BY <1>2 DEF HasBreaking, Common
<1>4. e \in DOMAIN new[t]
  BY <1>3 DEF TableBroken, Removed
<1>5. ~EntityBroken(old[t][e], new[t][e])
  BY <1>3, <1>4 DEF TableBroken, Common
<1>6. FoundBy(new[t][e], item)
  BY <1>1, <1>5, EntityStillFinds
<1>7. QED
  BY <1>2, <1>4, <1>6 DEF Finds

\* The code of a schema finds what it has written itself.
LEMMA FindsOwn ==
  ASSUME NEW s, NEW item \in Written(s)
  PROVE  Finds(s, item)
<1>1. PICK t \in DOMAIN s : item \in {Item(t, s[t][e]) : e \in DOMAIN s[t]}
  BY DEF Written
<1>2. PICK e \in DOMAIN s[t] : item = Item(t, s[t][e])
  BY <1>1
<1>3. item.table = t /\ FoundBy(s[t][e], item)
  BY <1>2 DEF Item, FoundBy
<1>4. QED
  BY <1>1, <1>3 DEF Finds

------------------------------------------------------------------------------
\* Among directories to do there is a first one.
LEMMA FirstIsThere ==
  ASSUME NEW ds, ds \subseteq Nat, ds # {}
  PROVE  First(ds) \in ds
<1> DEFINE less == {ss \in Nat \X Nat : ss[1] < ss[2]}
<1>1. IsWellFoundedOn(less, Nat)
  BY NatLessThanWellFounded DEF OpToRel
<1>2. PICK d \in ds : \A e \in ds : ~(<<e, d>> \in less)
  <2> HIDE DEF less
  <2> QED BY <1>1, WFMin
<1>3. ASSUME NEW e \in ds
      PROVE  d <= e
  <2>1. d \in Nat /\ e \in Nat /\ ~(<<e, d>> \in less)
    BY <1>2, <1>3
  <2>2. ASSUME e < d PROVE FALSE
    <3>1. <<e, d>> \in Nat \X Nat /\ <<e, d>>[1] < <<e, d>>[2]
      BY <2>1, <2>2
    <3>2. QED
      BY <2>1, <3>1
  <2>3. QED
    BY <2>1, <2>2
<1>4. QED
  BY <1>3 DEF First

------------------------------------------------------------------------------
(* Type correctness.                                                       *)

Busy == phase \in {"check", "write", "snapshot"}

\* A run that goes on has a directory to do.
RunOK == TypeOK /\ (Busy => todo # {})

LEMMA TodoHasFirst ==
  ASSUME RunOK, Busy
  PROVE  First(todo) \in todo /\ First(todo) \in dirs /\ First(todo) \in Dirs
<1>1. todo # {} /\ todo \subseteq dirs /\ dirs \subseteq Dirs /\ todo \subseteq Nat
  BY DirsAssumption DEF RunOK, TypeOK
<1>2. First(todo) \in todo
  BY <1>1, FirstIsThere
<1>3. QED
  BY <1>1, <1>2

LEMMA FilesAreNames == \A s \in Drafts : Files(s) \subseteq Names
  BY DEF Names

LEMMA RunInit == Init => RunOK
<1> SUFFICES ASSUME Init PROVE RunOK
  OBVIOUS
<1>1. src \in [Dirs -> Drafts \cup {Bare, Broken}]
  BY DEF Init
<1>2. files \in [Dirs -> [Names -> Drafts \cup {Missing, Cut, Torn, Foreign}]]
  BY DEF Init
<1>3. /\ snapshot \in [Dirs -> Drafts \cup {None, Unreadable}]
      /\ stored \in [Dirs -> SUBSET Drafts]
  BY DEF Init
<1>4. failures \in 0..MaxFailures
  BY BoundAssumption DEF Init
<1>5. QED
  BY <1>1, <1>2, <1>3, <1>4 DEF Init, RunOK, TypeOK, Phases, Busy

LEMMA RunDeveloper == RunOK /\ Developer => RunOK'
<1> SUFFICES ASSUME RunOK, NEW d \in Dirs,
                    \/ \E s \in DraftsOf[d] \cup {Bare, Broken} : Edit(d, s)
                    \/ DeleteSnapshot(d)
                    \/ Deploy(d)
             PROVE  RunOK'
  BY DEF Developer
<1>1. ASSUME NEW s \in DraftsOf[d] \cup {Bare, Broken}, Edit(d, s)
      PROVE  RunOK'
  <2>1. s \in Drafts \cup {Bare, Broken}
    BY DraftsAssumption
  <2>2. QED
    BY <1>1, <2>1 DEF RunOK, TypeOK, Edit, Idle, disk, Phases, Busy
<1>2. CASE DeleteSnapshot(d)
  BY <1>2 DEF RunOK, TypeOK, DeleteSnapshot, Idle, Phases, Busy
<1>3. CASE Deploy(d)
  BY <1>3 DEF RunOK, TypeOK, Deploy, Idle, disk, Phases, Busy
<1>4. QED
  BY <1>1, <1>2, <1>3

LEMMA RunGenerate ==
  ASSUME RunOK, NEW packages \in SUBSET Dirs, NEW forced \in BOOLEAN,
         Generate(packages, forced)
  PROVE  RunOK'
<1>1. CASE Loads(packages)
  <2>1. /\ Annotated(packages) \subseteq Dirs /\ Annotated(packages) # {}
        /\ \A d \in Annotated(packages) : src[d] \in Drafts
    BY <1>1 DEF RunOK, TypeOK, Loads, Annotated
  <2>2. QED
    BY <1>1, <2>1 DEF RunOK, TypeOK, Generate, disk, Phases, Busy
<1>2. CASE ~Loads(packages)
  BY <1>2 DEF RunOK, TypeOK, Generate, disk, Phases, Busy
<1>3. QED
  BY <1>1, <1>2

LEMMA RunCheck == RunOK /\ CheckDir => RunOK'
<1> SUFFICES ASSUME RunOK, CheckDir PROVE RunOK'
  OBVIOUS
<1> DEFINE d == First(todo)
<1>1. Busy /\ d \in todo
  BY TodoHasFirst DEF CheckDir, Busy
<1>2. CASE phase' = "refused" /\ todo' = {} /\ UNCHANGED left
  BY <1>2 DEF RunOK, TypeOK, CheckDir, disk, Phases, Busy
<1>3. CASE phase' = "write" /\ todo' = dirs /\ left' = Files(src[First(dirs)])
  <2>1. dirs # {} /\ dirs \subseteq Nat
    BY <1>1, DirsAssumption DEF RunOK, TypeOK
  <2>2. src[First(dirs)] \in Drafts
    BY <2>1, FirstIsThere DEF RunOK, TypeOK
  <2>3. QED
    BY <1>3, <2>1, <2>2, FilesAreNames DEF RunOK, TypeOK, CheckDir, disk, Phases, Busy
<1>4. CASE todo # {d} /\ todo' = todo \ {d} /\ UNCHANGED <<phase, left>>
  <2>1. todo' # {}
    BY <1>1, <1>4
  <2>2. QED
    BY <1>4, <2>1 DEF RunOK, TypeOK, CheckDir, disk, Phases, Busy
<1>5. QED
  BY <1>2, <1>3, <1>4 DEF CheckDir

\* Whatever a step puts in one file of the current directory.
LEMMA FileTyped ==
  ASSUME RunOK, NEW d \in Dirs, NEW n \in Names,
         NEW content \in Drafts \cup {Missing, Cut, Torn, Foreign}
  PROVE  [files EXCEPT ![d][n] = content]
           \in [Dirs -> [Names -> Drafts \cup {Missing, Cut, Torn, Foreign}]]
  BY DEF RunOK, TypeOK

LEMMA RunWrite ==
  RunOK /\ (WriteFile \/ FailFile \/ RemoveStale \/ FailStale) => RunOK'
<1> SUFFICES ASSUME RunOK, WriteFile \/ FailFile \/ RemoveStale \/ FailStale
             PROVE  RunOK'
  OBVIOUS
<1>1. Busy
  BY DEF WriteFile, FailFile, RemoveStale, FailStale, Busy
<1>2. Here \in Dirs /\ src[Here] \in Drafts
  BY <1>1, TodoHasFirst DEF Here, RunOK, TypeOK
<1>3. CASE WriteFile
  <2>1. PICK n \in left : /\ files' = [files EXCEPT ![Here][n] = src[Here]]
                          /\ left' = left \ {n}
    BY <1>3 DEF WriteFile
  <2>2. files' \in [Dirs -> [Names -> Drafts \cup {Missing, Cut, Torn, Foreign}]]
    BY <1>2, <2>1, FileTyped DEF RunOK, TypeOK
  <2>3. left' \subseteq Names
    BY <2>1 DEF RunOK, TypeOK
  <2>4. QED
    BY <1>3, <2>2, <2>3 DEF WriteFile, RunOK, TypeOK, Busy
<1>4. CASE FailFile
  <2>1. PICK n \in left : \E content \in {files[Here][n], Cut, Torn} :
                            files' = [files EXCEPT ![Here][n] = content]
    BY <1>4 DEF FailFile
  <2>2. n \in Names /\ files[Here][n] \in Drafts \cup {Missing, Cut, Torn, Foreign}
    BY <1>2 DEF RunOK, TypeOK
  <2>3. files' \in [Dirs -> [Names -> Drafts \cup {Missing, Cut, Torn, Foreign}]]
    BY <1>2, <2>1, <2>2, FileTyped
  <2>4. QED
    BY <1>4, <2>3, BoundAssumption DEF FailFile, Failed, RunOK, TypeOK, Phases, Busy
<1>5. ASSUME NEW names, Remove(names)
      PROVE  files' \in [Dirs -> [Names -> Drafts \cup {Missing, Cut, Torn, Foreign}]]
  BY <1>2, <1>5 DEF Remove, RunOK, TypeOK
<1>6. CASE RemoveStale
  BY <1>5, <1>6 DEF RemoveStale, RunOK, TypeOK, Phases, Busy
<1>7. CASE FailStale
  <2>1. files' \in [Dirs -> [Names -> Drafts \cup {Missing, Cut, Torn, Foreign}]]
    BY <1>5, <1>7 DEF FailStale
  <2>2. QED
    BY <1>7, <2>1, BoundAssumption DEF FailStale, Failed, RunOK, TypeOK, Phases, Busy
<1>8. QED
  BY <1>3, <1>4, <1>6, <1>7

LEMMA RunSnapshot == RunOK /\ (WriteSnapshot \/ FailSnapshot) => RunOK'
<1> SUFFICES ASSUME RunOK, WriteSnapshot \/ FailSnapshot PROVE RunOK'
  OBVIOUS
<1>1. Busy
  BY DEF WriteSnapshot, FailSnapshot, Busy
<1>2. Here \in Dirs /\ Here \in todo /\ src[Here] \in Drafts
  BY <1>1, TodoHasFirst DEF Here, RunOK, TypeOK
<1>3. CASE WriteSnapshot
  <2>1. /\ snapshot' \in [Dirs -> Drafts \cup {None, Unreadable}]
        /\ stored' \in [Dirs -> SUBSET Drafts]
        /\ todo' = todo \ {Here}
    BY <1>2, <1>3 DEF WriteSnapshot, RunOK, TypeOK
  <2>2. CASE todo' = {}
    BY <1>3, <2>1, <2>2 DEF WriteSnapshot, RunOK, TypeOK, Phases, Busy
  <2>3. CASE todo' # {}
    <3>1. todo' \subseteq dirs /\ todo' \subseteq Nat
      BY <2>1, DirsAssumption DEF RunOK, TypeOK
    <3>2. src[First(todo')] \in Drafts
      BY <2>3, <3>1, FirstIsThere DEF RunOK, TypeOK
    <3>3. left' \subseteq Names
      BY <1>3, <2>3, <3>2, FilesAreNames DEF WriteSnapshot
    <3>4. QED
      BY <1>3, <2>1, <2>3, <3>3 DEF WriteSnapshot, RunOK, TypeOK, Phases, Busy
  <2>4. QED
    BY <2>2, <2>3
<1>4. CASE FailSnapshot
  <2>1. snapshot' \in [Dirs -> Drafts \cup {None, Unreadable}]
    BY <1>4 DEF FailSnapshot, RunOK, TypeOK
  <2>2. QED
    BY <1>4, <2>1, BoundAssumption DEF FailSnapshot, Failed, RunOK, TypeOK, Phases, Busy
<1>5. QED
  BY <1>3, <1>4

\* Every state of the command and of the directories is of its type.
THEOREM GateTypeCorrect == Spec => []TypeOK
<1>1. RunOK /\ [Next]_vars => RunOK'
  <2> SUFFICES ASSUME RunOK, [Next]_vars PROVE RunOK'
    OBVIOUS
  <2>1. CASE UNCHANGED vars
    BY <2>1 DEF RunOK, TypeOK, Busy, vars, disk
  <2>2. CASE Next
    BY <2>2, RunDeveloper, RunGenerate, RunCheck, RunWrite, RunSnapshot DEF Next
  <2>3. QED
    BY <2>1, <2>2
<1>2. RunOK => TypeOK
  BY DEF RunOK
<1>3. QED
  BY RunInit, <1>1, <1>2, PTL DEF Spec

------------------------------------------------------------------------------
(* The gate.                                                               *)

Writing == phase \in {"write", "snapshot"}
Committed == phase \in {"write", "snapshot", "failed", "done"}

Cleared(d) == Passes(before[d], src[d], force) /\ src[d] \notin Unrenderable

\* The directories not yet to do in the first phase are cleared, all of them
\* are in the second; what the run found is what is there until it is
\* replaced, by what the run writes or by half of it.
GateInv ==
  /\ RunOK
  /\ phase = "check" =>
       before = snapshot /\ \A d \in dirs \ todo : Cleared(d)
  /\ AllOrNothing
  /\ Writing => \A d \in todo : snapshot[d] = before[d]
  /\ Committed => \A d \in dirs : snapshot[d] \in {before[d], src[d], Unreadable}

LEMMA GateInit == Init => GateInv
  BY RunInit DEF Init, GateInv, AllOrNothing, Writing, Committed

LEMMA GateDeveloper == GateInv /\ Developer => GateInv'
<1> SUFFICES ASSUME GateInv, Developer PROVE GateInv'
  OBVIOUS
<1>1. phase' = "idle"
  BY DEF Developer, Edit, DeleteSnapshot, Deploy, Idle
<1>2. RunOK'
  BY RunDeveloper DEF GateInv
<1>3. QED
  BY <1>1, <1>2 DEF GateInv, AllOrNothing, Writing, Committed

LEMMA GateGenerate ==
  ASSUME GateInv, NEW packages \in SUBSET Dirs, NEW forced \in BOOLEAN,
         Generate(packages, forced)
  PROVE  GateInv'
<1>1. RunOK'
  BY RunGenerate DEF GateInv
<1>2. phase' \in {"check", "refused"} /\ before' = snapshot' /\ dirs' = todo'
  BY DEF Generate, disk
<1>3. QED
  BY <1>1, <1>2 DEF GateInv, AllOrNothing, Writing, Committed

LEMMA GateCheck == GateInv /\ CheckDir => GateInv'
<1> SUFFICES ASSUME GateInv, CheckDir PROVE GateInv'
  OBVIOUS
<1> DEFINE d == First(todo)
<1>1. RunOK'
  BY RunCheck DEF GateInv
<1>2. /\ phase = "check" /\ before = snapshot
      /\ \A e \in dirs \ todo : Cleared(e)
      /\ UNCHANGED <<src, snapshot, force, dirs, before>>
  BY DEF CheckDir, GateInv, disk
<1>3. CASE phase' = "refused" /\ todo' = {}
  BY <1>1, <1>3 DEF GateInv, AllOrNothing, Writing, Committed
<1>4. CASE Passes(snapshot[d], src[d], force) /\ src[d] \notin Unrenderable
  <2>1. Cleared(d)
    BY <1>2, <1>4 DEF Cleared
  <2>2. \A e \in dirs : Cleared(e) <=> Cleared(e)'
    BY <1>2 DEF Cleared
  <2>3. CASE todo = {d} /\ phase' = "write" /\ todo' = dirs
    <3>1. \A e \in dirs : Cleared(e)
      BY <1>2, <2>1, <2>3
    <3>2. AllOrNothing'
      BY <1>2, <3>1, <2>2 DEF AllOrNothing, Cleared
    <3>3. QED
      BY <1>1, <1>2, <2>3, <3>2 DEF GateInv, Writing, Committed
  <2>4. CASE todo' = todo \ {d} /\ phase' = "check"
    <3>1. \A e \in dirs \ todo' : Cleared(e)'
      BY <1>2, <2>1, <2>2, <2>4
    <3>2. QED
      BY <1>1, <1>2, <2>4, <3>1 DEF GateInv, AllOrNothing, Writing, Committed
  <2>5. QED
    BY <1>2, <1>4, <2>3, <2>4 DEF CheckDir
<1>5. QED
  BY <1>3, <1>4 DEF CheckDir

LEMMA GateWrite ==
  GateInv /\ (WriteFile \/ FailFile \/ RemoveStale \/ FailStale) => GateInv'
<1> SUFFICES ASSUME GateInv, WriteFile \/ FailFile \/ RemoveStale \/ FailStale
             PROVE  GateInv'
  OBVIOUS
<1>1. RunOK'
  BY RunWrite DEF GateInv
<1>2. /\ Writing /\ Committed /\ phase' \in {"write", "snapshot", "failed"}
      /\ UNCHANGED <<src, snapshot, force, dirs, before>>
      /\ todo' = todo \/ todo' = {}
  BY DEF WriteFile, FailFile, RemoveStale, FailStale, Failed, Writing, Committed
<1>3. \A d \in dirs : Cleared(d)'
  BY <1>2 DEF GateInv, AllOrNothing, Cleared, Committed
<1>4. AllOrNothing'
  BY <1>2, <1>3 DEF AllOrNothing, Cleared
<1>5. QED
  BY <1>1, <1>2, <1>4 DEF GateInv, Writing, Committed

LEMMA GateSnapshot == GateInv /\ (WriteSnapshot \/ FailSnapshot) => GateInv'
<1> SUFFICES ASSUME GateInv, WriteSnapshot \/ FailSnapshot PROVE GateInv'
  OBVIOUS
<1>1. RunOK'
  BY RunSnapshot DEF GateInv
<1>2. /\ Writing /\ Committed /\ phase' \in {"write", "failed", "done"}
      /\ UNCHANGED <<src, force, dirs, before>>
      /\ todo' = todo \ {Here} \/ todo' = {}
  BY DEF WriteSnapshot, FailSnapshot, Failed, Writing, Committed
<1>3. \A d \in Dirs : \/ snapshot'[d] = snapshot[d]
                      \/ d = Here /\ snapshot'[d] \in {src[d], Unreadable}
  BY DEF WriteSnapshot, FailSnapshot, GateInv, RunOK, TypeOK
<1>4. \A d \in dirs : Cleared(d)'
  BY <1>2 DEF GateInv, AllOrNothing, Cleared, Committed
<1>5. AllOrNothing'
  BY <1>2, <1>4 DEF AllOrNothing, Cleared
<1>6. \A d \in todo' : snapshot'[d] = before'[d]
  BY <1>2, <1>3 DEF GateInv, RunOK, TypeOK
<1>7. \A d \in dirs' : snapshot'[d] \in {before'[d], src'[d], Unreadable}
  BY <1>2, <1>3 DEF GateInv, RunOK, TypeOK
<1>8. QED
  BY <1>1, <1>2, <1>5, <1>6, <1>7 DEF GateInv

LEMMA GateStep == GateInv /\ [Next]_vars => GateInv'
<1> SUFFICES ASSUME GateInv, [Next]_vars PROVE GateInv'
  OBVIOUS
<1>1. CASE UNCHANGED vars
  BY <1>1 DEF GateInv, RunOK, TypeOK, Busy, vars, disk, AllOrNothing, Passes,
              Cleared, Writing, Committed
<1>2. CASE Next
  BY <1>2, GateDeveloper, GateGenerate, GateCheck, GateWrite, GateSnapshot DEF Next
<1>3. QED
  BY <1>1, <1>2

\* A run that has begun to write, finished or not, passed the gate and was
\* rendered in all of its directories: a refusal in one writes nothing in any.
THEOREM RefusalWritesNothing == Spec => []AllOrNothing
<1>1. GateInv => AllOrNothing
  BY DEF GateInv
<1>2. QED
  BY GateInit, GateStep, <1>1, PTL DEF Spec

\* A run that failed while writing may be repeated as it was, unless it left
\* half a snapshot behind.
THEOREM FailedRunCanRepeat == Spec => []CanRepeat
<1>1. GateInv => CanRepeat
  <2> SUFFICES ASSUME GateInv, phase = "failed", NEW d \in dirs,
                      snapshot[d] # Unreadable
               PROVE  Passes(snapshot[d], src[d], force)
    BY DEF CanRepeat
  <2>1. Passes(before[d], src[d], force) /\ snapshot[d] \in {before[d], src[d]}
    BY DEF GateInv, AllOrNothing, Committed
  <2>2. CASE snapshot[d] = src[d]
    <3>1. src[d] \in Drafts
      BY DEF GateInv, RunOK, TypeOK
    <3>2. QED
      BY <2>2, <3>1, SameIsNotBreaking DEF Passes
  <2>3. QED
    BY <2>1, <2>2
<1>2. QED
  BY GateInit, GateStep, <1>1, PTL DEF Spec

------------------------------------------------------------------------------
(* What is stored.                                                         *)

Covers(new, old) == \A item \in Written(Schema[old]) : Finds(Schema[new], item)

\* The schema of a snapshot covers every schema items were stored under, and
\* without a snapshot nothing counts as stored.
StoredInv ==
  /\ GateInv
  /\ \A d \in Dirs :
       /\ snapshot[d] = None => stored[d] = {}
       /\ snapshot[d] \in Drafts => \A s \in stored[d] : Covers(snapshot[d], s)

LEMMA StoredInit == Init => StoredInv
<1> SUFFICES ASSUME Init PROVE StoredInv
  OBVIOUS
<1>1. \A d \in Dirs : stored[d] = {}
  BY DEF Init
<1>2. QED
  BY <1>1, GateInit DEF StoredInv

\* A schema that passes the gate covers what the one before it covers.
LEMMA CoversOn ==
  ASSUME NEW old \in Drafts, NEW new, NEW s,
         Passes(old, new, FALSE), Covers(old, s)
  PROVE  Covers(new, s)
<1>1. old # None
  BY NamesAssumption
<1>2. ~HasBreaking(Schema[old], Schema[new])
  BY <1>1 DEF Passes
<1>3. QED
  BY <1>2, StillFinds DEF Covers

LEMMA StoredDeveloper == StoredInv /\ Developer => StoredInv'
<1> SUFFICES ASSUME StoredInv, NEW d \in Dirs,
                    \/ \E s \in DraftsOf[d] \cup {Bare, Broken} : Edit(d, s)
                    \/ DeleteSnapshot(d)
                    \/ Deploy(d)
             PROVE  StoredInv'
  BY DEF Developer
<1>1. GateInv'
  BY GateDeveloper DEF StoredInv, Developer
<1>2. CASE UNCHANGED <<snapshot, stored>>
  BY <1>1, <1>2 DEF StoredInv, Covers
<1>3. CASE DeleteSnapshot(d)
  <2>1. \A e \in Dirs : \/ snapshot'[e] = snapshot[e] /\ stored'[e] = stored[e]
                        \/ snapshot'[e] = None /\ stored'[e] = {}
    BY <1>3 DEF DeleteSnapshot, StoredInv, GateInv, RunOK, TypeOK
  <2>2. QED
    BY <1>1, <2>1 DEF StoredInv, Covers
<1>4. CASE Deploy(d)
  <2>1. /\ snapshot' = snapshot /\ snapshot[d] = src[d] /\ src[d] \in Drafts
        /\ \A e \in Dirs : stored'[e] = IF e = d THEN stored[e] \cup {src[d]}
                                                 ELSE stored[e]
    BY <1>4 DEF Deploy, disk, StoredInv, GateInv, RunOK, TypeOK
  <2>2. Covers(src[d], src[d])
    BY FindsOwn DEF Covers
  <2>3. snapshot[d] # None
    BY <2>1, NamesAssumption
  <2>4. \A e \in Dirs :
          /\ snapshot'[e] = None => stored'[e] = {}
          /\ snapshot'[e] \in Drafts => \A s \in stored'[e] : Covers(snapshot'[e], s)
    BY <2>1, <2>2, <2>3 DEF StoredInv
  <2>5. QED
    BY <1>1, <2>4 DEF StoredInv, Covers
<1>5. QED
  BY <1>2, <1>3, <1>4 DEF Edit, disk

LEMMA StoredSnapshot == StoredInv /\ (WriteSnapshot \/ FailSnapshot) => StoredInv'
<1> SUFFICES ASSUME StoredInv, WriteSnapshot \/ FailSnapshot PROVE StoredInv'
  OBVIOUS
<1> DEFINE d == Here
<1>1. GateInv'
  BY GateSnapshot DEF StoredInv
<1>2. Busy /\ RunOK /\ Writing
  BY DEF WriteSnapshot, FailSnapshot, Busy, Writing, StoredInv, GateInv
<1>3. d \in todo /\ d \in dirs /\ d \in Dirs
  BY <1>2, TodoHasFirst DEF Here
<1>4. src[d] \in Drafts /\ snapshot[d] = before[d] /\ Passes(before[d], src[d], force)
  BY <1>2, <1>3 DEF RunOK, TypeOK, StoredInv, GateInv, AllOrNothing, Writing
<1>5. CASE FailSnapshot
  <2>1. /\ stored' = stored
        /\ \A e \in Dirs : snapshot'[e] \in {snapshot[e], Unreadable}
    BY <1>5 DEF FailSnapshot, RunOK, TypeOK, StoredInv, GateInv
  <2>2. Unreadable \notin Drafts /\ Unreadable # None
    BY NamesAssumption DEF Unreadable, None
  <2>3. QED
    BY <1>1, <2>1, <2>2 DEF StoredInv, Covers
<1>6. CASE WriteSnapshot
  <2>1. /\ \A e \in Dirs : snapshot'[e] = IF e = d THEN src[d] ELSE snapshot[e]
        /\ \A e \in Dirs : e # d => stored'[e] = stored[e]
        /\ stored'[d] = IF force THEN {} ELSE stored[d]
    BY <1>2, <1>3, <1>6 DEF WriteSnapshot, RunOK, TypeOK
  <2>2. ASSUME NEW s \in stored'[d] PROVE Covers(src[d], s)
    <3>1. ~force /\ s \in stored[d]
      BY <2>1, <2>2
    <3>2. snapshot[d] \in Drafts
      BY <1>3, <1>4, <3>1 DEF StoredInv, Passes
    <3>3. Covers(snapshot[d], s)
      BY <1>3, <3>1, <3>2 DEF StoredInv
    <3>4. Passes(snapshot[d], src[d], FALSE)
      BY <1>4, <3>1 DEF Passes
    <3>5. QED
      BY <3>2, <3>3, <3>4, CoversOn
  <2>3. src[d] # None
    BY <1>4, NamesAssumption
  <2>4. \A e \in Dirs :
          /\ snapshot'[e] = None => stored'[e] = {}
          /\ snapshot'[e] \in Drafts => \A s \in stored'[e] : Covers(snapshot'[e], s)
    BY <2>1, <2>2, <2>3 DEF StoredInv
  <2>5. QED
    BY <1>1, <2>4 DEF StoredInv, Covers
<1>7. QED
  BY <1>5, <1>6

LEMMA StoredStep == StoredInv /\ [Next]_vars => StoredInv'
<1> SUFFICES ASSUME StoredInv, [Next]_vars PROVE StoredInv'
  OBVIOUS
<1>1. GateInv'
  BY GateStep DEF StoredInv
<1>2. CASE UNCHANGED <<snapshot, stored>>
  BY <1>1, <1>2 DEF StoredInv, Covers
<1>3. CASE Developer
  BY <1>3, StoredDeveloper
<1>4. CASE WriteSnapshot \/ FailSnapshot
  BY <1>4, StoredSnapshot
<1>5. QED
  BY <1>2, <1>3, <1>4
     DEF Next, vars, disk, Generate, CheckDir, WriteFile, RemoveStale, FailFile, FailStale

\* Unless the gate was overridden, by --force or by deleting a snapshot, the
\* code of any schema it lets through finds every item stored through earlier
\* code.
THEOREM WhatIsStoredIsFound == Spec => []StoredFound
<1>1. StoredInv => StoredFound
  <2> SUFFICES ASSUME StoredInv, NEW d \in Dirs,
                      snapshot[d] \in Drafts, Passes(snapshot[d], src[d], FALSE),
                      NEW s \in stored[d]
               PROVE  Covers(src[d], s)
    BY DEF StoredFound, Covers
  <2>1. Covers(snapshot[d], s)
    BY DEF StoredInv
  <2>2. QED
    BY <2>1, CoversOn
<1>2. QED
  BY StoredInit, StoredStep, <1>1, PTL DEF Spec

------------------------------------------------------------------------------
(* Files and snapshots.                                                    *)

\* The files of the current directory that are no longer to be written are as
\* rendered, and before its snapshot is written nothing stale is left.
FilesInv ==
  /\ RunOK
  /\ phase = "write" =>
       /\ left \subseteq Files(src[Here])
       /\ \A n \in Files(src[Here]) \ left : files[Here][n] = src[Here]
  /\ phase = "snapshot" => Current(files[Here], src[Here])

LEMMA FilesInit == Init => FilesInv
  BY RunInit DEF Init, FilesInv

\* No step of the developer, of the first phase or of a failure leaves the run
\* in the middle of a directory.
LEMMA FilesOutside ==
  ASSUME FilesInv, RunOK',
         phase' \notin {"write", "snapshot"}
  PROVE  FilesInv'
  BY DEF FilesInv

\* A directory is begun with all of its files to be written.
LEMMA FilesBegun ==
  ASSUME RunOK', phase' = "write", src' = src,
         left' = Files(src[First(todo')])
  PROVE  FilesInv'
  BY DEF FilesInv, Here

LEMMA FilesWritten == FilesInv /\ WriteFile => FilesInv'
<1> SUFFICES ASSUME FilesInv, WriteFile PROVE FilesInv'
  OBVIOUS
<1>1. RunOK'
  BY RunWrite DEF FilesInv
<1>2. /\ phase = "write" /\ phase' = "write" /\ src' = src /\ todo' = todo
      /\ Here' = Here
  BY DEF WriteFile, Here
<1>3. Here \in Dirs
  BY <1>2, TodoHasFirst DEF FilesInv, Busy, Here
<1>4. PICK n \in left : /\ files' = [files EXCEPT ![Here][n] = src[Here]]
                        /\ left' = left \ {n}
  BY DEF WriteFile
<1>5. \A m \in Names : files'[Here][m] = IF m = n THEN src[Here] ELSE files[Here][m]
  BY <1>3, <1>4 DEF FilesInv, RunOK, TypeOK
<1>6. Files(src[Here]) \subseteq Names
  BY <1>2, TodoHasFirst, FilesAreNames DEF FilesInv, RunOK, TypeOK, Busy, Here
<1>7. \A m \in Files(src[Here]) \ left' : files'[Here][m] = src[Here]
  BY <1>2, <1>4, <1>5, <1>6 DEF FilesInv
<1>8. left' \subseteq Files(src[Here])
  BY <1>2, <1>4 DEF FilesInv
<1>9. QED
  BY <1>1, <1>2, <1>7, <1>8 DEF FilesInv

\* With every file written and the stale ones gone, the directory is current.
LEMMA StaleGone == FilesInv /\ RemoveStale => FilesInv'
<1> SUFFICES ASSUME FilesInv, RemoveStale PROVE FilesInv'
  OBVIOUS
<1>1. RunOK'
  BY RunWrite DEF FilesInv
<1>2. /\ phase = "write" /\ phase' = "snapshot" /\ left = {}
      /\ src' = src /\ Here' = Here
  BY DEF RemoveStale, Here
<1>3. Here \in Dirs
  BY <1>2, TodoHasFirst DEF FilesInv, Busy, Here
<1>4. \A n \in Names : files'[Here][n] = IF n \in Stale THEN Missing ELSE files[Here][n]
  BY <1>3 DEF RemoveStale, Remove, FilesInv, RunOK, TypeOK
<1>5. ASSUME NEW n \in Names, n \in Files(src[Here])
      PROVE  files'[Here][n] = src[Here]
  BY <1>2, <1>4, <1>5 DEF Stale, FilesInv
<1>6. ASSUME NEW n \in Names, n \notin Files(src[Here])
      PROVE  files'[Here][n] \in {Missing, Cut, Foreign}
  <2>1. files[Here][n] \in Drafts \cup {Missing, Cut, Torn, Foreign}
    BY <1>3 DEF FilesInv, RunOK, TypeOK
  <2>2. QED
    BY <1>4, <1>6, <2>1 DEF Stale
<1>7. Current(files'[Here], src[Here])
  BY <1>5, <1>6 DEF Current
<1>8. QED
  BY <1>1, <1>2, <1>7 DEF FilesInv

LEMMA FilesCheck == FilesInv /\ CheckDir => FilesInv'
<1> SUFFICES ASSUME FilesInv, CheckDir PROVE FilesInv'
  OBVIOUS
<1>1. RunOK'
  BY RunCheck DEF FilesInv
<1>2. phase = "check" /\ src' = src
  BY DEF CheckDir
<1>3. CASE phase' = "write" /\ todo' = dirs /\ left' = Files(src[First(dirs)])
  BY <1>1, <1>2, <1>3, FilesBegun
<1>4. CASE phase' \in {"refused", "check"}
  BY <1>1, <1>4, FilesOutside
<1>5. QED
  BY <1>2, <1>3, <1>4 DEF CheckDir

LEMMA FilesSnapshot == FilesInv /\ WriteSnapshot => FilesInv'
<1> SUFFICES ASSUME FilesInv, WriteSnapshot PROVE FilesInv'
  OBVIOUS
<1>1. RunOK'
  BY RunSnapshot DEF FilesInv
<1>2. CASE phase' = "done"
  BY <1>1, <1>2, FilesOutside
<1>3. CASE phase' = "write" /\ left' = Files(src[First(todo')])
  BY <1>1, <1>3, FilesBegun DEF WriteSnapshot
<1>4. QED
  BY <1>2, <1>3 DEF WriteSnapshot

LEMMA FilesStep == FilesInv /\ [Next]_vars => FilesInv'
<1> SUFFICES ASSUME FilesInv, [Next]_vars PROVE FilesInv'
  OBVIOUS
<1>1. RunOK'
  <2>1. CASE UNCHANGED vars
    BY <2>1 DEF FilesInv, RunOK, TypeOK, Busy, vars, disk
  <2>2. CASE Next
    BY <2>2, RunDeveloper, RunGenerate, RunCheck, RunWrite, RunSnapshot
       DEF Next, FilesInv
  <2>3. QED
    BY <2>1, <2>2
<1>2. CASE UNCHANGED vars
  BY <1>1, <1>2 DEF FilesInv, vars, disk, Here, Current
<1>3. CASE Developer
  <2>1. phase' = "idle"
    BY <1>3 DEF Developer, Edit, DeleteSnapshot, Deploy, Idle
  <2>2. QED
    BY <1>1, <2>1, FilesOutside
<1>4. ASSUME NEW packages \in SUBSET Dirs \ {{}}, NEW forced \in BOOLEAN,
             Generate(packages, forced)
      PROVE  FilesInv'
  <2>1. phase' \in {"check", "refused"}
    BY <1>4 DEF Generate
  <2>2. QED
    BY <1>1, <2>1, FilesOutside
<1>5. CASE FailFile \/ FailStale \/ FailSnapshot
  <2>1. phase' = "failed"
    BY <1>5 DEF FailFile, FailStale, FailSnapshot, Failed
  <2>2. QED
    BY <1>1, <2>1, FilesOutside
<1>6. QED
  BY <1>2, <1>3, <1>4, <1>5, FilesCheck, FilesWritten, StaleGone, FilesSnapshot
     DEF Next

\* Whatever runs failed before, and at whatever point: in the step that
\* replaces the snapshot of a directory by another schema, every file of that
\* schema is as rendered and no other file is one ddbgen knows for its own.
THEOREM SnapshotIsNotAhead == Spec => SnapshotMatchesFiles
<1> DEFINE Step ==
      \A d \in Dirs :
        snapshot'[d] \in Drafts /\ snapshot'[d] # snapshot[d]
          => Current(files'[d], snapshot'[d])
<1>1. FilesInv /\ [Next]_vars => [Step]_vars
  <2> SUFFICES ASSUME FilesInv, Next,
                      NEW d \in Dirs,
                      snapshot'[d] \in Drafts, snapshot'[d] # snapshot[d]
               PROVE  Current(files'[d], snapshot'[d])
    OBVIOUS
  <2>1. /\ None \notin Drafts
        /\ Unreadable \notin Drafts
    BY NamesAssumption
  <2>2. CASE Developer
    <3>1. \A e \in Dirs : snapshot'[e] \in {snapshot[e], None}
      BY <2>2 DEF Developer, Edit, DeleteSnapshot, Deploy, disk, FilesInv, RunOK, TypeOK
    <3>2. QED
      BY <2>1, <3>1
  <2>3. CASE FailSnapshot
    <3>1. \A e \in Dirs : snapshot'[e] \in {snapshot[e], Unreadable}
      BY <2>3 DEF FailSnapshot, FilesInv, RunOK, TypeOK
    <3>2. QED
      BY <2>1, <3>1
  <2>4. CASE WriteSnapshot
    <3>1. /\ phase = "snapshot" /\ files' = files
          /\ snapshot' = [snapshot EXCEPT ![Here] = src[Here]]
      BY <2>4 DEF WriteSnapshot
    <3>2. d = Here /\ snapshot'[d] = src[Here]
      BY <3>1 DEF FilesInv, RunOK, TypeOK
    <3>3. QED
      BY <3>1, <3>2 DEF FilesInv
  <2>5. CASE UNCHANGED snapshot
    BY <2>5
  <2>6. QED
    BY <2>2, <2>3, <2>4, <2>5
       DEF Next, Generate, CheckDir, WriteFile, RemoveStale, FailFile, FailStale, disk
<1>2. QED
  BY FilesInit, FilesStep, <1>1, PTL DEF Spec, SnapshotMatchesFiles
==============================================================================
