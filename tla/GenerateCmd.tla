----------------------------- MODULE GenerateCmd -----------------------------
(***************************************************************************)
(* ddbgen generate (cmd/ddbgen/run.go): the gate against breaking changes, *)
(* the files it writes beside the annotated packages and the snapshots,    *)
(* with a write that fails or a kill at any moment, and a developer who    *)
(* edits, reruns, forces and deploys in between.                           *)
(*                                                                         *)
(* One run at a time.  A run reads the sources once, at its start, so      *)
(* edits during a run count as made after it.                              *)
(***************************************************************************)
EXTENDS SchemaDiff, Integers, FiniteSets

CONSTANTS
  Dirs,         \* package directories, numbered in the order of their names
  Drafts,       \* what the markers of a package may say
  Schema,       \* the schema each draft compiles to
  DraftsOf,     \* the drafts of each directory
  Unrenderable, \* drafts codegen.Generate refuses
  HandWritten,  \* names of hand-written files that end in _gen.go
  MaxFailures   \* bounds the failures of one behaviour

ASSUME DirsAssumption == Dirs \subseteq Nat
ASSUME BoundAssumption == MaxFailures \in Nat
ASSUME DraftsAssumption ==
  /\ DraftsOf \in [Dirs -> SUBSET Drafts]
  /\ Unrenderable \subseteq Drafts
  /\ DOMAIN Schema = Drafts
  /\ \A s \in Drafts : \A t \in DOMAIN Schema[s] : Fits(Schema[s][t])

\* Sources without markers, and ones that do not load (a syntax error, a
\* finding of the analysis).
Bare == "bare"
Broken == "broken"

\* A snapshot that is not there, or that ReadSnapshot refuses (cut short, of
\* another format version, without a schema).
None == "none"
Unreadable == "unreadable"

\* A file that is not there, one cut before the end of the generated-code
\* header or after it, and one that somebody wrote.
Missing == "missing"
Cut == "cut"
Torn == "torn"
Foreign == "foreign"

ASSUME NamesAssumption ==
  Drafts \cap {Bare, Broken, None, Unreadable, Missing, Cut, Torn, Foreign} = {}

\* The files Generate renders: one for each table and each entity.
Files(s) ==
  {<<"table", t>> : t \in DOMAIN Schema[s]}
    \cup UNION {{<<"entity", e>> : e \in DOMAIN Schema[s][t]} : t \in DOMAIN Schema[s]}

Names == UNION {Files(s) : s \in Drafts} \cup HandWritten

VARIABLES
  src,       \* the sources of each directory
  files,     \* its *_gen.go files; what ddbgen rendered is told by its draft
  snapshot,  \* its ddb.snapshot.json
  phase,     \* of the run, or how the last one ended
  force,     \* --force
  dirs,      \* directories of the run (the keys of byDir)
  todo,      \* those not yet done in this phase
  left,      \* files of the current directory still to be written
  before,    \* the snapshots the run found
  stored,    \* drafts whose code has written items, by directory
  failures   \* how many runs have failed in their writes

disk == <<files, snapshot>>
vars == <<src, disk, phase, force, dirs, todo, left, before, stored,
          failures>>

Phases == {"idle", "check", "write", "snapshot", "refused", "failed", "done"}
Resting == phase \in {"idle", "refused", "failed", "done"}

TypeOK ==
  /\ src \in [Dirs -> Drafts \cup {Bare, Broken}]
  /\ files \in [Dirs -> [Names -> Drafts \cup {Missing, Cut, Torn, Foreign}]]
  /\ snapshot \in [Dirs -> Drafts \cup {None, Unreadable}]
  /\ phase \in Phases /\ force \in BOOLEAN
  /\ dirs \subseteq Dirs /\ todo \subseteq dirs
  /\ \A d \in dirs : src[d] \in Drafts
  /\ left \subseteq Names /\ (left # {} => phase = "write")
  /\ before \in [Dirs -> Drafts \cup {None, Unreadable}]
  /\ stored \in [Dirs -> SUBSET Drafts]
  /\ failures \in 0..MaxFailures

Init ==
  /\ src \in [Dirs -> Drafts] /\ \A d \in Dirs : src[d] \in DraftsOf[d]
  /\ files = [d \in Dirs |-> [n \in Names |->
                                IF n \in HandWritten THEN Foreign ELSE Missing]]
  /\ snapshot = [d \in Dirs |-> None]
  /\ phase = "idle" /\ force = FALSE
  /\ dirs = {} /\ todo = {} /\ left = {}
  /\ before = snapshot
  /\ stored = [d \in Dirs |-> {}]
  /\ failures = 0

------------------------------------------------------------------------------
(* The developer, between runs.                                            *)

Idle ==
  /\ phase' = "idle" /\ force' = FALSE
  /\ dirs' = {} /\ todo' = {} /\ left' = {} /\ before' = snapshot'
  /\ UNCHANGED failures

Edit(d, s) ==
  /\ Resting
  /\ src' = [src EXCEPT ![d] = s]
  /\ UNCHANGED <<disk, stored>>
  /\ Idle

\* Without a snapshot the next run is a first one.  What happens to the items
\* is then the developer's affair, as with --force.
DeleteSnapshot(d) ==
  /\ Resting
  /\ snapshot' = [snapshot EXCEPT ![d] = None]
  /\ stored' = [stored EXCEPT ![d] = {}]
  /\ UNCHANGED <<src, files>>
  /\ Idle

\* Every file of the draft is as rendered, and no other one is ddbgen's.
Current(content, s) ==
  \A n \in Names :
    IF n \in Files(s) THEN content[n] = s ELSE content[n] \in {Missing, Cut, Foreign}

\* A tree that is in step is deployed, and items are written.
Deploy(d) ==
  /\ Resting
  /\ src[d] \in Drafts /\ snapshot[d] = src[d] /\ Current(files[d], src[d])
  /\ stored' = [stored EXCEPT ![d] = @ \cup {src[d]}]
  /\ UNCHANGED <<src, disk>>
  /\ Idle

------------------------------------------------------------------------------
(* loadSchemas.                                                            *)

\* Mutant of Annotated: a package without markers is not skipped.
AllOf(packages) == packages

Annotated(packages) == {d \in packages : src[d] # Bare}

\* All entities of one table must live in one package.
Spans(ds) ==
  \E d, e \in ds : d # e /\ Common(Schema[src[d]], Schema[src[e]]) # {}

Loads(packages) ==
  /\ \A d \in packages : src[d] # Broken
  /\ Annotated(packages) # {}
  /\ ~Spans(Annotated(packages))

First(ds) == CHOOSE d \in ds : \A e \in ds : d <= e

Generate(packages, forced) ==
  /\ Resting
  /\ left' = {} /\ before' = snapshot
  /\ IF Loads(packages)
     THEN /\ phase' = "check" /\ force' = forced
          /\ dirs' = Annotated(packages) /\ todo' = Annotated(packages)
     ELSE /\ phase' = "refused" /\ force' = FALSE
          /\ dirs' = {} /\ todo' = {}
  /\ UNCHANGED <<src, disk, stored, failures>>

------------------------------------------------------------------------------
(* First phase: the gate, and rendering.                                   *)

\* Mutant of Passes: a snapshot that cannot be read is taken for a first run.
PassesUnread(old, s, forced) ==
  old \in Drafts => forced \/ ~HasBreaking(Schema[old], Schema[s])

\* checkSnapshot and what runGenerate makes of its report.
Passes(old, s, forced) ==
  \/ old = None
  \/ old \in Drafts /\ (forced \/ ~HasBreaking(Schema[old], Schema[s]))

\* Mutant of CheckDir: what was checked before the refusal is written.
CheckDirWriting ==
  /\ phase = "check"
  /\ LET d == First(todo)
     IN  IF ~Passes(snapshot[d], src[d], force) \/ src[d] \in Unrenderable
         THEN IF todo = dirs
              THEN phase' = "refused" /\ todo' = {} /\ UNCHANGED left
              ELSE /\ phase' = "write" /\ todo' = dirs \ todo
                   /\ left' = Files(src[First(dirs)])
         ELSE IF todo = {d}
         THEN phase' = "write" /\ todo' = dirs /\ left' = Files(src[First(dirs)])
         ELSE todo' = todo \ {d} /\ UNCHANGED <<phase, left>>
  /\ UNCHANGED <<src, disk, force, dirs, before, stored, failures>>

CheckDir ==
  /\ phase = "check"
  /\ LET d == First(todo)
     IN  IF ~Passes(snapshot[d], src[d], force) \/ src[d] \in Unrenderable
         THEN phase' = "refused" /\ todo' = {} /\ UNCHANGED left
         ELSE IF todo = {d}
         THEN phase' = "write" /\ todo' = dirs /\ left' = Files(src[First(dirs)])
         ELSE todo' = todo \ {d} /\ UNCHANGED <<phase, left>>
  /\ UNCHANGED <<src, disk, force, dirs, before, stored, failures>>

------------------------------------------------------------------------------
(* Second phase: for each directory the files, the stale ones, and the     *)
(* snapshot last.  os.WriteFile truncates before it writes.                *)

Here == First(todo)

Failed ==
  /\ failures < MaxFailures /\ failures' = failures + 1
  /\ phase' = "failed" /\ left' = {} /\ todo' = {}

\* In some order: nothing looks at the files between two writes.
WriteFile ==
  /\ phase = "write"
  /\ \E n \in left :
       /\ files' = [files EXCEPT ![Here][n] = src[Here]]
       /\ left' = left \ {n}
  /\ UNCHANGED <<src, snapshot, phase, force, dirs, todo, before, stored, failures>>

\* Mutant of FailFile: the error of a write is dropped.
FailFileOn ==
  /\ phase = "write"
  /\ \E n \in left : \E content \in {files[Here][n], Cut, Torn} :
       /\ files' = [files EXCEPT ![Here][n] = content]
       /\ left' = left \ {n}
  /\ UNCHANGED <<src, snapshot, phase, force, dirs, todo, before, stored, failures>>

FailFile ==
  /\ phase = "write"
  /\ \E n \in left : \E content \in {files[Here][n], Cut, Torn} :
       files' = [files EXCEPT ![Here][n] = content]
  /\ Failed
  /\ UNCHANGED <<src, snapshot, force, dirs, before, stored>>

\* Files that are not of this run and begin with the header.
Stale == {n \in Names \ Files(src[Here]) : files[Here][n] \in Drafts \cup {Torn}}

Remove(names) ==
  files' = [files EXCEPT ![Here] = [n \in Names |-> IF n \in names THEN Missing ELSE @[n]]]

RemoveStale ==
  /\ phase = "write" /\ left = {}
  /\ Remove(Stale)
  /\ phase' = "snapshot"
  /\ UNCHANGED <<src, snapshot, force, dirs, todo, left, before, stored, failures>>

FailStale ==
  /\ phase = "write" /\ left = {}
  /\ \E some \in SUBSET Stale : Remove(some)
  /\ Failed
  /\ UNCHANGED <<src, snapshot, force, dirs, before, stored>>

\* An accepted breaking change leaves the stored items to the developer.
WriteSnapshot ==
  /\ phase = "snapshot"
  /\ snapshot' = [snapshot EXCEPT ![Here] = src[Here]]
  /\ stored' = IF force THEN [stored EXCEPT ![Here] = {}] ELSE stored
  /\ todo' = todo \ {Here}
  /\ IF todo' = {} THEN phase' = "done" /\ UNCHANGED left
     ELSE phase' = "write" /\ left' = Files(src[First(todo')])
  /\ UNCHANGED <<src, files, force, dirs, before, failures>>

FailSnapshot ==
  /\ phase = "snapshot"
  /\ snapshot' \in {snapshot, [snapshot EXCEPT ![Here] = Unreadable]}
  /\ Failed
  /\ UNCHANGED <<src, files, force, dirs, before, stored>>

------------------------------------------------------------------------------
Developer ==
  \E d \in Dirs :
    \/ \E s \in DraftsOf[d] \cup {Bare, Broken} : Edit(d, s)
    \/ DeleteSnapshot(d)
    \/ Deploy(d)

Next ==
  \/ Developer
  \/ \E packages \in SUBSET Dirs \ {{}}, forced \in BOOLEAN : Generate(packages, forced)
  \/ CheckDir
  \/ WriteFile \/ RemoveStale \/ WriteSnapshot
  \/ FailFile \/ FailStale \/ FailSnapshot

Spec == Init /\ [][Next]_vars

------------------------------------------------------------------------------
(* ddbgen diff over some packages: reads only, so what it says is a        *)
(* function of the state (runDiff).                                        *)

DiffPasses(packages) ==
  /\ Loads(packages)
  /\ \A d \in Annotated(packages) :
       snapshot[d] # None /\ Passes(snapshot[d], src[d], FALSE)

------------------------------------------------------------------------------
(* Properties.                                                             *)

\* A run that writes anything, wherever it is cut off, has passed the gate
\* and been rendered in every one of its directories: a refusal in one leaves
\* all of them as they were.
AllOrNothing ==
  phase \in {"write", "snapshot", "failed", "done"} =>
    \A d \in dirs : Passes(before[d], src[d], force) /\ src[d] \notin Unrenderable

\* A snapshot is replaced only once every file of its schema is in place and
\* no older file that ddbgen knows for its own is left, whatever an earlier
\* run left behind: a snapshot is never ahead of the generated code.
SnapshotMatchesFiles ==
  [][\A d \in Dirs :
       snapshot'[d] \in Drafts /\ snapshot'[d] # snapshot[d]
         => Current(files'[d], snapshot'[d])]_vars

\* A run that failed half-way can be repeated with the same flags: it is not
\* held up by what it wrote itself, unless a snapshot was cut short.
CanRepeat ==
  phase = "failed" =>
    \A d \in dirs : snapshot[d] # Unreadable => Passes(snapshot[d], src[d], force)

\* Whatever edits, runs and failures came before: as long as the gate was not
\* overridden, the code of any schema that passes it finds every item stored
\* through earlier code, on the table and in the indexes the item is in.
StoredFound ==
  \A d \in Dirs :
    src[d] \in Drafts /\ snapshot[d] \in Drafts /\ Passes(snapshot[d], src[d], FALSE) =>
      \A s \in stored[d] : \A item \in Written(Schema[s]) : Finds(Schema[src[d]], item)
==============================================================================
