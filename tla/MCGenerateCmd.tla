---------------------------- MODULE MCGenerateCmd ----------------------------
(***************************************************************************)
(* A finite instance of GenerateCmd: a package with an entity that gains   *)
(* an index, changes its key or is renamed, and a second package whose     *)
(* changes are breaking or cannot be rendered.                             *)
(***************************************************************************)
EXTENDS GenerateCmd

Entity(type, pk, indexes) ==
  [type |-> type, et |-> "_et", version |-> "Ver", ttl |-> "", pk |-> pk,
   sk |-> NoSK, indexes |-> indexes, patterns |-> <<>>,
   fields |-> [ID |-> [attr |-> "id", type |-> "string"]]]

GSI1(pk) == [GSI1 |-> [pk |-> pk, sk |-> NoSK, projection |-> "all"]]

MCDrafts == {"plain", "indexed", "rekeyed", "log", "clash"}
Order == Entity("order", "ORDER#{ID}", <<>>)
MCSchema ==
  [plain   |-> [app |-> [Order |-> Order]],
   indexed |-> [app |-> [Order |-> Entity("order", "ORDER#{ID}", GSI1("STATUS#{Status}")),
                        Bill |-> Entity("bill", "BILL#{ID}", <<>>)]],
   rekeyed |-> [app |-> [Order |-> Entity("order", "ORDER#{ID}", GSI1("ST#{Status}"))]],
   log     |-> [log |-> [Event |-> Entity("event", "EVENT#{ID}", <<>>)]],
   clash   |-> [log |-> [Event |-> Entity("event", "EVENT#{ID}", <<>>),
                        Events |-> Entity("events", "EVENTS#{ID}", <<>>)]]]

\* Two indexes of a table whose names differ only in case do not fit it.
MCLowerName == [GSI1 |-> "gsi1", Gsi1 |-> "gsi1"]
ASSUME CaseClash ==
  ~Fits([Order |-> Entity("order", "ORDER#{ID}", GSI1("STATUS#{Status}")),
         Bill |-> Entity("bill", "BILL#{ID}",
                         [Gsi1 |-> [pk |-> "DUE#{Due}", sk |-> NoSK, projection |-> "all"]])])

MCDraftsOf == <<{"log", "clash"}, {"plain", "indexed", "rekeyed"}>>
MCHandWritten == {<<"entity", "KeepMe">>}

------------------------------------------------------------------------------
(* Statements of the documentation that the code does not keep.            *)

\* run.go 106-108: "so a renamed or removed entity cannot leave an
\* uncompilable orphan behind".
NoOrphan ==
  phase = "done" =>
    \A d \in dirs : \A n \in Names \ Files(src[d]) : files[d][n] \in {Missing, Foreign}

\* README.md 121-124: "ddbgen diff ./... fails (exit 1) on breaking schema
\* changes against the committed snapshot (changed key templates, removed
\* entities or patterns, ...)".
DiffSeesRemovals ==
  Resting /\ DiffPasses(Dirs) =>
    \A d \in Dirs : snapshot[d] \in Drafts =>
      \E e \in Dirs : src[e] \in Drafts
        /\ Removed(Schema[snapshot[d]], Schema[src[e]]) = {}
==============================================================================
