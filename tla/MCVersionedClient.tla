-------------------------- MODULE MCVersionedClient --------------------------
(***************************************************************************)
(* Finite instances of VersionedClient.  The index key is the upper-cased  *)
(* status (gsi1 pk=STATUS#{Status:upper} in examples/ecommerce/model.go),  *)
(* so two statuses share one key, and an empty status has none             *)
(* (runtime.CheckSegment refuses it).                                      *)
(***************************************************************************)
EXTENDS VersionedClient, TLC

CONSTANTS open, OPEN, paid, empty

MCVals == {open, OPEN, paid, empty}
MCIndexKeys == {"OPEN", "PAID"}
MCIndexKey ==
  [v \in MCVals |-> CASE v \in {open, OPEN} -> "OPEN"
                      [] v = paid -> "PAID"
                      [] v = empty -> None]
MCOneVal == {paid}
MCOneIndexKey == [v \in MCOneVal |-> "PAID"]

------------------------------------------------------------------------------
(* What the documentation says of the methods; the code does otherwise.    *)

\* "ErrVersionConflict is returned when [..] the item changed since it was
\* read" (runtime.go:56-58): a Put refused with it finds another write than
\* the one its caller read.  An item stored at version zero is read as one
\* that must not exist.
PutConflictMeansChanged ==
  \A c \in Clients :
    phase[c] = "replied" /\ req[c].op = "Put"
      /\ Result(c) = "ErrVersionConflict"
      => Wid(reply[c].found) # req[c].seen.wid

\* The clients differ only in name.
Symmetry == Permutations(Clients)
==============================================================================
