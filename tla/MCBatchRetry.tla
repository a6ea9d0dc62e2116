----------------------------- MODULE MCBatchRetry -----------------------------
(***************************************************************************)
(* Finite instances of BatchRetry: every list of up to MaxLen keys.        *)
(***************************************************************************)
EXTENDS BatchRetry, TLC

CONSTANT MaxLen

MCInputs == BoundedSeq(Keys, MaxLen)

\* "UnprocessedError [..] carries the leftovers so callers can retry them"
\* (batch.go:20-22): whatever the call was given is either done or among the
\* leftovers.  The chunks after the one that ran out of attempts are neither.
NothingForgotten ==
  pc = "returned" /\ result = "UnprocessedError" =>
    \A k \in ToSet(asked) : handled[k] = 1 \/ k \in ToSet(leftover)
==============================================================================
