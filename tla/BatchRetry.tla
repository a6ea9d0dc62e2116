------------------------------ MODULE BatchRetry ------------------------------
(***************************************************************************)
(* runtime.BatchGet and runtime.BatchWrite (runtime/batch.go): a list of   *)
(* keys is cut into chunks, each chunk is one request, and what the table  *)
(* leaves unprocessed is asked for again after a pause, a bounded number   *)
(* of times.  Both functions are the same loop; they differ in how they    *)
(* treat duplicates, in their chunk size and in what they return.          *)
(*                                                                         *)
(* The caller is the one the documentation of UnprocessedError has in      *)
(* mind: it calls again with the leftovers.                                *)
(***************************************************************************)
EXTENDS Naturals, Sequences, SequencesExt

CONSTANTS
  Keys,         \* items, told apart by keyFingerprint
  Inputs,       \* the lists callers pass
  GetChunk,     \* batchGetChunk, also the most keys the service accepts
  WriteChunk,   \* batchWriteChunk, likewise
  MaxAttempts,  \* maxBatchAttempts
  MaxRounds     \* bound: calls one caller makes for one list

ASSUME InputsAssumption == Inputs \subseteq Seq(Keys)
ASSUME ChunkAssumption == GetChunk \in Nat \ {0} /\ WriteChunk \in Nat \ {0}
ASSUME AttemptsAssumption == MaxAttempts \in Nat \ {0}
ASSUME RoundsAssumption == MaxRounds \in Nat

VARIABLES
  op,         \* "get" or "write", none before the first call
  asked,      \* the list this call was given
  list,       \* the list it works through
  start,      \* where the current chunk begins
  remaining,  \* the keys of the next request
  attempt,    \* requests already made for this chunk
  answer,     \* the keys the last answer left unprocessed
  pc,         \* idle, wait, answered, backoff or returned
  result,     \* what the call returned
  leftover,   \* the keys in the UnprocessedError
  handled,    \* how often the service has processed each key
  rounds      \* calls made

vars == <<op, asked, list, start, remaining, attempt, answer, pc, result, leftover,
          handled, rounds>>

Chunk == IF op = "get" THEN GetChunk ELSE WriteChunk

TypeOK ==
  /\ op \in {"none", "get", "write"}
  /\ asked \in Seq(Keys) /\ list \in Seq(Keys) /\ remaining \in Seq(Keys)
  /\ answer \in Seq(Keys) /\ leftover \in Seq(Keys)
  /\ start \in Nat /\ attempt \in 0..MaxAttempts - 1
  /\ pc \in {"idle", "wait", "answered", "backoff", "returned"}
  /\ result \in {"none", "nil", "error", "ErrDuplicateKey", "UnprocessedError"}
  /\ handled \in [Keys -> Nat]
  /\ rounds \in 0..MaxRounds

Init ==
  /\ op = "none"
  /\ asked = <<>> /\ list = <<>> /\ start = 0 /\ remaining = <<>> /\ attempt = 0
  /\ answer = <<>> /\ pc = "idle" /\ result = "none" /\ leftover = <<>>
  /\ handled = [k \in Keys |-> 0]
  /\ rounds = 0

------------------------------------------------------------------------------
\* Mutant of Deduped: the list goes out as it came.
NotDeduped(l) == l

\* BatchGet asks for each key once, in the order of first occurrence.
FirstPlaces(l) == {i \in DOMAIN l : \A j \in 1..i - 1 : l[j] # l[i]}
Deduped(l) ==
  LET places == FirstPlaces(l)
      nth(n) == CHOOSE i \in places : Cardinality({j \in places : j < i}) = n - 1
  IN  [n \in 1..Cardinality(places) |-> l[nth(n)]]

HasDuplicate(l) == ~IsInjective(l)

Return(r) == pc' = "returned" /\ result' = r
Request(r) == pc' = "wait" /\ remaining' = r /\ UNCHANGED result

\* Mutant of EnterChunk: a last, shorter chunk is dropped.
EnterFullChunk(s, n) ==
  /\ start' = s /\ attempt' = 0
  /\ IF s + n > Len(list')
     THEN Return("nil") /\ UNCHANGED remaining
     ELSE Request(SubSeq(list', s + 1, s + n))

\* The head of the outer loop: the chunk of n keys at s, or the end.
EnterChunk(s, n) ==
  /\ start' = s /\ attempt' = 0
  /\ IF s >= Len(list')
     THEN Return("nil") /\ UNCHANGED remaining
     ELSE Request(SubSeq(list', s + 1, IF s + n < Len(list') THEN s + n
                                                             ELSE Len(list')))

BatchGet(l) == list' = Deduped(l) /\ EnterChunk(0, GetChunk)

BatchWrite(l) ==
  /\ list' = l
  /\ IF HasDuplicate(l)
     THEN Return("ErrDuplicateKey") /\ UNCHANGED <<start, remaining, attempt>>
     ELSE EnterChunk(0, WriteChunk)

Call(name, l) ==
  /\ op' = name /\ asked' = l
  /\ IF name = "get" THEN BatchGet(l) ELSE BatchWrite(l)
  /\ UNCHANGED <<answer, leftover, handled>>

FirstCall ==
  /\ pc = "idle"
  /\ \E name \in {"get", "write"}, l \in Inputs : Call(name, l)
  /\ UNCHANGED rounds

CallWithLeftovers ==
  /\ pc = "returned" /\ result = "UnprocessedError"
  /\ rounds < MaxRounds
  /\ rounds' = rounds + 1
  /\ Call(op, leftover)

------------------------------------------------------------------------------
(* The service: BatchGetItem and BatchWriteItem.                           *)

Accepts(request) == IsInjective(request) /\ Len(request) \in 1..Chunk

Handle(request, done) ==
  handled' = [k \in Keys |->
                IF k \in ToSet(request) \cap done THEN handled[k] + 1 ELSE handled[k]]

\* It processes some of the keys and returns the others, in any order.
Serve ==
  /\ pc = "wait" /\ Accepts(remaining)
  /\ \E done \in SUBSET ToSet(remaining) :
       /\ Handle(remaining, done)
       /\ answer' \in SetToSeqs(ToSet(remaining) \ done)
  /\ pc' = "answered"
  /\ UNCHANGED <<op, asked, list, start, remaining, attempt, result, leftover,
                 rounds>>

\* An error reaches the caller: the request was refused, or it was throttled,
\* lost or cancelled, whatever the service had done of it.
ServeError ==
  /\ pc = "wait"
  /\ \E done \in SUBSET ToSet(remaining) :
       Handle(remaining, IF Accepts(remaining) THEN done ELSE {})
  /\ Return("error")
  /\ UNCHANGED <<op, asked, list, start, remaining, attempt, answer, leftover,
                 rounds>>

------------------------------------------------------------------------------
(* The inner loop.                                                         *)

\* Mutant of Exhausted: one attempt too many.
ExhaustedLate == attempt + 1 > MaxAttempts

Exhausted == attempt + 1 >= MaxAttempts

NextChunk ==
  /\ pc = "answered" /\ answer = <<>>
  /\ UNCHANGED list
  /\ EnterChunk(start + Chunk, Chunk)
  /\ UNCHANGED <<op, asked, answer, leftover, handled, rounds>>

\* Mutant of GiveUp: the error carries the last request, not its remainder.
GiveUpWithRequest ==
  /\ pc = "answered" /\ answer # <<>> /\ Exhausted
  /\ Return("UnprocessedError")
  /\ leftover' = remaining
  /\ UNCHANGED <<op, asked, list, start, remaining, attempt, answer, handled,
                 rounds>>

GiveUp ==
  /\ pc = "answered" /\ answer # <<>> /\ Exhausted
  /\ Return("UnprocessedError")
  /\ leftover' = answer
  /\ UNCHANGED <<op, asked, list, start, remaining, attempt, answer, handled,
                 rounds>>

BackOff ==
  /\ pc = "answered" /\ answer # <<>> /\ ~Exhausted
  /\ pc' = "backoff"
  /\ UNCHANGED <<op, asked, list, start, remaining, attempt, answer, result,
                 leftover, handled, rounds>>

\* Mutants of Retry: the whole request goes out again; attempts not counted.
RetryWhole ==
  /\ pc = "backoff"
  /\ Request(remaining)
  /\ attempt' = attempt + 1
  /\ UNCHANGED <<op, asked, list, start, answer, leftover, handled, rounds>>

RetryUncounted ==
  /\ pc = "backoff"
  /\ Request(answer)
  /\ UNCHANGED <<op, asked, list, start, attempt, answer, leftover, handled,
                 rounds>>

Retry ==
  /\ pc = "backoff"
  /\ Request(answer)
  /\ attempt' = attempt + 1
  /\ UNCHANGED <<op, asked, list, start, answer, leftover, handled, rounds>>

\* The context ends during the pause.
Cancel ==
  /\ pc = "backoff"
  /\ Return("error")
  /\ UNCHANGED <<op, asked, list, start, remaining, attempt, answer, leftover,
                 handled, rounds>>

------------------------------------------------------------------------------
Step == Serve \/ ServeError \/ NextChunk \/ GiveUp \/ BackOff \/ Retry \/ Cancel

Next == FirstCall \/ CallWithLeftovers \/ Step

\* A request is answered or fails in the end, and the goroutine that waits for
\* an answer or a timer runs when it can.
Spec == Init /\ [][Next]_vars /\ WF_vars(Step)

------------------------------------------------------------------------------
(* Properties.                                                             *)

\* Every request is one the service accepts: no key twice, no more keys than
\* its limit, never empty (batch.go:79-92, 128-142 and the chunk constants).
RequestsAccepted == pc = "wait" => Accepts(remaining)

\* However often a chunk is retried, and even when the caller goes on with
\* the leftovers, the loop has no key processed twice: a write is not repeated
\* over somebody else's later one, an item is not returned twice.  (A request
\* the SDK sends again below the loop counts once.)
HandledOnce == \A k \in Keys : handled[k] <= 1

\* A call that returns nil has had everything it was given processed, the
\* last, shorter chunk and the repeated keys included.
NilMeansAll ==
  pc = "returned" /\ result = "nil" => \A k \in ToSet(asked) : handled[k] = 1

\* What the error carries is still to do, it is something, and it is all that
\* is left of the chunks that were sent.
LeftoversAreUndone ==
  pc = "returned" /\ result = "UnprocessedError" =>
    /\ leftover # <<>>
    /\ \A k \in ToSet(leftover) : handled[k] = 0
    /\ \A i \in 1..Len(list) :
         i <= start + Chunk => handled[list[i]] = 1 \/ list[i] \in ToSet(leftover)

\* A call returns, whatever the service does.
Returns == pc = "wait" ~> pc = "returned"
==============================================================================
