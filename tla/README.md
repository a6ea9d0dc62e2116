# A TLA+ model of ddbgen

ddbgen reads Go structs annotated with `//ddb:` markers and generates typed
clients for single-table DynamoDB designs.  This directory holds TLA+ modules
of its parts, TLC configurations that check them on small instances, and proofs
checked by TLAPS.  Line references are to the repository at the commit the
modules were written from.

Contents: [the system](#the-system) · [plan](#plan) · [modules](#modules) ·
[runs](#runs) · [bounds and fairness](#bounds-symmetry-fairness) ·
[proofs](#proofs) · [findings](#where-the-code-and-its-documentation-differ) ·
[not modelled](#what-is-not-modelled).

## The system

| component | state it keeps | operations | hard behaviour | what makes it correct |
|---|---|---|---|---|
| **generated item client** (`internal/codegen/emit.go` `entityTmpl`, instance `examples/ecommerce/order_gen.go`) | none of its own; the caller's struct (its version field is advanced in place) and the table item | `Get`, `Put`, `PutIfNotExists`, `Delete`, `Update…Run`, `BatchPut`, `TransactPut`, `TransactDelete` | several clients on one item; attempts lost, repeated by the SDK, landing after the caller gave up; stale reads; delete and re-creation; version zero | no lost update; no deleted item revived; conflicts only when something changed; a struct usable after a failure; index keys in step with the data |
| **update expression builder** (`runtime/expr.go`) | clause lists, name and value aliases | `Set`, `Remove`, `Add`, `IncrementVersion`, `Expression` | a builder used twice; two clauses on one path; `ADD` under repetition | one clause per path; the version moves by one |
| **batch helpers** (`runtime/batch.go`) | chunk start, remaining, attempt | `BatchGet`, `BatchWrite`, `backoff` | partial answers, retries with a cap, one chunk of several failing, cancellation | every key handled once; requests the service accepts; nothing forgotten; the call returns |
| **query helpers and cursor** (`runtime/query.go`, `cursor.go`) | the cursor, held by the caller | `QueryPage`, `QueryAll`, `Encode`, `Decode` | pages interleaved with writers; empty pages with a successor | items that stay put are returned once |
| **range conditions, encoders, predecessors** (`query.go` `SK*`, `encode.go`, `pred.go`) | none | `SKAfter`, `SKBefore`, `SKBetween`, `Encode*`, `Pred*` | strict bounds out of inclusive ones; underflow; neighbouring scopes | the keys selected are exactly those the method's name says |
| **generated queries and partitions** (`emit.go`, `app_table_gen.go`) | the query builder | `After`, `Before`, `Between`, `Desc`, `Limit`, `All`, `Page`, `Collect` | one refinement per query; an error found early and returned late | as above, and no refinement is silently dropped |
| **generated TransactWrite** (`emit.go` 126-147) | none | `TransactWrite` | none of its own: one atomic service call | – |
| **key templates** (`internal/keytmpl`) | none | `Parse`, `AlignPrefix`, `Encode`, `Decode` | prefixes that end inside a segment; an engine of its own beside the generated code | round trip; the two engines agree; an aligned prefix matches the keys it should |
| **schema checks** (`internal/analyze`) | none | checks DDB001-DDB008 | overlap of templates; decisions taken again in codegen | two entities never share a key; what is accepted can be generated |
| **code generation views** (`internal/codegen` other than the template) | none | `buildKeyFunc`, `buildUpdateMethods`, `rangeFor`, `buildPatternView`, `validateNames` | which fields get a setter; which prefix a range starts from | stored keys stay what the fields make of them; a query returns what its pattern says |
| **schema compilation, diff, snapshot** (`internal/schema`) | the snapshot file | `Compile`, `Diff`, `Write`, `Read` | what counts as a breaking change | no breaking change passes the gate |
| **command line** (`cmd/ddbgen`) | generated files and snapshots on disk | `generate`, `diff`, `infra`, `docs`, `init` | failures and crashes between file writes | a gate refusal writes nothing; a rerun repairs |
| **marker parser** (`internal/parser`) | none | `Parse` | – | – |
| **infrastructure and documentation output** (`internal/emit`, `codegen/docs.go`) | none | rendering | – | – |

How they interact: the command line parses, compiles and checks a schema
(parser → schema → analyze with keytmpl), compares it with the snapshot, and
writes what codegen renders.  The rendered client calls the functions of
`runtime` (encoders for keys, `UpdateExpr` for updates, the batch and query
helpers) and, through the interface `runtime.DynamoDB`, the service.  All
sharing at run time is through the table: generated clients keep no state and
start no goroutines, so the concurrency that matters is between callers, and
between a caller and his own earlier attempts.

`PROJECT.json` lists under `hazards` what in this code is hard to test, each at
its line, with the properties that watch over it.

## Plan

The order in which the modules were written, most important behaviour first.
All steps are done.

1. **The versioned item client** – `DynamoTable`, `VersionedClient`, its
   abstract specification `ConditionalStore`, the instances in
   `MCVersionedClient`, and the proofs (`VersionedClientProofs`,
   `NoLostUpdateProofs`).
2. **The batch helpers** – `BatchRetry`, `MCBatchRetry`, `BatchProofs`.
3. **The query helpers** – `QueryPaging`, `MCQueryPaging`, `PagingProofs`: a query
   and its cursor against concurrent writers, on the main table and on an index
   whose entries move.
4. **The generate command** – `SchemaDiff`, `GenerateCmd`, `MCGenerateCmd`,
   `GateProofs`: the gate against breaking changes, writes that fail half-way,
   edits and deployments between runs.
5. **From a design to its keys** – `KeyEncoders`, `KeyTemplates`, `SchemaChecks`,
   each extending the one before: what a template and its encoders make of field
   values, and which designs the checks let through.
6. **The generated code on real keys** – `TypedTable` (items, key functions and
   update builders of any entities of a design), `TypedQueries` (its patterns and
   range methods, down to the strings compared), `MCTypedTable`, and the proofs
   `KeyProofs`, `StringProofs` and `QueryProofs`.

The abstract specification worth stating is `ConditionalStore`.  For
`GenerateCmd` an atomic replacement of files and snapshot would be none: the
code does not promise it, and what it does promise of a half-written tree is in
`CanRepeat` and `SnapshotMatchesFiles`.  An atomic scan is no
specification for `QueryPaging`: a paged query is not atomic, and what it does
promise is said of the items that stay put.  For steps 5 and 6 the reference is
in the vocabulary of the struct fields (`Wanted`, `AskedOf`), with no key in it.

Every safety invariant and action property of the runs is proved as well as
checked; of liveness, that no loop goes on for ever is proved, the rest checked.

## Modules

### `DynamoTable`

What the client relies on from the service: one item per key, conditional
`PutItem`, `UpdateItem` and `DeleteItem`, each atomic.  The service is external;
conditions and effects are those of the expressions the client sends
(`attribute_not_exists(pk)`, `attribute_exists(pk)`, `v = :v`).  `GoVer` is what
unmarshalling makes of a missing version attribute, `Updated` is
`UpdateExpr.IncrementVersion` (`if_not_exists(v, 0) + 1`) with the setters'
clauses.

Three history fields of an item are outside the program: `wid` names the write
that produced it, `born` the write that created it, and `set` the last one that
named its field.  Structs carry the first two as they were read (`seen`).  No action
reads them; the properties need them to say "the item changed since it was read"
and "nobody has written this field since the index was declared".

### `VersionedClient`

One entity with `version=` and one index, used by several `Clients`.

| module | code |
|---|---|
| `obj[c]` | the entity struct a caller holds: key fields, the field that feeds the index key (`val`), the version field |
| `phase`, `req`, `reply` | where a method call is: not in one, waiting for the service, answered |
| `net` | HTTP attempts sent and not applied; one that is never applied is lost |
| `table`, `replica` | the item, and what a read without `WithConsistentRead` may still see |
| `sent`, `writes` | counters that tag attempts and writes |
| `GetRequest`, `PutRequest`, `PutIfNotExistsRequest`, `DeleteRequest`, `UpdateRequest`, `GuardedUpdateRequest`, `BatchPutRequest`, `TransactPutRequest`, `TransactDeleteRequest` | the input each method builds (emit.go 294-603, 880-934) |
| `Get`, `Put`, `PutIfNotExists`, `PutRefused`, `BlindPut`, `Delete`, `Update` | the method up to its call of the SDK, the in-place change of the version field included |
| `Resend` | the SDK repeats the attempt; the earlier one may still land |
| `ApplyOne`, `Replicate` | the service |
| `ReturnOk`, `ReturnError`, `Fail` | the method after its call: the result, the error a refused condition becomes, the version field put back (emit.go 358-364, 410-413) |
| `NewStruct` | the application fills a struct itself |

`Fail` is any other error, at any moment: a timeout or a cancelled context ends
the call and leaves its attempts under way.  A method call is three steps
because that is where the code can be interleaved: everything before the SDK call
is local to the caller, everything after it too.

`IndexKey` maps a field value to its encoded index key, `None` where the encoder
refuses it (`runtime.CheckSegment`); puts of such a value fail before anything is
sent (`PutRefused`), setters make `Run` return their error.  `Legacy` says
whether the table may hold items written before the version field and the index
were declared.  The batch path reaches a single item as one unconditional
`PutItem`; chunks and retries are in `BatchRetry`.

### `ConditionalStore`

The abstract specification: a store that knows, for each key, which write is
current, and operations that name the write they replace.  There are no version
numbers in it.  `VersionedClient!ImplementsConditionalStore` is the refinement;
the mapping sends an attempt to the operation named by the write its struct was
read from.  It is what "optimistic locking" promises, for applications that do
not delete (a deleted item starts again at version 1, see the findings) and do
not use the writes that bypass the lock.

### `BatchRetry`

`BatchGet` and `BatchWrite` are the same loop with different chunk sizes, with
deduplication in the one and `ErrDuplicateKey` in the other.  `EnterChunk` is the
head of the outer loop (batch.go 90-92, 136-141), `Serve` and `ServeError` the
service, `NextChunk`, `GiveUp`, `BackOff`, `Retry` and `Cancel` the inner loop.  The
service may process any subset of a request it accepts; it accepts a request
with no key twice, at least one, and at most the limit, and returns what it left
in any order.  `Deduped` keeps the first place of each key, as the loop over `seen`
does (batch.go 79-88).  An error may leave any part of the request processed.  `CallWithLeftovers` is the caller
`UnprocessedError` is documented for.  Keys stand for fingerprints
(`keyFingerprint`).  A request the SDK repeats below the loop counts as one.

### `QueryPaging`

A pattern query as `entityTmpl` generates it (emit.go 618-838) and the partition
query's `Collect` (emit.go 149-209), over `runtime/query.go`.

| module | code |
|---|---|
| `q` | the builder `…Query`: whether its pattern has a literal sort-key prefix, `sk`, `refined`, `ascending`, `limit`, `err` |
| `asked` | history: the keys the names of the range methods called so far stand for |
| `After`, `Before`, `Between`, `RefineUnencodable`, `Desc`, `Limit` | the builder's methods; `BeginRefine` is `beginRefine` with what follows it |
| `SKAfter`, `SKBefore`, `SKBetween`, `SKBegins`, `SKNone`, `SKEmpty` | the conditions of `query.go` 14-92, over points in the order of keys |
| `Run` | a call of `All`, `Page` (with a zero cursor) or `Collect` |
| `PageRaw` | `QueryPageRaw` and the service's answer to it; `cursor` is `ExclusiveStartKey`, `next` is `LastEvaluatedKey` |
| `FetchPage`, `Yield`, `TurnPage`, `QueryError` | the loop of `QueryAllRaw` and the generated iterators around it |
| `Page`, `RetryPage` | `QueryPage` and a caller who passes each cursor on, or tries a failed page again |
| `got` | what the caller has been handed |

The writers are not steps.  An item somebody writes to while the query runs is
`Busy`, and every read may find it at any of its `Places` or nowhere; so does a
read of a replica that lags.  An item that is not busy stays where it is.  This
is what the properties are about (items that stay put), it contains every
interleaving of writes with pages, and it leaves one process.

Keys are numbers, `First .. Last` those of the scope; 0 stands for no
place (`Absent`, and the empty cursor), hence positive `Places` and `First > 0` among
the assumptions.  `Places[i]`
has one key for an item of the main table and several for an index entry, which
moves.  `Malformed` are the entries unmarshalling refuses.  A page
ends wherever the service likes (its limit of one megabyte), after `Limit` items
at the latest; it may be empty and have a successor.

### `SchemaDiff`

What `internal/schema` computes.  `HasBreaking` is `Diff` as far as the gate reads
its report: additive entries change nothing.  A comparison of two entities is
field by field as in diff.go 95-215, of records whose fields hold whole values
(a pattern's definition is one value, and so is a field's attribute and type).
`Fits` are the agreement checks of `Compile` and `mergeIndexes`; index names that
differ only in case are told by `LowerName`.

`Item`, `FoundBy` and `Finds` are what the rendered code stores and what it
finds again: the key templates its `Get` fills in, the type it filters by, and
the index keys its queries ask for.  They are the reference `Diff` is measured by.

### `GenerateCmd`

| module | code (`cmd/ddbgen/run.go`) |
|---|---|
| `src[d]` | what the markers of a package say: a draft, nothing (`Bare`), or something that does not load (`Broken`) |
| `files[d]`, `snapshot[d]` | the `*_gen.go` files and `ddb.snapshot.json` of a directory; a file as rendered is told by its draft |
| `phase`, `dirs`, `todo`, `left`, `force` | where a run is: directories in the order of their names, files of the current one |
| `Generate` | `loadSchemas` and the checks before the first phase |
| `CheckDir` | one turn of the first loop: `checkSnapshot`, the report, `codegen.Generate` (76-93) |
| `WriteFile`, `RemoveStale`, `WriteSnapshot` | one turn of the second loop (94-142) |
| `FailFile`, `FailStale`, `FailSnapshot` | the same, failing or killed there |
| `Edit`, `DeleteSnapshot`, `Deploy` | the developer between runs |
| `DiffPasses` | `runDiff`, which only reads |
| `before`, `stored` | history: the snapshots the run found; drafts whose code has written items |

`os.WriteFile` truncates first, so a failed write leaves the old content
(`FailFile` with `files[Here][n]`), a file cut before the end of the
generated-code header (`Cut`, which a later run does not take for its own) or
after it (`Torn`).  A snapshot cut short is `Unreadable`.  `Deploy` asks for a
tree in step, files and snapshot of the draft in `src`: that is the tree
somebody builds and commits.  Overriding the gate, by `--force` or by deleting
the snapshot, empties `stored`: from there the items are the developer's affair.

### `KeyEncoders`

`runtime/encode.go` and `runtime/pred.go`.  A string is the sequence of its code
points, the value of a field a sequence of integers: characters, bytes, or the one
number or time.  `EncodeValue` is the encoder the generated code calls for a
placeholder (`encodeExpr`), `EncodeSegment` and `DecodeSegment` what the generator's
own engine does (`keytmpl/encode.go`), `Pred` the predecessor that stands for an
exclusive bound.  An error is `Refused`.  Widths, units and the greatest integer that
`ParseInt` gives (`MaxInt64`) are constants; a time of `rfc3339` is a number of ticks
of fixed width, which is what its layout gives between the years 1 and 9999.

`strings.ToUpper` and `strings.ToLower` are ASCII's rule and, beyond it, two tables of
letters, `UpperOf` and `LowerOf`, of which the modules assume what holds of Unicode's:
what a mapping gives it leaves alone, and none leaves the plane of `MaxKeySuffix`
(`CaseAssumption`).  Characters of theirs become letters of ASCII: `ſ` (U+017F) the
capital S, the kelvin sign the small k.  `EncodeULID` counts bytes before it
upper-cases, as the code does, so it lets such a text through and makes it shorter
(`LongS` in `MCTypedTable`); `ULIDsAscii` keeps it out of the claims it would break.

`EncodeURL` escapes bytes, so text is taken to its UTF-8 bytes and back (`ToBytes`,
`FromBytes`: one to four bytes for a character, each byte read by what it leads or
continues), and `Escape` and `Unescape` are the two directions of `net/url` on them.
Strings that are not valid UTF-8 are not in the model.  Decimal numbers are read
digit by digit (`Parsed`), whatever their width.  Recursion is written as recursive
functions, so that there can be proofs about these modules.

### `KeyTemplates`

`internal/keytmpl`: which segments form a template or a condition value
(`IsTemplate`, `IsCondition`), where a condition may stop (`Aligns`, `RangeEligible`,
`LeadingLiteralCut`), `PrefixString`, `Encode` and `Decode`.  A rendered key is kept as
the sequence of its segments; `Join` is the stored string and `Split` what
`strings.Split` makes of it.  That two different
sequences never join to one string is what `CheckSegment` is for:
`StringsTellKeys` checks and `StringProofs` proves it (`SegmentsTell`).  What other
properties say of segments therefore holds of the strings DynamoDB has.

### `SchemaChecks`

The rules of the parser that precede the checks (`Parses`), and DDB001 to DDB008
(`Accepted`).  A design is a table of entities with fields, keys by index, and
patterns.  `Disjoint` is DDB001 through `CanOverlap`; `EncoderCompat`,
`Sortable` and `Satisfiable` are the decisions codegen takes again.

### `TypedTable`

| module | code |
|---|---|
| `design`, `verdict`, `Generate` | the design `generate` is run on, and whether the checks or the code generation refuse it (`Builds`: `encodeExpr`, `buildPatternView`) |
| `items` | the table: for each item its entity and its attributes; a key attribute holds the segments of its key |
| `KeyFunc` | `buildKeyFunc` (model.go): a field that occurs twice is encoded once |
| `Marshal`, `CanMarshal`, `Unmarshal` | `marshalX` and `unmarshalX` of the template (emit.go 267-292) |
| `HasSet`, `HasAdd`, `HasRemove`, `Refs` | `buildUpdateMethods`: which setters an entity has, and the index keys each must write again |
| `builder` | an `…Update` value: clauses by attribute, its error, the key of its item |
| `StartUpdate`, `Setter` (`SetX`, `AddX`, `RemoveX`), `Run`, `Drop` | its life: from `UpdateX` over any setters in any order to `Run`, which may be called again |
| `Put`, `Delete` | the unconditional forms; version conditions are in `VersionedClient` |
| `asked`, `calls`, `runs` | what the callers asked, for the property, and counters |

`SetX` puts its field's clause in before it knows whether the key the field
feeds can be encoded (emit.go 533-541), as in the code; after an error nothing
may reach the table.  Two clauses for one attribute are `overlap`, which the
service refuses, and so is the second version clause of a second `Run`.

### `TypedQueries`

From a pattern to the condition on the sort-key string (`StaticCond`, `After`,
`Before`, `Between`, over the `SK…` functions of `query.go`), and `Result`, what the
table returns for it with the projection of the index and the filter on the
entity type.  `Wanted` is the reference: the items of the entity whose *fields* meet
the declared condition.  A bound on the first placeholder is a bound on the
field; one after other placeholders is a bound on the key up to there.  How a
result is read in pages is in `QueryPaging`, which takes the keys as points.
`TextBelowSuffix`, `OneEncoderEach`, `PadsFitInt64`, `ULIDsAscii`, `TypeMarksApart` and
`BoundsFollowLiterals` say of which designs and structs the [theorems about
queries](#proofs) hold.

### MC modules and proofs

`MCVersionedClient`, `MCBatchRetry`, `MCQueryPaging`, `MCGenerateCmd` and
`MCTypedTable` give the constants values; they hold the statements of the
documentation that the code does not keep.  The eight proof modules are described
under [Proofs](#proofs).

## Runs

| run | instance | shows |
|---|---|---|
| `lock` | the five methods that respect the lock; 523,843 states | `LockInv`: every version held, requested or stored names one write of one life of its item, and none is ahead of the table. `NoLostUpdate`: a guarded write that lands replaces the write its caller had seen, unless the item was deleted and created anew. `DeletedStaysDeleted`: a read item that is gone is not brought back by `Put` or `Run`. `ConflictMeansChanged`: a caller told `ErrVersionConflict` held something other than what the table had when it decided, or a struct never stored (a guarded `Delete` or `Run` of one, finding nothing, is refused as well). `StructCarriesVersion`: a struct that stands for the stored write has its version, after any failure as well. |
| `index` | all eight methods, items of any age, four field values of which two share an index key and one has none; 389,664 states | `TypeOK`, `IndexInSync`: an item's index key is that of its value; only an item older than the index may have none, and only until a `Put` or a setter of any client has written the field. |
| `refine` | `Get`, `Put`, `PutIfNotExists`, `Update`; 179,678 states | the client and the table implement `ConditionalStore`: comparing versions comes to comparing writes. |
| `batch` | every list of up to 4 keys, repetitions included, chunks of 3 and 2, 3 attempts, one more call with the leftovers; 216,923 states | `RequestsAccepted`: no key twice in a request, none empty, none over the limit. `HandledOnce`, `NilMeansAll`, `LeftoversAreUndone`, `TypeOK` (with the cap on attempts) and `Returns`: the call comes back whatever the service does. |
| `paging` | two items of the entity, one of which may move, one of another entity; two keys in the scope, limits none and 1; every combination of builder calls; 91,496 states | `StableItemsOnce`: a query that ends well has returned each item that stayed put and is in the range asked for, exactly once. `NothingElse`: nothing foreign, nothing outside the range, no refinement dropped. `InOrder`: key order across pages. `TypeOK` (no reversed `BETWEEN` is ever sent). `QueryAdvances`: every page and every item brings `All` and `Collect` nearer to the end, an empty page too, and `Ends`: `All` and `Collect` end although others keep writing. |
| `generate` | two packages: one whose entity gains an index, is joined by another, or changes its index key; one with a draft that cannot be rendered; one failing write; 511,127 states | `AllOrNothing`: a refusal in one package writes nothing in any. `SnapshotMatchesFiles`: a snapshot is replaced only when every file of its schema is in place and no older one of ddbgen's is left, whatever failed before. `CanRepeat`: a failed run passes its own gate again. `StoredFound`: code let through the gate finds every item stored earlier. `TypeOK`. |
| `keys` | fourteen designs; four that are accepted, with items of all their entities, builders and every argument of every query; ten drafts, each refused by one check alone; 97,668 states | `AcceptedBuilds`: what the checks accept never fails in code generation. `KeysInSync`: no sequence of puts, setters and runs leaves a stored key different from what the fields make of it. `EntitiesApart`: no entity can write the key of another's item. `PatternsExact`, `RangesExact`: a pattern and its `After`, `Before` and `Between` return exactly the items whose fields meet the condition. `StringsTellKeys`: keys that differ in a segment are never one string. `EngineAgrees`: the generator's engine and the generated code make the same keys, wherever the engine takes the types of a key's fields, and a key can be taken apart again (two-byte, three-byte and escaped characters included). `RunIsAllOrNothing`: a `Run` writes all that was asked and one version step, to one item, or nothing. `TypeOK`. |
| `version_zero`, `batch_forgotten`, `orphan`, `diff_blind`, `underflow` | smaller instances of the same modules | one disagreement each with the documentation, see the findings. |

Each property of a passing run has a mutant in `PROJECT.json`: a slip in the
code (the version not put back, the increment left out, the setter that forgets
the index key, an off-by-one in the cap or the last chunk, a retry of the whole
request) under which TLC finds that property violated.  The mutants stand in
the modules before the operator they alter.

### Bounds, symmetry, fairness

* One key: no property relates two keys, and no method touches two (batch and
  transact calls do, but each of their items is a request of its own).
* Two clients; `MaxSends = 2` attempts each in `lock` and `refine`.  Four attempts
  are enough for the schedules the properties are about: read, competing write,
  guarded write and a late or repeated attempt; read, delete, re-creation and
  guarded write.  `index` needs one attempt per client: an item can start out
  with any legacy content, and a drift shows after one update.  The theorems
  have no such bound.
* `lock` and `refine` use a single field value: versions do not depend on it.
* Clients are interchangeable (`Symmetry`); no liveness property is checked
  under symmetry.
* `CHECK_DEADLOCK FALSE`: a client that has used its sends, and a caller whose
  batch call or query has returned, stop.
* `batch`: a list of four keys against chunks of two and three gives no, one and
  two chunks, full and short; three attempts give a first, a middle and a last
  one.  The limits of the code (100, 25, 5) enter only as the constants'
  values.
* `paging`: three items make pages of none, one and several items with a cut
  before, between and after them; two keys in the scope are the fewest for which
  `After`, `Before` and `Between` differ from the whole and from nothing, and key 1
  lies outside.  A pattern is run to its end, so page counts need no bound: the
  cursor only advances.
* `keys`: `shop` has two entities in one partition, a shared index, index keys of one
  and of two fields, and every condition; `log` has conditions after another
  placeholder, with regions that are prefixes of one another; `assets` takes the
  encoders the others do not; `routes` has two texts side by side, one string of
  which could be cut at either.  Rows include values an encoder refuses (empty, with
  a delimiter, out of range), the ends of each range (0, 9, the last ULID), and
  letters beyond ASCII that change case, three of them to a letter of ASCII.
  Widths of one and two digits, and of three for ULIDs, keep the values small; the
  comparisons do not depend on them.  `MaxItems = 2`: every property is about one item, about two, or
  about an item and a query.  `MaxCalls = 2` setters and `MaxRuns = 2` for `shop`, none
  for designs without a setter worth it: two calls are the fewest that can
  meet on one attribute, two runs the fewest that repeat the version clause.
  `MaxNumber = 1` bounds versions and counters.
* `generate`: two directories are the fewest in which one can be refused after
  another has been checked, or written while the other is not.  Three drafts
  make a chain of an additive and a breaking change, in both directions.
  `MaxFailures = 1`: a failure after which everything else succeeds, with the
  debris of the one before; two failures pass as well (3,328,555 states, too many
  for a routine run).  The theorems have no such bound.  No liveness is claimed:
  a run is a finite loop and a developer need do nothing.
* Fairness is assumed in `BatchRetry`, `WF_vars(Step)`, and in `QueryPaging`,
  `WF_vars(Reader)`: a request is answered or fails (the SDK's calls end, by an
  answer, an error or the context), the timer of `backoff` fires, the goroutine is
  scheduled, and the loop body of a caller who ranges over `All` comes back.
  What a caller does next of his own accord has no fairness.

## Proofs

TLAPS checks, for every value of the constants:

| module | theorems | of |
|---|---|---|
| `VersionedClientProofs` | `TypeCorrect` (`TypeOK`, with `CallInv`); `IndexNeverDrifts` (`IndexInSync`), of all eight methods | `VersionedClient` |
| `NoLostUpdateProofs` | `VersionsNameWrites` (`LockInv`), `NoUpdateIsLost` (`NoLostUpdate`), `ConflictIsReal` (`ConflictMeansChanged`), `StructIsUsable` (`StructCarriesVersion`), `NothingIsRevived` (`DeletedStaysDeleted`), `VersionsStandForWrites` (`ImplementsConditionalStore`) | `VersionedClient` |
| `BatchProofs` | `TypeCorrect`, `EveryRequestAccepted` (`RequestsAccepted`), `NoKeyTwice` (`HandledOnce`), `NilIsComplete` (`NilMeansAll`), `LeftoversAreExact` (`LeftoversAreUndone`), `CallsAdvance` | `BatchRetry` |
| `PagingProofs` | `TypeCorrect`, `KeyOrder` (`InOrder`), `NothingForeign` (`NothingElse`), `EveryStableItemOnce` (`StableItemsOnce`), `QueriesAdvance` (`QueryAdvances`) | `QueryPaging` |
| `GateProofs` | `GateTypeCorrect`, `RefusalWritesNothing` (`AllOrNothing`), `FailedRunCanRepeat` (`CanRepeat`), `WhatIsStoredIsFound` (`StoredFound`), `SnapshotIsNotAhead` (`SnapshotMatchesFiles`) | `GenerateCmd` |
| `KeyProofs` | `TypeCorrect`, `InSync` (`KeysInSync`), `Apart` (`EntitiesApart`), `AcceptedCanBeBuilt` (`AcceptedBuilds`), `RunWritesWhatWasAsked` (`RunIsAllOrNothing`) | `TypedTable` |
| `StringProofs` | `SegmentsTell`, `FixedOrder`, `PredecessorOrder`, `SplitJoins`, `DecodersInvert`, `EscapeHatch`: of the operators, no state in them | `KeyEncoders`, `TypedQueries` |
| `QueryProofs` | `PatternsAreExact` (`PatternsExact`), `RangesAreExact` (`RangesExact`), `StoredStringsTellKeys` (`StringsTellKeys`), `EnginesAgree` (`EngineAgrees`) | `TypedQueries` |

They rest on the assumptions named in the modules, which TLC evaluates on every
run (of a design: it is one the parser can hand on, `DesignsParse`, and a field of a
struct has a value of its Go type, `RowsTyped`), and on hypotheses that are part of
the theorems:

* `NoBypass` (the theorems of `NoLostUpdateProofs`): the application keeps to the
  five methods that respect the lock, as the documentation of the others asks.
* `~Legacy` (`ConflictIsReal`, `NothingIsRevived` and `VersionsStandForWrites`): no
  item is older than the version field.  With such items they do not hold: version
  zero then names both a struct never stored and an item that was read (run `version_zero`).  The
  other theorems cover tables with items of any age.
* `NoDelete` (`VersionsStandForWrites` only): the application does not delete.  A
  re-created item starts again at version 1, and then a version no longer stands
  for one write.
* `NoUintptr` (`AcceptedCanBeBuilt` only): no field is a `uintptr`, the one type the
  checks take for an unsigned integer and codegen does not.
* `OneEncoderEach` (the theorems of `QueryProofs`): a template names no field twice
  with different encoders.  Otherwise the key written and the key asked for
  differ, see the differences below.
* `TypeMarksApart` (`PatternsAreExact` and `RangesAreExact`): the attribute that marks
  the items of one entity is no field and no key of another, unless it marks that
  one's too.  DDB006 asks for different marks, but where two entities use different
  attributes nothing keeps an item of the one from holding the other's mark as data.
* `TextBelowSuffix` (`PatternsAreExact` only): text has no character at or above U+FFFF,
  the end of an upper bound.  Range methods do without it: their bounds meet
  encodings of fixed width only, which are ASCII.
* `IsFiniteSet(Entry)` (`QueriesAdvance` only): a partition can hold finitely many keys,
  as no key is longer than DynamoDB allows.
* `PadsFitInt64` (`EnginesAgree` only): numbers that a key pads are at most 2^63 - 1.
  Only `uint`, `uint64` and the like can be greater; such a key is written and found,
  but `DecodePad` cannot read its segment, see the differences below.
* `ULIDsAscii` (`PatternsAreExact`, `RangesAreExact` and `EnginesAgree`; of single values,
  `AsciiULID` in `FixedOrder`, `PredecessorOrder` and `DecodersInvert`): what a key takes for
  a ULID is of ASCII characters.  `EncodeULID` lets others through and stores fewer
  characters than a ULID has, see the differences below; such a segment has not its
  place in a range and is not decoded.
* `BoundsFollowLiterals` (`PatternsAreExact` only): a static `sk.lt` ends in the first
  placeholder of the sort key, or the key has no literal before that one.  For
  others the query can miss items: run `underflow`.

From `OneEncoderEach` on, `IsFiniteSet(Entry)` apart, these are conditions on designs and
structs and exclude no state of the model; TLC evaluates them for the designs of the run
`keys` (`KeysAssumption` in `MCTypedTable`).

**The argument for NoLostUpdate.**  The property speaks of the step in which an
attempt lands; it needs to know that the version the attempt compares with
stands for the write its caller saw.  That is `Honest(k, ver, s)`: if the item
stored under `k` is of the same life as the sighting `s`, then `ver` is not ahead of
the stored version, and if it equals the stored version `s` is the stored write.
Two more conjuncts serve the other theorems: if `s` is the stored write then `ver` is
its version (a struct at rest is usable, a refusal is due), and version zero
means nothing was seen unless the table is `Legacy` (a deleted item is not taken
for a new one).  `HistoryInv` asserts it of everything that can turn into a guarded request: the
items themselves, the replicas, the attempts under way, the requests of calls
in progress, the structs at rest and the answers not yet read.  It is inductive
together with `TypeOK` and `CallInv`: a put or an update raises the stored version by
exactly one within a life, so older sightings fall strictly behind; a creation
starts a new life that no sighting shares; everything else only copies.  For a
call in progress the struct's version is already advanced, and `Held(c)` is the
version it falls back to; this is where `Restored` matters.  `NoLostUpdate` alone is
not inductive: nothing in it keeps a stale struct from carrying the current
version number.  The proof has one lemma per kind of step (local steps, puts,
updates and deletes landing, reads, returns) and one step per conjunct each can
disturb.

**The argument for the refinement.**  An attempt is mapped to the operation named by
the write its struct was made from.  Sending a write submits it, applying it
commits or rejects it, and all else stutters.  `AdmittedIff` is the point: the
condition the service evaluates on version numbers holds exactly when the abstract
store admits the write.  From left to right that is `Honest`; from right to left
it also needs that the item a struct was read from is still there (`NoDelete`, the
last conjunct of `Honest`) and that version zero means none was read (`~Legacy`).
`TagInv` keeps attempts apart, so that one operation leaves `pending` at a time.

**The argument for the batch helpers.**  `ListInv` is the outer loop: the list holds
distinct keys, the chunks before the current one are processed, the chunks
after it untouched.  `ChunkInv` is the inner loop: what is still to do is a list of
distinct, unprocessed keys of the current chunk, and everything else of the
chunk is processed.  `HandledOnce` follows because a request holds unprocessed keys
only; `NilMeansAll` because the last chunk ends at the end of the list, which is the
arithmetic of `start + Chunk` against `Len(list)`.  `Deduped` needs that the first
places of a list can be counted in their order (`Ranks`): an injection of a finite
set of places into as many numbers is onto.

**The argument for paging.**  `CondInv` says that the condition of a builder without
an error selects, in the scope, exactly the keys in all the ranges asked for; an
error or a second refinement leaves it as it is.  `CursorInv` and `PageInv` keep a
page between what was handed out and the cursor that follows it, so the results
are ordered.  `FoundInv` is the other half: an item that stays put and was asked for
has been handed out, is in the current page, or is still ahead of the cursor;
when a query ends nothing is ahead.  The case that matters is a page that is
empty, or that ends before an item that was written in between: the cursor is a
key, not a count, so nothing that stays put can fall behind it.

**The argument for StoredFound.**  `StillFinds` is about the diff alone: a change
that `HasBreaking` does not report keeps everything the old code found.
`StoredInv` carries this along behaviours: what a readable snapshot describes
covers every schema items were stored under.  When a snapshot is replaced the
new schema has passed the gate against `before`, and `GateInv` says that this is
still the snapshot on disk, although other directories were written in between.
An invariant about the latest schema would not do: in between, `src` and the
files of a failed run are ahead of the snapshot.  What the theorem does *not*
extend to is the fields inside an item: a field removed in one generation and
added with another type in the next is additive twice.  `SnapshotIsNotAhead` needs
`FilesInv` instead: within a directory, the files no longer to be written are as
rendered, and once the stale ones are gone the directory is `Current`; whatever a
failed run left there has been overwritten or removed by then, or does not begin
with the header.

**The argument for stored keys.**  The invariant of `KeyProofs` is that each key of an
item is the key function of the item's own fields, and that a builder without an
error sets the keys a field feeds together with the field.  The encoders are
never opened: a key depends on the fields of its template alone, a setter exists
only where that is one field (`HasSet`), no field is stored where a key is (DDB008)
and no key is made of the version (DDB005).  `Apart` follows from the shape of
templates: two that cannot overlap differ in length or in a literal segment, and
a rendered key keeps both.  `AcceptedCanBeBuilt` compares the decisions of analyze
with those of codegen, case by case.  `RunWritesWhatWasAsked`
needs besides that no two items share a primary key and that, while no attribute
has two clauses, the clauses of a builder are what its callers asked for, field
by field.  `DesignsParse` also
assumes that `et=` names no key attribute, which no check looks at.

**The argument for queries.**  `Result` compares strings and `Wanted` compares fields, so
the proof goes from one to the other in four layers.

1. *Strings.*  The order of keys, prefixes and `Join`, for keys of any number of
   segments.  The installed provers have no induction over data; `InductionOn` says
   of a *set* of numbers that it is `Nat` if it has 0 and all successors, and each
   recursion (the fold in `Join`, the powers of ten in padding) is proved through the
   set of the lengths or widths it is right for.  A fold is known by its running
   values.
2. *Encoders.*  Each writes a text without delimiter and, if of a fixed width, of one
   length for all values (ULIDs of ASCII characters); there the order of segments is the order of values
   (`FixedOrder`), and the segment of a predecessor is the last one below the bound's, or
   there is none and nothing is below (`PredecessorOrder`).  That is why an inclusive
   `BETWEEN` up to the predecessor, with the suffix, is the strict bound: a key that
   goes on after its bounded segment goes on with the delimiter, below the suffix.
3. *Conditions.*  `Matches` of a condition is decided segment by segment: keys that
   begin with the same segments compare as their first that differ do, when those
   are of a fixed width, or as whole values at the end of the key.  The scope keeps
   neighbours out: a key of another shape that begins with the same text differs
   from the scope in a literal or at a delimiter.
4. *States.*  `QInv` is the invariant of `KeyProofs` with `ItemKept` (an item carries its
   entity's mark, no attribute besides its fields and keys, and in the fields its
   keys are made of the values of some struct) and `BuilderKept` (what an open
   builder will write keeps it so).  Keys in sync are not enough: a result depends
   on the mark and on what `Unmarshal` gives back, and an update could leave a key
   field behind that no struct has.  `PatternsExact` alone is not inductive; it says
   nothing of builders.

`StoredStringsTellKeys` needs the first two layers and `QInv`.  For the upper and
lower encoders `Wanted` compares what is written, so `{Code:upper}` finds `a` under `A`,
as the code does.

**The argument for the decoders.**  `EnginesAgree` is about one item at a time, so
`QInv` gives all it needs of states: a stored key is one segment for each part of its
template, and each segment is what an encoder made of a value some struct has.  What
is left is that every encoder has an inverse (`DecodersInvert`) and `Join` one
(`SplitJoins`).

* `Split` is a recursion over the text.  As `Join` of what it has cut so far is the
  text so far (`SplitText`), and `SegmentsTell` says there is one way only to cut a
  text, it gives back the segments.
* A decimal of fixed width is read from the left: after `k` digits the value is the
  number without the digits still to come (`DecimalParsed`).
* URL escapes are two codes one inside the other, a character as bytes and a byte as an
  escape.  `CodeInverts` is the statement both are instances of: a reader that goes
  through a text place by place, gives the character at the place its code word
  begins and nothing at the others, gives back what was written, whatever the
  lengths of the words.  What has to be shown of a code is that a reader can tell
  the first place of a word from the rest: the two top bits of a byte (`Continued`),
  a percent sign at most two places before (`UnescapedBefore`).

Two encoders have no inverse on values: upper and lower case.  For them, and for times
cut to seconds, the theorem says what the code promises, that the value decoded
makes the same key.  A field that occurs twice in a template is decoded from its
last place, hence `OneEncoderEach`.

**The argument for the end of a loop.**  What can be proved of liveness is that nothing
goes on for ever.  `StepsLeft` is a natural number that each step of a running call or
query lowers.  For a batch call it is three steps (request, answer, pause) for each
attempt and `MaxAttempts` attempts for each key still in no chunk that is done; a
call with keys left is within its list (`StartInv`).  For a query it counts the keys beyond
the cursor, each good for a page, and the items of the page in hand; the cursor only
moves on (`MoveInv`, `BeyondShrinks`), a page without items included, because the
service's boundary key lies beyond the cursor it was given.

**Model-checked only:** `Returns` and `Ends`.  That no call goes on for ever is proved
(`CallsAdvance`, `QueriesAdvance`); that a call which has not come back has a step it can
take, and takes it, needs ENABLED and fairness, which are out of TLAPS's reach here.

## Where the code and its documentation differ

* **`version_zero`** – an item stored at version zero (by `BatchPut` or
  `TransactPut` of a fresh struct, or older than the version field) is refused to
  every `Get`-then-`Put` with `ErrVersionConflict`, because `Put` takes zero for
  "must not exist" (emit.go 348-350).  runtime.go 56-57: "the item changed since
  it was read".
* **`batch_forgotten`** – when a chunk runs out of attempts, the chunks after it
  are neither sent nor among the leftovers (batch.go 109-111, 153-155), so
  retrying the leftovers does not complete the call.  batch.go 20-22: "carries
  the leftovers so callers can retry them".
* **`orphan`** – a write that is cut off before the generated-code header leaves a
  `*_gen.go` that later runs do not recognise (run.go 133), so it outlives its
  entity.  run.go 106-108: "so a renamed or removed entity cannot leave an
  uncompilable orphan behind".
* **`diff_blind`** – `diff` visits the packages that still have markers (run.go
  17-31, 149): when the last entity of one is removed, its snapshot is not read
  and no breaking change is reported.  README.md 121-124: "fails (exit 1) on
  breaking schema changes against the committed snapshot".
* **`underflow`** – for `sk.lt` with a value of two placeholders, as in
  `LOG#{Region}#{N:pad1}`, the generated code takes the predecessor of the last
  one alone; where there is none the query is empty although keys with a smaller
  earlier placeholder sort below the bound (query.go 69-71, patterns.go 277-287).
  runtime/query.go 63-64: "predOK false means nothing sorts below the value
  within the scope."

Differences seen while reading, for which there is no run:

* `Run` after `ExpectVersion` on an item that does not exist returns
  `ErrVersionConflict` (emit.go 606-610); its comment says "a missing item returns
  runtime.ErrNotFound" (emit.go 574-576).
* Versions restart at 1 when an item is deleted and created again, so a `Put` from
  the earlier life can meet the same number and overwrite the new item (emit.go
  351-357); "A lost race returns runtime.ErrVersionConflict" (emit.go 334-335).
  `NoLostUpdate` is stated and proved with this one exception.
* A template that names one field twice with different encoders: the key function
  encodes it once, with the first (model.go 241-265); a condition value and the
  generator's own engine encode it at each place.
* The type filter compares the entity's own `et` attribute.  Entities of one table
  that mark their items in different attributes are kept apart all the same, since
  an item without the attribute fails the filter, unless that attribute is a field
  or a key of the other entity (`TypeMarksApart`).  `et=` may also name a key attribute
  of its own entity.  No check refuses either.
* `MaxKeySuffix` is U+FFFF, and characters of the supplementary planes sort above it.
  runtime.go 45-47 says that range bounds "only ever abut fixed-width encodings, never
  raw segments"; the upper bound of a scope that ends before a raw placeholder does,
  and misses segments that start with such a character.
* `EncodeULID` checks the length in bytes and upper-cases afterwards (encode.go 147-150),
  and upper-casing can change the length: 24 characters of ASCII and a `ſ` (U+017F, two
  bytes, upper case S) pass and are stored as 25 characters, which `DecodeULID` then
  refuses and which do not stand in a range where a ULID would.  encode.go 144-145:
  "validates a 26-character Crockford base32 ULID"; 163-164: "the identity inverse of
  EncodeULID"; README.md:185 gives `ulid` the fixed width 26.  The model does what the
  code does: `LongS` in `MCTypedTable`, which TLC evaluates, is the case at width 3, and
  `ULIDsAscii` is the hypothesis of what fails without it.
* NOTES.md 170-171 lists among the known gaps that a valued `sk.lt` which "consumes the
  *entire* sk template includes an exact-match item at the boundary (BETWEEN is
  inclusive)".  The code no longer does: it bounds the range by the encoding of the
  predecessor (patterns.go 273-293, emit.go 671-673) or, with no literal before the
  bound, uses `<` (query.go 66-67).  The item at the boundary is left out, as "lt" says:
  the run `keys` has three such patterns (`OrdersBefore`, `ByPathTo`, `AssetsTo`) and
  `PatternsAreExact` proves it of every design within its hypotheses.
* `encoderCompat` takes every type whose name begins with `uint`, `uintptr` included,
  for an unsigned integer; `encodeExpr` does not.  The engine of keytmpl refuses
  `uint`, `uint8` and `uint16`, `[N]byte` and lets an empty `hex` or `urlenc` value through;
  the generated code does the opposite.  `EngineAgrees` says so: where the engine
  takes the types of a key's fields (`EngineTakes`) it makes the same key of a stored
  item, otherwise it refuses.  Empty values are never stored.
* `EncodePadUint` pads any `uint64`, `DecodePad` parses an `int64` (encode.go 85-97).  A key
  with a number above 2^63 - 1 is therefore not decoded, although keytmpl/encode.go 114
  says that `Decode` "inverts each placeholder's encoder".  `PadsFitInt64` excludes it.

## What is not modelled

* Versions are natural numbers; the wrap of an `int32` field is not modelled.
* Byte-level fingerprints with NUL in a key (`keyFingerprint`).
* Version conditions and the index keys of a real design together:
  `VersionedClient` has one index and one field for the puts and the setter;
  `TypedTable` has any number of them, with unconditional puts.
* Unmarshalling errors of an answer to the item client (those of a page are in
  `QueryPaging`), and of stored items whose fields changed.
* Filters a caller adds to a query (`Filter`), which the service evaluates after
  it has read a page: they act like the type filter that is modelled.
* The text of a cursor (base64 of JSON), and a cursor given to another query
  than the one it came from.
* `TransactWrite`: it hands its items to one atomic service call.
* The layout of RFC3339, aliases and the text of expressions, `fmt` verbs.
* Lexing and positions of the parser, naming and collisions of generated names
  (`validateNames`, `naming.go`), the text of the templates, infrastructure and
  documentation output: sequential text production without state.
* Two `generate` runs at once on one directory; `infra`, `docs` and `init`; the
  wording of a report and its additive entries; a table that moves between
  packages.
