# TLA+ models of the YQL graph transformers and the S3 write actor

This directory holds TLA+ models of parts of this repository, and the TLC
configurations that check them. Every module is written from the source under
`src/`. The one exception is the composite pipeline driver: it is only declared
in the source, so it is modelled from `spec.md`, and its map entries say so.
`PROJECT.json` maps each definition to the source lines it models. It also
lists the runs, the mutants, the findings and the hazards.

## The system and its parts

| Part | Source | State, operations, interactions | Module |
|---|---|---|---|
| Transformer contract | `ydb/library/yql/core/yql_graph_transformer.h` | `TStatus` (a level Ok < Repeat < Async < Error, plus a HasRestart bit, combined by max/or); the `Repeats`/`Restarts` statistics updated by `HandleStatus` on every result; `TFunctorTransformer` (synchronous, ENSUREs it never returns Async); `TAsyncCallbackTransformer`, which keeps a map `Callbacks` from input node to a callback future, filled by `Transform` on Async, read by `GetAsyncFuture`, consumed and erased by `ApplyAsyncChanges`, cleared by `Rewind`; futures from `WrapFuture`/`WrapModifyFuture` whose callback returns Error, Ok or Repeat-with-restart | `GraphTransformer` |
| Composite pipeline | declared at lines 220-234, defined outside `src/`; `spec.md` 4.4, 4.5, 5 | runs stages in order; Error stops; Repeat/HasRestart restarts at stage 1; Async waits on the stage's future, then calls `ApplyAsyncChanges` with the same input; cancellation rewinds every stage | `CompositeTransformer` |
| S3 sink | `ydb/library/yql/providers/s3/actors/yql_s3_write_actor.cpp` | `TS3WriteActor` (the parent) receives rows from the compute actor through `SendData`. For each partition key it keeps a list of `TS3FileWriteActor`s. Each file writer buffers its rows in a compressor queue and uploads them through the HTTP gateway, either in one PUT or as a multipart upload (create, parts, complete). Gateway callbacks run on other threads and send events back to the writer or to the parent. The parent reports `OnAsyncOutputFinished` or `OnAsyncOutputError` to the compute actor. | `S3WriteActor` |
| Rewrite rules | `ydb/library/yql/core/common_opt/yql_co_simple1.cpp` | pure expression rewrites registered in a callable table (`map[name]`); the optimizer walks the graph, children first, applies the rule of each callable, and repeats until a pass changes nothing (spec.md 4.3) | `ExprTerm`, `LogicalRewrite`, `ListRewrite`, `StructRewrite`, `LambdaTerm`, `LambdaRewrite`, `ReorderRewrite`, `CollectionRewrite`, `ScalarRewrite` |
| Other files | `activeactors.h`, s2n AES-GCM, SIMD fallback, DWARFSection, bad_any_cast, S3 source factory/datasource, ClickHouse header, partitioning unit test | see "Not modelled" | none |

## Modules

**GraphTransformer** is the contract of the transformer classes, for a set of
stages and a set of nodes. It has these variables:

- `callbacks[s][n]` is the `Callbacks` entry of stage `s` for node `n`: none,
  pending, or ready with an outcome;
- `repeats` and `restarts` are the statistics;
- `ensureFailed` records that a `YQL_ENSURE` failed. The model records the
  failure instead of blocking the step, so that an invariant can report it.

It has one operator per method: `FunctorTransform`, `CallbackTransform`,
`FutureComplete` (the gateway sets the future), `ApplyAsyncChanges` (this
includes the `GetAsyncFuture` ENSURE) and `RewindAll`. `CallbackStatus` gives
the status returned by the callbacks of `WrapFutureCallback`, `WrapFuture` and
`WrapModifyFuture`. `NullTransform` is `TNullTransformer`, a
`TSyncTransformerBase` whose `DoTransform` returns the input and Ok.

**CompositeTransformer** extends GraphTransformer with the driver. Its
variables are `idx`, `phase` (transform, wait, done, error, cancelled), `root`,
`waitInput`, a bounded repeat count and a run count. It has these actions:

- `RunSyncStage` and `StartAsyncStage` call a stage; a stage of
  `NullStages` is a `TNullTransformer` and always gives Ok with the root
  unchanged;
- `ResumeAsyncStage` calls `ApplyAsyncChanges` on the saved input;
- `Cancel` rewinds every stage;
- `Rerun` starts the same pipeline on a new root.

`Continue` is the driver's reaction to a status. Since the driver is
defined outside `src/` and the model bounds repeats and runs, its stage order
and its termination would hold by construction; they are not checked.

**S3WriteActor** models the sink. Its variables are:

- `fw[a]`: each file writer's state function, queue, InFlight, parts sent, ETags
  received and UploadId;
- `writers`: the parent's `FileWriteActors`;
- `finished`, and the counts of finish and error callbacks;
- `http`: gateway requests whose callback has not run yet;
- `msgs`: events in flight;
- `uploaded`: a history variable of the objects completed.

Its actions are:

- `SendData(batch, fin)`: the whole call, with new writers, AddData, Seal, Go,
  and then Finish and FinishIfNeeded;
- `Bootstrap(a)`;
- `GatewayCallback(r)`: the four static callbacks, each with success or failure;
- `WriterReceive(m)`: the writer's three state functions;
- `ParentReceive(m)`: the parent's handlers for UploadFinished and UploadError;
- `ParentPassAway`: the parent's `PassAway`, which also runs every file
  writer's `PassAway` (`FileWriterPassAway`);
- `Done`: a stutter once the sink is gone and nothing is pending.

The writer operations (`StartUploadParts`, `CommitUploadedParts`, `Go`, `Finish`,
`OnUploadStarted`, `OnPartFinished`) are operators that return the new writer
and the requests they issue. This lets them compose within one action as they
do in the code. Rows are abstracted to a key and "value or NULL". Part sizes
are abstracted to counts, because `StartUploadParts` only pops non-empty parts.

The compressor queue (`IOutputQueue`) is not in this repository. The constant
`QueueHoldsTail` chooses how it behaves:

- TRUE: the last, incomplete part stays in the queue until Seal;
- FALSE: every pushed row is a complete part that can be popped at once.

**ExprTerm** is the shared term representation of the rewrite modules: an
expression is a record `[op, args, val]` (callable name, children, literal or
argument name). `ChangeChildren`, `RenameNode` and `WrapIf` are the
`TExprContext` helpers the rules call (`WrapByCallableIf`); `Atom`, `Subst`
(applying a lambda) and `ReplaceNode` build atoms and rewrite inside
lambdas. None of these is in `src/`; they are modelled from spec.md.

**LogicalRewrite** models the Bool rules: `SimplifyLogical` (And/Or),
`SimplifyLogicalXor`, `SimplifyLogicalNot`, `OptimizeEquality`, and the
Coalesce and If entries of the table. `Rule` is the table, `Pass` one walker
pass (children first, then the node's rule). The variables are `orig`, the
input, and `term`, the result so far; `Step` runs one pass while it changes the
term, `Done` stutters at the fixpoint. `Eval` is SQL three-valued logic over
every assignment of the free Bool and Optional<Bool> arguments, and is the
reference the rewrite is checked against. `TypeOf` stands for the type
annotator, which is not in this repository.

**ListRewrite** models the list and container rules: Skip, Take, Length,
HasItems, Extend/OrderedExtend, ForwardList, Iterator, Reverse, ToList, List,
Optional, ListIf/OptionalIf and their flat forms, ToOptional/Head/Last,
Append/Insert/Prepend, ToFlow, Collect, LazyList, ToStream, Min, the
comparisons, `==` over Uint64 and Unwrap. The free argument `s` is a
Stream<Uint64>, `n` a Uint64. `Outs(e, env)` is the set of values an
expression can have: it is a set because the unordered `Extend` may produce
its children in any order. A rewrite is correct when it only narrows that set
(`MeaningRefined`). Uint64 arithmetic is modulo `UintMod`. The variable
`nextTerm` holds `Pass(term)`, the pass the walker runs next; it is a cached
value, so `Step` and `Done` read it instead of recomputing the pass. LambdaRewrite, whose pass is the largest, keeps a flag
`changed` instead, so that its specification applies `Pass` at one place.

**StructRewrite** models the struct, tuple, variant and Optional rules:
`Struct` (empty struct to `AsStruct()`), `Member` over `AsStruct`, `Just` and
`Nothing`, `Nth` over a tuple literal, `Just` and `Nothing`, `AsStruct` rebuilt
from the members of one struct, or moved into a `Visit` it projects
(`OptimizeAsStruct`), `HasNull` (the `IfPresent` lambda over an Optional, `Or`
over the items of a tuple or struct, a `Visit` over the alternatives of a
variant), `Plus`, `Guess`, `Way`, `VariantItem` and all branches of `Visit`
(only a default, conversion to `Guess`, a default no longer needed, a Variant
literal, one lambda node for all handlers, `Just` taken out of every handler).
A variant's alternatives are named by atoms: the index of a tuple item as
text, or a struct member name. Applying a lambda (`Subst`) and replacing a node
(`ReplaceNode`) are in `ExprTerm`. A lambda's parameter name stands for its
node identity, which `Visit` tests when it looks for one lambda node for all
handlers; `HasNullOverVariant` builds a fresh lambda per alternative. Types
are records with a kind and parts; a struct type is a function from member
name to type. `TypeOf` stands for the annotator. Over an Optional container, a
member or item is Optional unless it is already Optional or Null. `Eval`
maps every free argument to a value; a Null is the empty Optional, as it is at
run time. A lambda binds its parameter in the environment. The walker passes
every child the types of the arguments in scope, so the body of an `IfPresent`
lambda sees its parameter's type.

`OptimizeTryMember` is modelled too. TryMember(struct, member, default) over an
`AsStruct` literal, or over `Just`/`Nothing` of one, becomes the member or the
default. Otherwise it becomes `FlatMap` (Null default) or `IfPresent` over the
Optional struct, with the default wrapped in `Just` when the result is
Optional. The typing of TryMember is not in this repository. It is modelled
from the rule's own assumptions: the member and the default agree up to
Optional, and the result is Optional when the struct, the default or the
member is. A Null default is only given over an Optional struct, where the
code's `FlatMap` branch is the one that runs.

**LambdaTerm** holds what the lambda and reorder rules share: types, the
annotator (`TypeOf`) for the callables with lambdas and the Sort family, and
their meaning (`Outs`). **ReorderRewrite** extends it with the reorder rule
and its inputs, and **LambdaRewrite** extends it and the two modules below:
its walker applies the lambda, reorder, collection and scalar rules from one
callable table. LambdaRewrite uses
a node field first in an operator of its own that reads `op`, so TLC, which orders record fields by the first appearance of
their names, compares nodes by callable before value. A value field may hold
a type, a name or a number.

**LambdaRewrite** models the rules of callables that take lambdas. Map and
Filter become FlatMap (`ConvertMapToFlatmap`, `ConvertFilterToFlatmap`; a
Filter with a limit becomes Take over the Filter without it). Every branch of
`SimpleFlatMap` is modelled in the order of the code, except ExtractMembers
and SqlIn:

- a reorder dropped under an unordered FlatMap;
- the predicate extracted from ListIf/OptionalIf and their flat forms;
- ToStream/ToFlow swapped with Just or a single AsList;
- Just, single AsList, ToList and FromFlow fused into the FlatMap;
- a single-item AsList lambda made a Just;
- the identity lambda, empty input or result, ListIf lambdas, and tuple
  rebuilds.

The While family over empty inputs and constant predicates (`OptimizeWhile`)
is modelled, as are Fold and Fold1 over an empty struct or tuple state.
Containers are List, Optional, Stream and Flow. The kind a fused FlatMap must
get back follows the table in the code's comment (`FlatMapKind`). `NodeTypes`
reads the type annotations a rule looks at once per node: the node's, its
input's, its lambda body's and Fold's state. The code reads them from
`GetTypeAnn()`.

Every container value is a sequence, and `Outs(e, env)` is the set of values
`e` may have. Map, Filter and FlatMap may produce their items in any order, so
they add every reordering. A limited Filter may keep the first `lim` items of
any of them. The ordered forms keep the input's order. A rewrite is correct
when it only narrows that set (`MeaningPreserved`).

`TakeWhileInclusive` keeps the first item whose predicate fails. The runtime
definition of `SkipWhileInclusive` is not in this repository. The model takes
it as the dual: the first failing item is skipped too.
`SkipWhileInclusive` inputs are limited to the constant predicates
`SkipInclusivePreds`. The passing run uses none of them. The violation run uses
only `TRUE`, where every reading of Inclusive gives the same answer.

**ReorderRewrite** models `OptimizeReorder<IsTop, IsSort>`, the rule of Sort
(`<false, true>`), AssumeSorted (`<false, false>`), Top (`<true, false>`) and
TopSort (`<true, true>`). Its branches come in the order of the code:

- an empty input becomes AssumeSorted, or the input for Top;
- a Reverse under Sort or TopSort is dropped;
- a key lambda that does not use its parameter (`ConstantKey`, the code's
  dependency-scope test) gives Take for Top and TopSort, the input otherwise;
- one-item tuples of ascending flags, and then of key items, are unpacked;
- Top with a count of 0 becomes the empty collection, and Top over a literal
  within the count becomes its input (Sort or AssumeSorted for TopSort);
- Sort and TopSort over a literal of at most one item are renamed AssumeSorted;
- AssumeSorted over AssumeSorted drops the inner one.

The branches that read sorted constraints are left out. In the meaning, Sort
yields every arrangement sorted by the key, in any order among equal keys.
TopSort yields the first `count` items of one, and Top those items in any
order. AssumeSorted yields its input.

**CollectionRewrite** models the rules over collection literals:
- `OptimizeContains` (ListHas, Contains and Lookup over AsList, List, AsDict
  and Dict literals). The first item whose key is the tested node answers.
  The code tests node identity; the model tests structure, as after common
  subexpressions are merged. An empty literal answers FALSE, or gives
  Nothing for Lookup.
- `OptimizeDictItems`: DictItems, DictKeys and DictPayloads of an empty Dict.
- `map["Unordered"]`.
- The fusion of two `SkipNullElements`, with the union of their element lists.
- Untag over AsTagged.
- `CanonizeMultiMap`: (Ordered)MultiMap to (Ordered)FlatMap with one AsList of
  the lambda's bodies.
- `ExpandExtract`: (Ordered)Extract to (Ordered)Map of an `Nth` (tuple items).
- `map["ToDict"]` (`ToDictRule`): over an empty container, the empty Dict of
  the node's type. Over AsList with a Void payload, for a hashed dict with one
  payload per key, `DictFromKeys` of the key lambda applied to each item.
  Over DictItems of another ToDict of the same kind, with the key lambda
  `x -> Nth(x, 0)`, the payload lambda `x -> Nth(x, 1)` and no `Many`, it
  gives the inner ToDict. The settings child is the set of its atoms
  (`Settings`). `ParseToDictSettings` is not in this repository.
- `map["LMap"]` and `map["OrderedLMap"]` (`LMapRule`): over an empty input,
  or with a lambda whose body is an empty container, the empty container of
  the node's type. `CanRewriteToEmptyContainer` holds on these terms, because
  no node carries a multi (variant) constraint. LMap's lambda takes the
  input's items as a stream (a flow for a flow input).

A dict value is a function from keys to payloads. AsDict with a key twice may
hold either payload (`DictsOf`): which one wins at run time is not in this
repository. Dict items come out in any order. ToDict with `Many` groups the
payloads of a key in an order the runtime chooses; hashed and sorted dicts
have the same value.

**ScalarRewrite** models:
- `OptimizeMinMax` with `ConstFoldNodeIntAggregate` and `ConstIntAggregate`.
  The first Nothing child is the result. Otherwise integral literals fold to
  one literal of the node's slot. For a Uint64 node the fold computes in ui64,
  else in i64. `IntegralValue` is `static_cast<TInt>(hasSign ? -extracted :
  extracted)` in a word of `WordBits` bits (8 in the runs, standing for 64).
- `RemoveOptionalReduceOverData`: the lambda applied to both inputs when they
  are not Optional.
- `OptimizeDistinctFrom`: AggrEquals/AggrNotEquals over one type, `==`/`!=`
  over data.
- `OptimizeCast<false>` (SafeCast): over Nothing, over Just, and Just pulled
  out when the cast adds an Optional and cannot fail.
- `map["Convert"]`: a Bool or an integral literal converted at compile time.
- `map["AggrCountInit"]` and `map["AggrCountUpdate"]`.
- `map["Minus"]` (`MinusRule`): Minus over Minus is the inner operand; over an
  Int32 literal it is the negated literal. The literals of the runs are small,
  so the negation of the least Int32 does not occur. `ExtractIntegralValue`
  and `GetIntegralAtomValue`, which decide that case, are not in this
  repository.

For these, LambdaTerm adds an Int32 slot, whose values are negative too and of
their own kind, so SafeCast can tell a cast that may fail. ListRewrite models
`Min` over Uint64 literals inside its list rules. ScalarRewrite models both
callables, both slots and the word arithmetic.

In all four walkers, `Pass` binds the node with its children
rewritten as the one element of a set before its rule looks at it. TLC passes
operator arguments unevaluated and does not cache a LET while it checks
`ENABLED`. Without the binding, the children pass is recomputed at every test
the rule makes of the node.

## Runs

| Run | What it checks |
|---|---|
| `composite_pipeline` (MCCompositeTransformer.cfg, pass) | Four stages: stage 2 asynchronous, stage 3 a `TNullTransformer`; two root nodes; at most 2 repeats and 2 runs. It checks `NoEnsureFailure`: no transformer ENSURE fails (no double emplace, no apply before the future is set or after the entry is gone), across async waits, repeats, cancellations and reruns. |
| `s3_write` (MCS3WriteActor.cfg, pass) | Two keys, three writer ids, at most 3 rows in batches of up to 2, NULL rows, Multipart chosen either way in Init, gateway failure on every request, parent teardown at any time. It checks four properties. `NoUnexpectedEvent`: every event finds a handler in the writer's current state function. `NothingLostOnCompletion`: a completed object had its queue sealed and empty, with no part in flight and every ETag. `FinishedOnceAfterAllUploads`: the owner is told at most once, only after `SendData(finished)`, and only once every writer's object is on S3. `OutputFinishes`: once finished, the owner is eventually told something. |
| `s3_write_eager_queue` (MCS3WriteActorEager.cfg, violation) | It checks `OutputFinishes` with `QueueHoldsTail = FALSE`. TLC finds a behaviour that never finishes: a multipart writer uploads its only part, then a NULL row seals the now-empty queue. `Go` has nothing to pop, and `Finish` returns at once for the sealed writer. No commit ever happens. See the finding in PROJECT.json. |
| `logical_rewrite` (MCLogicalRewrite.cfg, pass) | Every well-typed Bool expression of one or two callables over a Bool argument `p`, an Optional<Bool> argument `q` and the literals, with Coalesce of at most two children. `TypePreserved` and `MeaningPreserved`: the result of the walker has the input's type and the same three-valued meaning under every assignment. `ReachesFixpoint`: the walker stops. |
| `logical_rewrite_variadic_coalesce` (MCLogicalRewriteVariadic.cfg, violation) | With three-child Coalesce, which the code itself builds, `PropagateCoalesceWithConstIntoLogicalOps` reads only the head and `Child(1)`: over Not it keeps the middle child and drops the Bool literal. TLC rewrites `Coalesce(Not q, Nothing, FALSE)` to `Not(Coalesce(q, Not Nothing))`, which is NULL where the original is FALSE (q NULL) and Optional<Bool> where it was Bool. See the finding. |
| `list_rewrite` (MCListRewrite.cfg, pass) | Every well-typed expression of one callable over small pools of list, stream, flow, Optional, Bool and Uint64 children (nested up to three levels where the rules look that deep), against every stream of at most 2 items from {0, 1} and every count in {0, 1, 2}, with 8-bit Uint64 arithmetic. `TypePreserved`, `MeaningRefined` and `ReachesFixpoint` as above. |
| `list_rewrite_flow_of_optional` (MCListRewriteFlowOfOptional.cfg, violation) | Adds `ToFlow` over an Optional to the inputs. `map["ForwardList"]` drops `ForwardList(ToFlow(x))` to `x` when `x` is not a stream, so an Optional replaces a List: `TypePreserved` fails. See the finding. |
| `struct_rewrite` (MCStructRewrite.cfg, pass) | Every well-typed Member, Nth, HasNull, AsStruct, Struct and Plus over arguments of type Uint64, Optional and Optional<Optional> of it, a struct `<a: Uint64, b: Uint64?>`, a tuple `(Uint64, Uint64?)` and Optionals of both, over their `Just`/`Nothing` wrappings and literals, with values in {0, 1}. Guess, Way, VariantItem and HasNull over variants `Variant<Uint64, Uint64?>`, `Variant<a: Uint64?, b: Uint64?>` and `Variant<Uint64>`, their Optionals, literals, `Just`, `Nothing` and `OptionalIf`, and Visits that take each branch of the rule, with AsStruct projections of Visits that build structs. TryMember over the struct, its Optional, a literal and `Nothing`, for members a, b and a missing c, with defaults of the member's type, Optional, a literal and Null. `TypePreserved` and `ReachesFixpoint` as above. `MeaningPreserved`: the result has the same value under every assignment of the arguments it uses. |
| `struct_rewrite_null_item` (MCStructRewriteNull.cfg, violation) | Adds a tuple `(Null, Uint64)` argument. `map["Nth"]` turns `Nth(Just(t), 0)` into `Just(Nth(t, 0))`, of type `Optional<Null>`, where `map["Member"]` would not wrap a Null member. `TypePreserved` fails. See the finding. |
| `lambda_rewrite` (MCLambdaRewrite.cfg, pass) | About 790 well-typed Map, Filter (with and without a limit), FlatMap, While-family, Fold and Fold1 calls, unordered and ordered. Their inputs are lists, Optionals, streams and flows of Uint64, of Bool and of tuples, given as free arguments, reversed lists, ListIf, FlatListIf, Just, AsList, ToList, ToStream, ToFlow, FromFlow and empty containers. Their lambdas yield each kind of container, rebuild or swap tuples, or test a predicate. Values are in {0, 1}, with up to 3 items. `TypePreserved`: the result has the input's type. `MeaningPreserved`: under every assignment of the arguments, the result's values are among the input's. `ReachesFixpoint`: the walker stops, so no two rules of these families undo each other (for instance Minus over a literal folds into the literal, never rebuilds the Minus). The same walker also applies `OptimizeReorder` (the callable table holds both families). It runs over every well-typed Sort, AssumeSorted, Top and TopSort over a list argument of Uint64 or of one-item tuples, its Reverse, a Map over it, AsList literals of one and two items and the empty list. Keys are the item, a one-item tuple of it (literal or by `Nth`), a pair and constants. Flags are Bool literals, a Bool argument, and one- and two-item tuples. Counts are 0, 1, 2 and an argument. AssumeSorted over AssumeSorted is also an input. TopSort with an argument count over a literal of at most one item is left out (see `lambda_rewrite_topsort_arg_count`). The walker also applies the collection and scalar rules, over these inputs: ListHas, Contains and Lookup over list and dict literals (one with a key twice, and empty ones) and arguments; the item lists of a dict; Unordered; nested SkipNullElements; Untag; MultiMap; Extract; ToDict over a list argument, list literals, the empty list and DictItems of ToDicts, with every kind of dict; LMap and OrderedLMap over each kind of input. Minus; Min and Max over Uint64 and Int32 literals (negative ones too), arguments and Nothing; OptionalReduce; IsDistinctFrom; SafeCast to each slot and its Optional; Convert; AggrCount. |
| `lambda_rewrite_skip_inclusive` (MCLambdaRewriteSkipInclusive.cfg, violation) | Adds `SkipWhileInclusive(x, \item -> TRUE)`. `OptimizeWhile` shares its Inclusive branch with TakeWhileInclusive and returns `Take(x, 1)`, which keeps the first item; skipping while TRUE keeps none. `MeaningPreserved` fails. See the finding. |
| `lambda_rewrite_topsort_arg_count` (MCLambdaRewriteTopSortArgCount.cfg, violation) | Adds TopSort with an argument count over a short literal. The IsSort block renames it AssumeSorted with `RenameNode`, which keeps the count: four children, where every AssumeSorted the code builds has three. `TypeOK` fails. See the finding. |

Each property of a passing run has a mutant in PROJECT.json: a plausible bug in
a mapped definition that TLC then catches.

- Dropping the erase in `ApplyAsyncChanges` breaks `NoEnsureFailure`.
- Going on past the last stage in `Continue` breaks the composite `TypeOK`.
- Omitting `Become(MultipartWorkingStateFunc)` breaks `NoUnexpectedEvent`.
- Committing without waiting for the other parts breaks
  `NothingLostOnCompletion`.
- Notifying the owner without `Finished` breaks `FinishedOnceAfterAllUploads`.
- Not calling `FinishIfNeeded` after an upload breaks `OutputFinishes`.
- Swapping the literal in `SimplifyLogical` breaks `MeaningPreserved`; not
  stripping `Just` breaks `TypePreserved`; an If rule that negates the predicate and swaps the
  branches on every pass breaks `ReachesFixpoint`.
- Subtracting `n` without the `Min` in the Length-over-Skip rule breaks
  `MeaningRefined` (the Uint64 difference wraps); returning the AsList item without
  `Just` breaks `TypePreserved`; swapping the operands of `==` on every pass
  breaks `ReachesFixpoint`.
- Always wrapping the Nth item in `Just` breaks `TypePreserved`. Answering
  FALSE for an Optional in `HasNull` breaks `MeaningPreserved`. Rebuilding
  `AsStruct` as a `Struct` breaks `ReachesFixpoint`, because the table turns it
  back. Making `Way` of every Variant literal a Uint32 breaks `TypePreserved`;
  taking the default of a `Visit` over a literal before its handlers breaks
  `MeaningPreserved`.
- Returning an Optional input of an identity FlatMap
  without `ToList` breaks `TypePreserved`. Taking any `Nth` of the parameter as
  a tuple rebuild, whatever its position, breaks `MeaningPreserved`. Keeping
  the Minus over a negated literal (`ChangeChild` of the node) breaks
  `ReachesFixpoint`: the next pass strips it again and the walker never stops.
- Returning the input of Top for a constant key, as for Sort, instead of
  `Take` breaks `MeaningPreserved`.

With `QueueHoldsTail = TRUE`, the `Parts->IsSealed()` test in
`Handle(TEvUploadPartFinished)` cannot be told apart from its removal. An
unsealed queue always holds its tail, so it is never empty. That test only
matters for an eager queue.

## Bounds

- **Composite pipeline.** Three of the stages are enough for a stage before, at and
  after the asynchronous one. Two nodes let an output differ from its input,
  which is what a modifying future produces. Two repeats and two runs let a
  restart happen while a callback is pending, and a rerun reach a stale entry.
  A fourth stage, a `TNullTransformer`, checks that a stage that always
  succeeds passes the pipeline on. The run has 7,316 distinct states.
- **S3 sink.** Three rows in batches of two give these cases:
  - two writers for one key (a NULL row seals the first);
  - rows for two keys in one batch;
  - a multipart upload with two parts;
  - a single-part upload.

  Three writer ids are enough for one writer per row. The run has 195,342
  distinct states and takes about 15 s.
- **Rewrite rules.** Each rule only looks at a node and its children (Extend
  also at its grandchildren), so inputs of one or two levels around every rule
  exercise every branch. Streams of 2 items, counts up to 2 and Uint64 modulo
  256 are enough for a Take or Skip to cut, keep or exceed a stream; the
  wrap-around of a subtraction shows at any modulus. The logical run has 6,285
  distinct states, the list run about 1,000 (each input is its own behaviour), the struct run
  512 with the TryMember calls. Struct and tuple types of two members, one of them
  Optional, take every branch of the Member, Nth and HasNull rules. Variants
  of two alternatives of different types, of two of one type (for
  `VariantItem` and a shared handler) and of one alternative (for the default
  that is no longer needed) take every branch of the variant rules. Values 0 and 1 tell two members
  apart. The lambda run has about 2,600 inputs. Three items are enough for a reordering to differ from
  the original, and for `Take(x, 1)` to differ from both the first and the last
  item. A tuple of two items of one type lets a swap pass for a rebuild if the
  index check is wrong. With the reorder, collection and scalar calls added, the run has 8,197
  distinct states and takes about 30 s with coverage on. A ToDict list literal
  with a key twice, and one of pairs, tell `DictFromKeys` from a dict of
  the items themselves. Two items with values in {0, 1} give ties and strict orders
  under both directions. Counts 0, 1 and 2 fall below, at and above the
  literals' sizes. A one-item tuple key and flags must each be unpacked. Dict literals of one and
  two pairs, one with a key twice, give a first match, a later match and none.
  In 8-bit words -1 is 255, so a fold in the wrong word would give a different
  Min or Max. The value -1 is also an Int32 that no Uint64 holds, for SafeCast.

## Fairness

**Composite pipeline.** The driver's steps and the setting of futures are
weakly fair. A future is set by the gateway, and the driver always acts on a
result. Cancel and Rerun are the caller's choice, so they are not fair. No run checks a liveness property of the driver: it
is defined outside `src/`, and with repeats and runs bounded its termination
would hold by the bound alone (hazard on `Repeat` in PROJECT.json).

**S3 sink.** These steps are weakly fair:

- Bootstrap, and the delivery of events, because the actor system runs every
  registered actor and delivers every event;
- gateway callbacks, because the gateway calls back every request, with success
  or failure, after its own retries.

Each of these steps consumes one of finitely many pending items, so fairness
per kind of step drains them all. `SendData` and the parent's `PassAway` come
from the compute actor and are not fair. Deadlock is checked; the only terminal
states are those where the sink was torn down and nothing is pending (`Done`).
The composite pipeline run disables the deadlock check, because a compilation
stops for good after its last run.

**Rewrite rules.** `Step` is weakly fair: the optimizer repeats passes while
a pass changes the graph (spec.md 4.3), so a pass that would change the term
is always run. Deadlock is checked; at the fixpoint `Done` stutters.

## Not modelled

- The fuse of `FlatListIf`/`FlatOptionalIf` with a predicate FlatMap
  (`IsPredicateFlatMap`, the And of both predicates, lines 1140-1150 of
  `yql_co_simple1.cpp`). `OptimizeFlatContainerIf` keeps the other branches.
- The composite driver's stage order and termination (see Fairness).

- Timing and node counters of `TTransformScope`, issue reporting, and the text
  of URLs, headers and XML bodies. No property depends on them.
- `GetFreeSpace` and `GetMemoryUsed` only feed back-pressure to the compute
  actor. Egress bytes are not modelled either.
- The compressor queue's internals are not in this repository; see
  `QueueHoldsTail`.
- `SendData` is not called after `SendData(..., finished = true)`. This is the
  compute actor's contract, which is not in the source.
- Rewrite rules: constraints (`KeepConstraints`, `KeepColumnOrder`), the
  `IsEmpty` test that needs constraints, `SkipNullMembers` (the terms
  of LambdaTerm have no named structs), the ExtractMembers and SqlIn branches
  of `SimpleFlatMap`, the `DependsOn` and `SkippableCallables` tests, the `ExtractMembers` branch of `Member`,
  HasNull over lists, dicts and tagged values, joins, SqlIn, JSON, PG and the other callables of the
  table are not modelled yet. `Switch` is not modelled: its annotator, and so
  the types its rewrites must keep, is not in this repository. `Exists` and
  `IfPresent` call `OptimizeExists` and `OptimizeIfPresent`, which are defined
  outside this file. `Left!`/`Right!` over `Cons!`, `ToString` over String and
  `DropReorder` under GroupByKey and CombineByKey need types and callables
  the terms do not have. `Chopper` and `SqueezeToDict` build flows of
  partitions and need callables the terms do not have. The callable `map[IfName]`
  is registered under a name that is not defined in this repository.
- The scalar rules have these limits:
  - `StrictCast` is not modelled. It shares `OptimizeCast` with SafeCast, but
    its failure is a run-time error, which the value model has no room for.
  - The branches for a Null item type of `OptimizeCast` and
    `OptimizeDistinctFrom` are not modelled: the terms of LambdaTerm have no
    Null type.
  - Min and Max are typed only over children of one slot. The annotator's
    common type for mixed slots is not in this repository. A Uint64 node over
    a negative literal is where the ui64 cast of `ConstIntAggregate` would
    bite, so that hazard stays unchecked.
  - Convert is typed only from Bool or the same slot. `AllowIntegralConversion`
    therefore always holds on the inputs. The catch-all `map[""]` rule, which the spec
  says runs last in each pass, is not modelled. If predicates are Bool.
  `SkipCallables` is the identity on the generated inputs. Its list `SkippableCallables` is not defined in this repository. The sorted-constraint branches of `OptimizeReorder` are not modelled, because constraints are computed outside this file. The annotator of
  FlatListIf and FlatOptionalIf is not in this repository. The lambda run
  therefore leaves out the inputs whose rewrite puts a stream or flow under
  them (`Unannotated`).
- `activeactors.h` is a plain set of actor ids (insert, erase, `KillAndClear`).
  No actor in this repository uses it, so no run would say anything about how
  it is used. A module of the set alone would restate its three methods.
- s2n AES-GCM, the SIMD fallback, DWARFSection and bad_any_cast transform data
  or define value types. They have no concurrent or protocol behaviour.
- The S3 source factory, the datasource and the ClickHouse header are factory
  wiring. The partitioning unit test exercises code that is not in the source.

## Plan

1. Done: the transformer contract, the composite driver, the S3 write actor, and the logical, list and
   struct/tuple, lambda and reorder rewrite rules under the fixpoint walker.
2. Done: the collection and scalar rules of the callable table
   (`OptimizeContains`, the dict item lists, Unordered, SkipNullElements,
   Untag, MultiMap, Extract, Min/Max with constant folding, OptionalReduce,
   DistinctFrom, SafeCast, Convert, AggrCount), TryMember, and
   `TNullTransformer` in the composite pipeline. They joined existing walkers
   and runs.
3. Next: a Null type in LambdaTerm, for the Null branches of `OptimizeCast`
   and `OptimizeDistinctFrom`; `SkipNullMembers` over named structs; and
   deeper properties of the walker's interaction between rule families.
4. Done: `ToDict`, `LMap`/`OrderedLMap` and `Minus` in the same walker.
