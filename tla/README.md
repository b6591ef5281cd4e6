# TLA+ models of iosislib

iosislib compiles strategies into typed, deterministic, time-aware computation
graphs over Polars frames and executes them on one machine, with a frame cache,
trained models in a store, walk-forward training and a row-by-row backtest.
This directory holds TLA+ models of that core, TLC configurations that check
them on small instances, and theorems checked by TLAPS.

Paths below are relative to `src/iosislib/` of the repository.

## The system

| Part | Code | State it keeps | Operations |
|---|---|---|---|
| graph executor | `core/graph.py` 41-105, 190-343, 640-778 | `results` of one execution, the hits and required nodes | `execute`, backward cache search, evaluation loop, alignment, materialization |
| frame cache | `core/graph.py` 400-638 | a directory or an S3 prefix per node: manifest and Parquet shards | `_read_cache_*`, `_write_cache_*` |
| model store | `core/model.py` 1062-1712 | a manifest per group, content-addressed artifacts | `save_run`, `select_run`, `load_model` |
| walk-forward training | `core/model.py` 159-897 | the current model and the rows since it was trained | splitter, schedulers, `SupervisedModelTSFN.batch` |
| policies that train | `backtest/policy.py` 200-470 | a ring of the newest rows, the model, the next boundary | `ModelPolicy.decide`, `FeatureBuffer` |
| level 1 backtest | `backtest/backtest.py` 590-1000 | cash, positions, working orders, ruin | `BacktestTSFN.batch`, `_execute`, `_execute_wide`, `_execute_lean` |
| level 2 backtest | `backtest/backtest.py` 1000-1404, `backtest/feeds.py` | the same, and ladders of levels | `_execute_l2`, `_execute_l2_narrow`, `_walk_ladder` |
| built-in policies | `backtest/policy.py`, `backtest/risk.py` | none | `decide` asset by asset and as vectors |
| nodes and graphs | `core/node.py`, `core/graph.py` 805-1515 | none: immutable | construction, IDs, dependency order, look-ahead taint, validation |
| node functions | `core/tsfn.py`, `tsfn/transforms/`, `metrics/` | none | signatures, null policies, column arithmetic |
| execution scopes | `core/utils.py` 100-160 | process environment, context variables | `_model_dir_scope`, `_s3_credentials_scope` |
| sources and adapters | `tsfn/adapters/` | snapshots and chunk manifests on disk | verify, scan |
| strategy format, framework models, charts, catalog | `strategy/`, `models/`, `charting/`, `catalog.py` | none | parse and lower, estimators, plots |

Interactions: a program declares nodes and lists them as a graph, which is
validated and ordered. The executor walks the graph, reads and writes the frame
cache per node, aligns a node's inputs, applies its null policies and calls its
function when frames are collected. A trainer node's function runs a
walk-forward pass and publishes a run in the model store; an inference node's
function selects a run when its frame is collected, which may be long after the
node was lowered. A backtest node's function calls a policy, a risk policy and an
executor for each row; a policy may train on what it has seen. The cache
and the model store are shared with other processes through the file system or
S3 alone: no locks, no leases.

What is hard here: files that other processes see half-written, processes that
stop between two steps, read-modify-write of manifests, cached frames that
outlive what they were computed from, an evaluation order that is changed after
it was sorted, values of later moments that seep into earlier ones, two
implementations of the same arithmetic for few and for many assets, and money
along many rows and branches. `PROJECT.json` lists each hazard at its line.

## Modules

| Module | Models | Role |
|---|---|---|
| `FrameCache` | one entry of the cache, file operation by file operation, local or in S3 | component |
| `Manifest` | the list of runs in a manifest: where `save_run` puts one, which `select_run` finds | operators |
| `GraphExecution` | `LocalExecutor` over graphs of shared nodes | component over `Manifest`; a cache entry and the model group are one variable each |
| `ModelStore` | `save_run` and inference on one group, file by file, local or in S3 | component over `Manifest` |
| `RunLog` | a log of finished runs | abstract specification that `ModelStore` implements |
| `WalkForward` | one pass of `SupervisedModelTSFN.batch`: schedulers, splitter, segments | component |
| `ModelPolicy` | the same pass as a policy makes it, row by row over a ring | extends `WalkForward` |
| `Book` | quotes, positions and what they are worth | shared by the three below |
| `LeanBacktest` | the row loop with `_execute_lean` | abstract specification that `Backtest` implements |
| `Backtest` | the row loop with `_execute` and `_execute_wide` on a level 1 feed | component |
| `Policies` | threshold, fractional-limit and Kelly policies, each in its two forms | operators |
| `DepthBacktest` | the row loop with `_execute_l2` and `_execute_l2_narrow` | component over `Book` and `Policies` |
| `Frames` | numbers, cells, as-of alignment, null policies | operators |
| `Transforms` | configurations, signatures and arithmetic of the node functions and metrics | operators over `Frames` |
| `Declarations` | nodes, IDs, dependency order, taint, validation | operators over `Transforms` |
| `Evaluation` | what executing a graph computes, node by node | operators over `Declarations` |
| `Pipeline` | programs that declare, validate and execute a graph as data comes in | composes the four above |
| `MC_*` | constants and initial states for TLC | |
| `*_proofs` | theorems about the component | `WalkForward_proofs` is about `ModelPolicy` too |
| `Recursion` | lemmas: induction by sets, recursive sums, laws of products | used by `Backtest_proofs`, `DepthBacktest_proofs` and `Pipeline_proofs` |

Conventions. Where a module has several worlds (who takes part, what they may
do, how many may stop), they are variables that no step changes, so that one
run covers the worlds together and a property says in which it holds: an
executor or trainer that is `"absent"` never moves, `Sole` says that at most one
is not absent, `budgets`, `plans` and `stops` bound what may be done. Crashes
are bounded by `MaxCrashes`. A definition marked "mutant of" is a plausible bug
in the definition below it; no specification uses it, it shows that a property
depends on the code being as it is. The type invariants of `FrameCache`,
`GraphExecution`, `ModelStore` and `WalkForward` are proved rather than run.

### FrameCache

State: `manifest` and `files` are the entry, everything else is private to
an executor and lost when it stops. A file's content is the range of rows it
holds, so a truncated, overlapping or misordered frame shows. Opening a local
file truncates it (`OpenShard`, `OpenManifest`), closing it completes it; a
name that another executor removed meanwhile stays removed (`linked`). Looking for
the legacy file, for the manifest in S3 and for stale shards are steps of their
own, and removing what was found raises when another executor was faster. In S3
an object appears when its upload ends, the manifest is removed before the shards,
and what a listing sees of objects that come and go at the time is left open. The
lazy scan that a hit returns reads its files one by one, later
(`CollectFile`). An exception ends the read as a miss and the write without an
error, as the `except` clauses do. `Init` includes what an older release left:
one `data.parquet` with or without a manifest.

Properties: `HitIsWhole` (what a reader would scan now is the whole frame, though
`shard_count` is never compared), `ReadsWholeFrame` (what a reader did collect),
`HitIsNeverWithdrawn`, `EventuallyHit` (once executions are neither cut short nor
abandoned). All but `ReadsWholeFrame` are about one writer at a time. Fairness
is weak fairness of each executor's own steps: a process that runs goes on.

### GraphExecution

A frame is abstracted to the times of its rows and to the runs that inference
predicted it with, each with the end of the batch it was selected for (`uses`); a
lazy result has rows only. A source delivers the rows up to `feed`, which grows
between executions (`Grow`) under the same node IDs; any other node has the union
of its parents' times (`RowsOf`), as `align_inputs` makes it, and a trainer's
frame is empty. `Execute` lists any nodes, of which the terminals are taken as
`_coerce_terminals` takes them, with any `materialize` flags that validation
accepts, with the cache or without. `SearchNode` is one turn of the
backward search, in any order, since sets deliver the parents. The evaluation
loop takes `node_list`'s order with live inference moved to the end; one action
per branch of its body (`SkipNode`, `UseHit`, `MissParent`, `Train`,
`Materialize`, `Lower`, `FailCollect`). Collecting a frame runs the functions of
its lazy ancestors, which is when inference selects its run (`Collected`,
`Resolved`): of the manifest, which `Publish` keeps sorted by `trained_at`, the
last run with `trained_at` no later than the batch end. `ModelMissing` is the
`LookupError` when there is none, in an empty store or because every run was
trained on later data; an empty batch looks up nothing. A trainer publishes
`Own(end)`, where `end` is the last time of the rows it was given.
`TrainElsewhere` lets another graph publish runs with any `trained_at` at any
moment, and `ChangeModelDir` brings an executor with another, empty store.

Properties: `ParentsAreReady`, `FrontierIsDemanded` (the search evaluates exactly
what the terminals demand through misses), `CachedFramesStand`, `ExecutionsEnd`,
and three on the runs that predictions rest on:

- `FreshUnlessHit`: where no hit stands in for inference, every inference function
  that was given rows predicted, with a run trained no later than its batch ends
  and not superseded, when the execution began, by another such run;
- `InferenceSeesTraining`: what an execution infers itself, after it retrained the
  group on data that end no later than the batch, rests on a run at least as late
  as those data, which is what moving live inference to the end is for;
- `TrainedBeforeInference`: a graph that retrains its group finds a run when it
  infers, but in two cases that the code has and the property names: the trainer
  was given no rows, or some batch ends before the data it was trained on, so that
  `select_run` drops the run the same graph has just published and raises
  (`core/model.py` 1530).

The last two are stated of trainers that run. A trainer whose empty frame is
cached does not: `model_dir` is no part of its ID, so for an executor with the
same cache and another store it is a hit, nothing is trained and inference finds no
model (`core/graph.py` 729). `graph_foreign` has these executions.
Fairness: the executor is one thread that runs until it returns or raises.

Abstractions: one trainer and one model group; a function keeps the times of its
aligned inputs (no policy drops a row); a feed grows at its end and between two
executions only; the same rows train the same model, so a run is told apart by
who trained it and when its data end; explicit run ids, equal models under another
`trained_at` and artifacts are in `ModelStore`; pinned and `frozen`
inference is an inference node in a graph without a trainer; columns and values
are in `Pipeline`.

### ModelStore and RunLog

`ReadManifest`, `CheckFile`, `CreateFile` with `FillFile` or, in S3, `PutFile`,
`Compare`, `Publish` are the steps of `save_run`; a checkpoint's files are
sidecar, envelope and metadata, each written only when absent. The manifest is
replaced with `os.replace` or as one object, so publishing is one step. `Crash`
stops a trainer anywhere; nothing but files survives. A reader selects the run
and loads envelope and sidecar in separate steps, and only while the files are
whole. `legacy` and a first run in `manifest` are what an older release left: a
checkpoint in one JSON file that is read where the new envelope is not there
(`Readable`). The code looks for that file directly under the root (1244), while
`load_model`'s docstring places it in the group's directory; the model does what
the code does.

`RunLog` says what a manifest promises: runs in `trained_at` order, each model
once, later-recorded behind earlier ones of the same time. `ImplementsLog` is
that with `log <- IF Sole THEN manifest ELSE <<>>`.

Properties: `ManifestIsValid`, `SavedIsRecorded`, `SelectedIsLoadable`,
`LoadableStays`, `RecordedBecomesLoadable`, `ImplementsLog`. Their conditions say
what the code does not promise: a checkpoint torn by a stopped trainer is taken
for written ever after (`crashes = 0`), of two trainers the second truncates the
file the first is writing (`Sole`), and a local envelope that is being written
hides the older release's copy (`NothingHidden`). Fairness: a `save_run` that was
begun goes on unless it is stopped; nobody has to train.

### WalkForward and ModelPolicy

One pass over a frame of `total` rows. `Decide` is `Scheduler.decide`, with the
validation that raises; a scheduler is a set of basic ones, any of which acts
(`AnyScheduler`). `Fit` is the split of the rows before the cursor followed by
the fit, or the split's exception; `Predict` is the segment up to the decision's
boundary, its metric, and the step to the next segment. The splitter's
parameters are counts or fractions; sizes are rounded up as `_size` does it, in
exact rationals. A model is abstracted to the boundary it was fitted at and the
first row it did not see, so looking ahead is visible.

`ModelPolicy` is the pass a trading policy makes. `Consult` asks the scheduler
only when the boundary it last named is reached, `FitRemembered` splits the rows
of the ring instead of a frame's, `PredictRow` predicts one row and puts it in
the ring (`Remember`), whose start moves once it is full. `PolicySpec` is that pass
alone; the run has both, a behaviour being one or the other.

Properties: `RowsArePredictedOnce` (segments partition the frame), `NoLookahead`
(a prediction never depends on a row, or a target, that was not known at its
boundary), `ModelsAreRecent`, `SplitIsChronological`, `HistoryIsRecent` (a fit
sees the newest rows, oldest first, however often the ring wrapped), `PassEnds`.
Fairness: the pass is a loop of one thread.

Left out: what fitting and predicting compute. A segment's metric compares with
targets that `purge_window` calls unobserved at its end (881), which the
properties do not count as look-ahead: the metric only decides when to retrain.

### Book, LeanBacktest and Backtest

A row is a list of tasks that the executor works through in its own order.
`_execute` (fewer than eight assets) takes asset by asset: cancel, fill what
rests on the buy side, then on the sell side, then the policy's order.
`_execute_wide` takes all cancels, then all that rests, then all orders.
`NarrowTask` and `WideTask` are those orders, `config.wide` says which applies;
the width at which the code switches is left out, so that two assets are enough
to check both. `BeginRow` takes the row's quotes and liquidates a ruined book,
after which the frame is frozen (`End`). `FillWork` fills a resting order,
`FillOrder` rests, fills or drops the policy's order. Policies and risk policies
may answer anything: the order is chosen when its turn comes.

Money is in integers: a price of 1 is `Unit` of money and a rate is money per
price of 1, so a fee of half the notional and a rebate are exact. The dead-bands
of `_tolerances.py` exist to absorb rounding and are empty here.

Properties: `GateIsEquity` (the running figure that gates fills is the book's
equity), `FillsNeverBreach`, `ReachedOrdersAreFilled` (no resting order is passed
over), `OrdersExplainPositions`, and `ImplementsLean`: with a plain configuration
every step of either executor is a step of `LeanBacktest` or leaves all it sees
unchanged. The refinement mapping computes the lean executor's asset from the task.

`GateIsEquity` and `FillsNeverBreach` carry conditions that say what the code does:
`_execute` takes a sale's fee off the gate but not its slippage (823),
`_execute_wide` neither (946-959), and sales are not gated at all, so with costs on
sales the equity after a row may be negative.

### Policies and DepthBacktest

A row is one step: nothing runs beside it, and what could differ is the code path.
`Executed` computes it by the path for few assets (`Narrow`: asset after asset,
each stage on the book as it stands) or for many (`Wide`: cancels and what every
order takes of the ladders come from arrays made before the first settlement).
The narrow path is a run of `Asset` over the assets; the wide one makes the arrays
`StageWorking` and `StageOrders` first, settles with `SettleAll` and rests what is
left with `RestAll`. What a row asks for (`Asked`) and what the policy and the
risk policy make of it (`Decided`) are records that both paths read.
`Walk` is `_walk_ladder`; an average price appears only times its quantity, as
what the levels cost, which is exact. `Proposed` and `Effective` are the built-in
policies and risk policies by the same choice of path, from `Policies`.

Properties: `PathsAgree` (both paths give the same book and the same columns),
`RowsNeverBreach`, `FillsWalkTheLadder` (unit by unit against the displayed
levels), `RestingReconciles` (what left the resting orders and what was executed
is what positions changed by), `PositionsAreCapped`.

`PositionsAreCapped` has an exception the documentation of `FractionalLimitPolicy`
does not make: the cap is applied to the order against the position alone, so an
order of an earlier row that still rests may carry the position past it.

Quantities are whole: a policy's quotient is rounded towards zero where the code
keeps a float.

### Frames, Transforms, Declarations, Evaluation and Pipeline

`Frames` has cells (null, a rational, an infinity or NaN, or a vector of them),
the causal as-of alignment of a node's inputs with tolerances (`Align`) and the
null policies (`Prepare`: every lazy policy, then every handler). A program's own
null handler is a given one, which repeats the last value. `Transforms` has, per
function, the configurations it accepts, the signature it resolves against the
columns bound, and what it computes. Irrational results are represented by a
rational of the same order and sign: a logarithm by its argument, a root by the
signed square; an exponential (`Exp`) has no such representative and is left out.
Vectors have at most four components (`FeatureNames`).

`Declarations` has what `Node.__init__` refuses, the identity of definitions
(`SameDefinition`, for the hash of the canonical definition, which leaves out the
parameters a function names volatile: `Excluded`), the terminals and the
depth-first order of `Graph`, the look-ahead taint and the issues of
`Graph.validate`. `Evaluation` has one execution: the schema checks, the alignment,
the null policies, `apply` and the output check of each node (`Evaluate`), in the
dependency order (`Execute`). `Pipeline` puts them together: `Declare` builds a node
over those there are, `Observe` brings the next row of some sources and, when the
graph validates, executes it anew. A model's prediction is its first feature and a
backtest's column is its signal: what is computed is elsewhere, what is accepted
and how it is aligned is here. A trainer declares no outputs and makes an empty
frame. A model that is given rows raises unless the store its `model_dir` names is
in `Stores`, the stores with a finished model (`Refuses`). What a source reads is a
feed of a column type (`Feeds`), which the source declares (`DeclaresFeed`).

Properties: `AcceptedGraphsExecute` (what validation accepts fails on data only),
`OrderIsCanonical`, `SharedIDsShareFrames` (nodes with one ID compute one frame),
`UntaintedIsCausal` (what a node that is free of look-ahead computed for past
moments stays when a moment is added),
`OutputsAreFinite` (`Ratio` excepted: 0 / 0 stays NaN), `ComponentsStandAlone` (a
function of a vector is the function of its components; `LogRatio` excepted, whose
scalar and vector forms differ for two negative values), `PoliciesCommute`.

`SharedIDsShareFrames` has a condition on models. An ID leaves out `model_dir` and
`frozen` of a model and `model_dir` and `run_id` of a trainer
(`core/model.py` 1645-1647, 1725-1727), as `tests/test_train_infer_split.py`
222-254 asserts. Trainers of one ID make the same empty frame whatever these say,
and so do models that differ in `frozen`. Models that name different stores do not:
they share an ID, the graph runs the one it visits first, and the other's consumers
and cache entry get its frame. The property is about models that name one store;
without the condition TLC finds the two models.

`UntaintedIsCausal` excepts two kinds of ancestors. A metric has one row, at the
end. A model whose targets look ahead is free of taint, as it "converts labels into
predictions" (`core/graph.py` 1162), and what it predicts from does not change; but
its rows are at the union of the times of its features and of its targets, and a
target node that drops its nulls gets the row of a past moment when the label of
that moment becomes known. The prediction then has a row more in the past. Nothing
in the code or its documents says otherwise, so this is a condition and no finding.

## Runs

| Run | Instance | Shows |
|---|---|---|
| `cache_entry` | one executor, 5 rows, 1 to 5 shards that change from run to run, 3 crashes; or three executors that share an entry of one shard, one crash; local or S3 | a hit is whole and stays, writes eventually lead to one, readers of a shared entry collect the whole frame or fail |
| `cache_negative_slice` | 5 rows in 4 shards | finding |
| `graph_sole` | 4 nodes in ten wirings: a group trained on one feed and used on another or on both, trained on a feature, before or behind inference, or not trained and consumed; feeds of 0 to 2 rows | frontier, order, inference sees training, training before inference, every execution ends |
| `graph_foreign` | every declaration of 3 nodes with inference, feeds of 0 to 2 rows, runs published elsewhere that are trained before all data or at their end, an empty `model_dir` | only cached frames bring in superseded runs; they are never replaced |
| `graph_live_consumer` | every declaration of 3 nodes | finding |
| `store_group` | a network with a checkpoint and a linear model; one trainer, stopped at most once, and a reader; or two trainers at a time; given and drawn run ids; local, in S3, or after an upgrade | the manifest stays valid, what is selected and recorded can be loaded, one trainer implements `RunLog` |
| `store_lost_update` | two trainers | finding |
| `walk_pass` | frames of 1 to 8 rows, ten schedulers, 72 splitters, metrics 0 to 2; policies that remember 2 or 4 of up to 6 rows | the properties of a pass, by frame and row by row |
| `walk_frozen` | the frozen scheduler, 4 rows | finding |
| `backtest_l1` | two assets, 3 rows, 8 configurations, 3 quotes, 3 quantities, 2 limits | the properties of a backtest, implements `LeanBacktest` |
| `backtest_l2` | two assets, 2 rows, six pairs of two-level ladders, 8 vectors of signals, limits and cancels, 4 configurations | both paths agree, fills follow the ladder, caps hold |
| `pipeline` | two scalar sources and a vector, up to two more nodes of any function, null policy and tolerance, three moments of three observations | what is accepted executes, one order, one frame per ID, causality |

Why the bounds are enough for the cases that matter: five rows are the smallest
frame with a shard count that makes the length of a slice negative; three
executors give a reader one that deletes and one that rewrites; four nodes give a
branch, a join and a chain behind the trainer; two rows make a feed that ends
before, with or after another and a run that is trained before, at or after the
end of a batch; a crash stops a trainer before or
after the manifest, and the same trainer goes on with what it left; eight rows let
`every 3` and a metric check after 2 rows interleave, with purge and gap taking
rows away; six rows wrap a ring of four and wrap a ring of two several times; two
assets and three rows let an order rest in one row, be reached in the next, and
compete there with another asset's order before the third row ruins the book; two
rows of depth let a rest of the first row meet a new order in the second on the
same level; two nodes over three sources give a chain, a join, and twins
under one ID, and three moments a past, a present, and a future that could seep
into it.

Deadlock is checked where a system goes on: a pass that has ended and a frozen
book have a stuttering action. It is not checked in `pipeline`, where a program
really stops: nothing more is declared after `MaxNodes` nodes, and a graph that
does not validate, or that has seen `MaxRows` moments, is not executed again.

### Findings

- `cache_negative_slice`: with a shard budget that splits five rows into four shards
  the last slice has a negative length; the write raises after it removed the old
  files, silently, on every execution (`core/graph.py` 438).
- `graph_live_consumer`: live inference is moved behind all nodes, its own consumers
  included; such a graph validates and cannot be executed (`core/graph.py` 722).
- `store_lost_update`: `save_run` replaces a manifest it read before without a
  lock; of two concurrent trainers one run is lost (`core/model.py` 1493).
- `walk_frozen`: `{ frozen: true }` is documented to "train once on the initial
  prefix" and never trains (`core/model.py` 561).

Three more behaviours need no run of their own and can be seen by changing a
configuration. When executors that share an entry are given shard counts above one,
`ReadsWholeFrame` of `FrameCache` fails: a frame of several shards is read
truncated while another executor rewrites it. Without its conditions on hits
`TrainedBeforeInference` fails in `graph_foreign`: the cached trainer is a hit for
an executor with another `model_dir`, which has no model. Likewise
`FreshUnlessHit` fails there without its own: a cached inference frame keeps a
superseded run.

## Proofs

All theorems are for every value of the constants under the assumptions named in
the modules (a frame has a natural number of rows, quotes are positive with the
bid no more than the ask, declarations are acyclic, and so on); TLC evaluates the
assumptions on every run.

| Theorems | Argument |
|---|---|
| `FrameCache_proofs`: `TypeCorrect`, `HitsAreWhole`, `HitsAreKept` | `SoleInv`: what is stored at each point of the one writer's loop, on a directory and in S3; the shard arithmetic is a set of lemmas (`ShardBounds`, `ShardsOrdered`, `ShardsCover`). That a manifest names a frame's first shard is not inductive: it needs to be known that shards are finished in order and that a manifest exists only before the first removal or after the last shard. |
| `FrameCache_proofs`: `FramesAreReadWhole` | Two arguments for the two cases of `ReadsWholeFrame`. One executor: `Scanned` (the files listed and not yet read are what is stored, those read are the shards before them in order), preserved because the reader and the writer are one thread. Any number of executors that write one shard: `BudgetInv` (there is one file at a time, whole once it is closed, so a list has one element and a read gets the whole frame or fails), which does not depend on how the others interleave. |
| `GraphExecution_proofs`: `TypeCorrect`, `FrontierCorrect`, `ParentsComeFirst`, `CacheIsAppendOnly` | `TypeInv`; `SearchInv` (what is queued or visited is demanded, and what is demanded is queued, visited or behind a hit), from which the frontier is exact when the queue is empty; `EvalInv` (results exist for all nodes before the loop's place); `CacheInv` (hits are what the cache held when the execution began). `ParentsComeFirst` assumes that no node consumes live inference, the case in which the finding above does not arise. |
| `GraphExecution_proofs`: `ReturnsFreshFrames`, `InferenceIsUpToDate`, `TrainersComeFirst` | `StoreInv`: the store is sorted and lists what it listed when the execution began. `ResultInv` and `OutputInv`: a frame of the results or outputs is `Sound`, that is, each of its uses comes from a hit or is `Good` (selected for the end of its node's rows, and no listed run of the beginning, nor of a trainer that is done, lies between the two), and where no hit stands in for inference each inference function above it with rows has a use. The step is that of a collection, whose uses are resolved in the store as it is then: what it runs and what it reads together lie above exactly the nodes above its own (`MembersNest`, `PendingReads`). `TrainInv`: live inference is only visited when all other nodes are, and a trainer that was visited and is no hit has listed a run at the end of its rows; with `MissingInv` a lookup that fails has then failed for one of the two reasons that the property names. None of the three assumes anything of the other graphs or the directories. |
| `ModelStore_proofs`: `TypeCorrect`, `ManifestStaysValid`, `SoleTrainerRecords`, `ManifestImplementsLog` | `ReadInv`: a manifest that was read is valid too, so inserting in it yields a valid one (`InsertedIsValid`), although it may be outdated. For one trainer `SoleInv` says it is not, and then publishing is the abstract insertion. |
| `ModelStore_proofs`: `LoadableForGood`, `SelectedModelsLoad` | `OpensAbsent`: a sole trainer that is about to create a file found none that it would skip. `LoadInv`: the finished model is persisted first, a torn file is the one the trainer has open, what the manifest names is whole, and what a reader has selected is too; inductive for one trainer, while it was never stopped and no newer envelope hides an older checkpoint, the conditions of `SelectedIsLoadable`. |
| `WalkForward_proofs`: `TypeCorrect`, `DecisionsStayValid`, `SegmentsPartition`, `PredictionsHaveNoLookahead`, `ModelsStayRecent`, `SplitsAreChronological` | `WalkInv`: the properties, and `ModelInv` (the model at hand was fitted at `last` and saw none of the rows it may not see), `DueInv` (no scheduler's boundary lies behind the cursor). `LearnedRowsAreLabelled` bounds the splitter's sizes, fractions included, and `PartsAreApart` orders its parts. |
| `WalkForward_proofs`, of `ModelPolicy`: `FitsSeeTheNewestRows`, `PoliciesHaveNoLookahead`, `PoliciesPredictOnce`, `PolicyModelsStayRecent`, `PolicyDecisionsStayValid` | `PolicyInv` is `WalkInv` with `RingInv` (slot by slot, which row the ring holds; the step around the end of the array is `RememberedRows`) and `InForce` (a decision that is not yet due asks for no boundary later than any `every` scheduler would), which `WalkForward` does not need because it asks at every segment. |
| `Backtest_proofs`: `PositionsAreExplained`, `ImplementsLeanExecutor` | `BookInv`: types, a row begins with its first task, nothing rests without limits, and `TurnsAhead` (without limits an asset has executed nothing before its turn), which is what makes "adds to the executed order" and "sets the executed order" the same. |
| `Backtest_proofs`: `GateFollowsBook`, `FillsStayAboveZero`, `NoReachedOrderIsLeft` | `MoneyInv`: the gate's figure is the book's equity where it sees all costs and never above it where sales cost nothing; a fill changes the sum over the assets by its own summand (`TotalMoves`). `RestInv`: an order past its turn that the market has reached could not be afforded, and stays so, since no later fill of the row raises the figure; that needs no slippage and no rebates, the property's condition. |
| `DepthBacktest_proofs`: `BookFollowsRows`, `PathsAreOne`, `PositionsReconcile`, `FillsNeverRuin`, `CapsHold`, `FillsTakeTheBest` | A row is one step, so the invariant `RowsExplainBook` says only which function of the book before it a row is; the work is in lemmas about that function, one per stage and path (`SettleWorkingEffect`, `OrderedEffect`, `RestEffect`, `AssetEffect` and their `...Same`, `...Tracks`, `...Columns` forms). `ExecutorsAgree` carries the narrow run along the assets beside the wide one. `LimitCutsTheLadder` and `WalkTakesBestUnits` relate the cumulative sums of a ladder to its units. |
| `Pipeline_proofs`: `ProgramInvariant`, `OrdersAreCanonical`, `SharedIDsAreInterchangeable` | `ProgramInv`: nodes bind nodes built before them (`Acyclic`), a node's ID is the first node of its definition (`Identified`), and the frames are what `Execute` makes of the graph and the rows seen. The depth-first traversal is a function on nodes and orders, which exists because the nodes are acyclic (`TraversalVisits`); that it puts parents first and each ID once is `OrderSound`; that two listings visit nodes of the same IDs in the same order is `VisitAlike`, by induction on the ID. `ExecutionIsFixpoint`: executing leaves each ID with what the node that was taken for it (`Taken`) evaluates to over the final frames. Nodes of one ID agree in all that their evaluation reads (`SharedFunctions`), the store of a model excepted, which `OneStore` is about: the property's condition (`SharedOutcomes`). |
| `Pipeline_proofs`: `TypesInvariant`, `AcceptedGraphsRun` | `TypedInv`: each node is as its function resolved it (`Resolved`), the feeds hold cells of their types, and each executed node has a frame of the columns it declares, or a failure that only data can cause (`Settled`). Alignment and the null policies keep the types (`AlignFrame`, `PrepareFrame`), and every function of the library makes the columns it resolved from rows of the columns it expects (`AppliedFrame`), one lemma per kind. What validation has ruled out is, one by one, what `Evaluate` fails for. |
| `Pipeline_proofs`: `ComponentsAreComputations` | From `TypedInv` the parents' frames are typed, hence the aligned rows; then component by component (`AloneCells`), the shifts by the position they look at. |
| `Pipeline_proofs`: `PoliciesInAnyOrder` | `PrepareInAnyOrder`: what `Prepare` makes of a frame has a closed form that mentions the set of columns and not their order (`PreparedBy`): the rows that no dropping column misses, filled where a column fills, the whole raised when an erring column misses one of them, else repeated where a column has a handler. The recursion is followed column by column (`LazyStep`, `EagerStep`). |
| `Pipeline_proofs`: `UntaintedNodesAreCausal` | `Grown`: a frame of rows before a moment goes on with rows at it. What is observed makes the sources grow (`ObservedGrows`, with `SeenSoFar`: nothing seen lies in the future). As-of alignment of grown frames is grown (`GrownAlign`: the timeline only gets the moment, and what is matched at an earlier time, within a tolerance, was there), so are the prepared rows (`GrownPrepare`: a dropped row stays dropped, a fill looks at its row, a handler at rows before, and an "error" that did not raise found nothing), and so is what each function makes of them, `Lead` and the metrics excepted (`AppliedGrows`, one lemma per kind: windows `RollingLooksBack`, exponential weights `EwmLooksBack`, shifts, matrices, packing). Hence a node grows with its parents (`EvaluatedGrows`); `Clear`, the property's condition, holds of a node's parents when it holds of the node and keeps `Lead` and metrics out (`ClearFacts`); and `ExecutionGrows` goes through the nodes in order, each by the twin of its ID that validation has seen. |

Induction. The library's induction theorems take an operator as a parameter, which
the provers cannot instantiate. `Recursion` states them for sets: a set with 0 in it
that holds the successor of each of its numbers holds them all (`SetInduction`,
from the least number outside it), and the same on an interval
(`IntervalInduction`). What a lemma says of an index is then a set defined at the
start of the proof. `RunsExist` and `PartialRuns` show that the recursive functions
the models use (sums over assets or levels, the runs over the assets) exist and obey
their equations, `PartialMoves` that a sum moves with a summand.

Only model-checked:

- liveness, which TLAPS cannot state under fairness: `EventuallyHit`,
  `ExecutionsEnd`, `RecordedBecomesLoadable`, `PassEnds`;
- `OutputsAreFinite`: it needs, for each of some forty functions, the numerical range
  of its rationals, reduced by a recursive greatest common divisor and summed by
  folds, that is, induction over data.

`tlapm X_proofs.tla` checks a module's proofs; `tlc -config C.cfg MC_X.tla` a run.

## Not modelled

- Execution scopes (`core/utils.py` 73-165): context variables and their mirror in
  `os.environ`. `GraphExecution` has one execution at a time, for which a scope is
  entered and left in order; a module for the scopes of several threads would share
  no state with it. What two threads do to `os.environ` is listed as a hazard.
- Sources and adapters (`tsfn/adapters/`): files, buckets and web services that are
  read once, without a step that is undone or repeated. That chunk bytes are not
  compared with their digests is listed as a hazard.
- The strategy format (`strategy/`): a translation of documents to declarations,
  without state. What may be declared, and what is refused, is `Declarations`.
- Framework models (`models/`): estimators on top of libraries. When they are fitted,
  on which rows, and which files they leave are in `WalkForward` and `ModelStore`.
- Charts and the catalog: presentation, and a registry filled at import.
- Several executors that write one entry in S3 at a time: `FrameCache` has the
  behaviour, but `HitIsWhole` is stated for one writer, as no promise of the code
  covers more.
- Exponentials (`Exp`), and rounding: money, sizes and metrics are exact here;
  `_tolerances.py` has bands for the difference.

## Plan

1. `Scopes`: `_model_dir_scope` entered and left by threads of a process.
2. The manifest of Parquet chunks: what verification promises of the bytes that are
   scanned later.
