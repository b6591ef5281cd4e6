--------------------------- MODULE GraphExecution ---------------------------
(***************************************************************************)
(* iosislib.core.graph.LocalExecutor running graphs over shared nodes: the *)
(* backward search for cache hits, the evaluation of what is left in       *)
(* dependency order with live inference last, collected and lazy results,  *)
(* trainers whose collection publishes a model, the cache writes and the   *)
(* collection of the terminals.                                            *)
(*                                                                         *)
(* A frame is abstracted to the times of its rows and to the runs of the   *)
(* model group it was predicted with; functions keep the rows of their     *)
(* aligned inputs.  Feeds grow between executions under the same node IDs. *)
(* One cache entry is read and written in one step here; FrameCache has    *)
(* its files.  The store holds the manifest of one model group, whose runs *)
(* are told apart by who trained them and the data time they were trained  *)
(* at; ModelStore has its artifacts.                                       *)
(***************************************************************************)
EXTENDS Integers, Sequences, Manifest

CONSTANTS
  N,         \* number of nodes; 1..N is Graph.node_list's dependency order
  Programs,  \* declarations: each node's parents and role
  MaxTime,   \* bound on the times of rows
  Foreign,   \* runs that other graphs may publish in the group
  Relocates  \* whether executors with another, empty model_dir come along

Nodes == 1..N
Times == 1..MaxTime

\* What this program's trainer publishes: it is deterministic, and longer data
\* fit another model.
Own(at) == [by |-> "own", at |-> at]

ASSUME NAssumption == N \in Nat /\ MaxTime \in Nat
ASSUME ForeignAssumption == Foreign \subseteq [by : {"other"}, at : Nat]
ASSUME RelocatesAssumption == Relocates \in BOOLEAN
ASSUME ProgramsAssumption ==
  \A g \in Programs :
    /\ g.parents \in [Nodes -> SUBSET Nodes]
    /\ g.role \in [Nodes -> {"source", "transform", "trainer", "inference"}]
    /\ \A t, u \in Nodes : g.role[t] = "trainer" /\ g.role[u] = "trainer" => t = u
    /\ \A n \in Nodes :
         /\ \A p \in g.parents[n] : p < n /\ g.role[p] # "trainer"
         /\ g.parents[n] = {} <=> g.role[n] = "source"

VARIABLES
  prog,      \* the declared nodes, fixed
  cache,     \* node -> cached frame, or NoFrame
  feed,      \* time of the last row each source delivers, 0 without rows
  store,     \* runs of the group, as the manifest lists them
  pc,        \* "idle", "frontier", "evaluate", "collect", "done", "failed"
  why,       \* what ended a failed execution: "", "parent" or "model"
  graph,     \* the graph being executed
  useCache,  \* _cache_enabled
  queue,     \* nodes of the backward search still to look at
  required,  \* required_ids
  hits,      \* IDs in cached_frames
  visited,   \* nodes the evaluation loop is past
  results,   \* results: lazy or collected frame of each evaluated node
  outputs,   \* frames returned for the terminals
  begun      \* history: the store when the execution began

vars == <<prog, cache, feed, store, pc, why, graph, useCache, queue, required, hits,
          visited, results, outputs, begun>>

-----------------------------------------------------------------------------
(* Nodes and graphs *)

Parents(n) == prog.parents[n]
IsSource(n) == prog.role[n] = "source"
IsTrainer(n) == prog.role[n] = "trainer"
IsInference(n) == prog.role[n] = "inference"

\* The nodes reached from some by going on to the parents of those in through.
Reached(from, through) ==
  {n \in Nodes :
     \A S \in SUBSET Nodes :
       from \subseteq S /\ (\A c \in S \intersect through : Parents(c) \subseteq S) => n \in S}

\* Nodes of the graph built from roots: the ancestors, roots included.
Members(roots) == Reached(roots, Nodes)

\* Listed nodes that no listed node is bound to.
Terminals(listed) == {n \in listed : \A c \in listed : n \notin Parents(c)}

\* Mutant of LiveInference: all inference moves, whatever trains the group.
AllInference == {n \in graph.members : IsInference(n)}

\* _is_live_inference: the group has a trainer among the graph's nodes.
LiveInference ==
  {n \in graph.members : IsInference(n) /\ \E t \in graph.members : IsTrainer(t)}

\* The evaluation order: node_list with live inference moved to the end.
Precedes(a, b) ==
  \/ a \notin LiveInference /\ b \in LiveInference
  \/ (a \in LiveInference <=> b \in LiveInference) /\ a < b

-----------------------------------------------------------------------------
(* Frames *)

NoFrame == [kind |-> "none", uses |-> {}, rows |-> {}]
Lazy(rows) == [kind |-> "lazy", uses |-> {}, rows |-> rows]
Frame(uses, rows) == [kind |-> "frame", uses |-> uses, rows |-> rows]

\* Nodes whose functions run when the result of n is collected: n itself and
\* lazy ancestors, down to frames that are already in memory.
Pending(n, res) ==
  LET lazy == {n} \union {m \in Nodes : res[m].kind = "lazy"}
  IN  Reached({n}, lazy) \intersect lazy

\* A source's rows; otherwise the union timeline of the parents' rows.
RowsOf(n, res) ==
  IF IsSource(n) THEN 1..feed[n] ELSE UNION {res[p].rows : p \in Parents(n)}

IsLast(t, rows) == t \in rows /\ \A u \in rows : u <= t

\* What inference m over these rows predicts with: the run that select_run finds
\* at their end; no run is looked up for an empty frame.
Resolved(m, rows) ==
  {u \in [node : {m}, run : {store[i] : i \in 1..Len(store)}, end : rows] :
     /\ IsLast(u.end, rows)
     /\ \E i \in 1..Len(store) : store[i] = u.run /\ Selects(store, u.end, i)}

\* The frame that collecting n yields, from the frames it reads and the runs that
\* the inference functions resolve which run now; a trainer's frame is empty.
Collected(n, res) ==
  LET run == Pending(n, res)
      read == (UNION {Parents(m) : m \in run}) \ run
      inference == {m \in run : IsInference(m)}
  IN  IF IsTrainer(n) THEN Frame({}, {})
      ELSE Frame((UNION {res[m].uses : m \in read})
                   \union (UNION {Resolved(m, RowsOf(m, res)) : m \in inference}),
                 RowsOf(n, res))

\* select_run raises LookupError: the group has no run, or none that was trained
\* by the end of the batch.
ModelMissing(n, res) ==
  \E m \in Pending(n, res) :
    IsInference(m) /\ RowsOf(m, res) # {} /\ Resolved(m, RowsOf(m, res)) = {}

\* Mutant of Listed: a group that its trainer published in needs no other run.
ListedByTrainer(run) == \E i \in 1..Len(store) : store[i].by = run.by

\* save_run: a run whose model is listed is left as it is.
Listed(run) == \E i \in 1..Len(store) : store[i] = run
Publish(run) ==
  \/ Listed(run) /\ UNCHANGED store
  \/ /\ ~Listed(run)
     /\ \E k \in 0..Len(store) : GoesBehind(store, k, run) /\ store' = Inserted(store, k, run)

-----------------------------------------------------------------------------

NoGraph == [members |-> {}, terminals |-> {}, materialized |-> {}]

Init ==
  /\ prog \in Programs
  /\ cache = [n \in Nodes |-> NoFrame]
  /\ feed = [n \in Nodes |-> 0]
  /\ store = <<>>
  /\ pc = "idle" /\ why = ""
  /\ graph = NoGraph /\ useCache = FALSE
  /\ queue = {} /\ required = {} /\ hits = {} /\ visited = {}
  /\ results = [n \in Nodes |-> NoFrame]
  /\ outputs = [n \in Nodes |-> NoFrame]
  /\ begun = <<>>

\* Batch functions require materialization.
IsBatch(n) == IsTrainer(n) \/ IsInference(n)

\* execute(): the graph of any listed nodes, any materialize flags that validation
\* accepts, with the cache or without.
Execute ==
  /\ pc = "idle"
  /\ \E listed \in SUBSET Nodes \ {{}}, mat \in SUBSET Nodes, on \in BOOLEAN :
       LET terminals == Terminals(listed)
           members == Members(terminals)
       IN
         /\ mat \subseteq members /\ \A n \in members : IsBatch(n) => n \in mat
         /\ graph' = [members |-> members, terminals |-> terminals, materialized |-> mat]
         /\ useCache' = on
         /\ IF on THEN /\ queue' = terminals /\ required' = {}
                       /\ pc' = "frontier"
            ELSE /\ queue' = {} /\ required' = members
                 /\ pc' = "evaluate"
  /\ begun' = store
  /\ UNCHANGED <<prog, cache, feed, store, why, hits, visited, results, outputs>>

\* Mutant of SearchNode: a node that was seen before is not taken off the queue.
SearchPeeks(n) ==
  /\ pc = "frontier" /\ n \in queue /\ required' = required \union {n}
  /\ queue' = IF n \in required THEN queue
              ELSE (queue \ {n}) \union (IF cache[n] = NoFrame THEN Parents(n) ELSE {})
  /\ UNCHANGED <<prog, cache, feed, store, pc, why, graph, useCache, hits, visited, results,
                 outputs, begun>>

\* Mutant of SearchNode: a hit does not end the search along its branch.
SearchPastHits(n) ==
  /\ pc = "frontier" /\ n \in queue
  /\ required' = required \union {n}
  /\ queue' = (queue \ {n}) \union (IF n \in required THEN {} ELSE Parents(n))
  /\ hits' = IF ~IsSource(n) /\ cache[n] # NoFrame THEN hits \union {n} ELSE hits
  /\ UNCHANGED <<prog, cache, feed, store, pc, why, graph, useCache, visited, results, outputs,
                 begun>>

\* Nodes whose collected frame the cache may take.
WrittenAlways(n) == ~IsSource(n)         \* mutant of Written
Written(n) == useCache /\ ~IsSource(n)

\* _resolve_cache_frontier: one turn of the loop.  The order in which pop() and
\* the parent sets deliver the nodes is left open.
SearchNode(n) ==
  /\ pc = "frontier" /\ n \in queue
  /\ required' = required \union {n}
  /\ \/ /\ n \in required
        /\ queue' = queue \ {n} /\ UNCHANGED hits
     \/ /\ n \notin required /\ ~IsSource(n) /\ cache[n] # NoFrame
        /\ hits' = hits \union {n} /\ queue' = queue \ {n}
     \/ /\ n \notin required /\ (IsSource(n) \/ cache[n] = NoFrame)
        /\ queue' = (queue \ {n}) \union Parents(n) /\ UNCHANGED hits
  /\ UNCHANGED <<prog, cache, feed, store, pc, why, graph, useCache, visited, results, outputs,
                 begun>>

StartEvaluation ==
  /\ pc = "frontier" /\ queue = {} /\ pc' = "evaluate"
  /\ UNCHANGED <<prog, cache, feed, store, why, graph, useCache, queue, required, hits,
                 visited, results, outputs, begun>>

-----------------------------------------------------------------------------
(* _evaluate_to_terminals_with_hits: the loop over `ordered` *)

IsNext(n) ==
  /\ pc = "evaluate" /\ n \in graph.members \ visited
  /\ \A m \in graph.members \ visited : m = n \/ Precedes(n, m)

Visit(n, result) ==
  /\ visited' = visited \union {n}
  /\ results' = [results EXCEPT ![n] = result]
  /\ UNCHANGED <<prog, feed, pc, why, graph, useCache, queue, required, hits, outputs, begun>>

Fail(reason) ==
  /\ pc' = "failed" /\ why' = reason
  /\ UNCHANGED <<prog, cache, feed, store, graph, useCache, queue, required, hits, visited,
                 results, outputs, begun>>

\* Superseded upstream nodes are skipped.
SkipNode(n) ==
  /\ IsNext(n) /\ n \notin required
  /\ Visit(n, NoFrame) /\ UNCHANGED <<cache, store>>

UseHit(n) ==
  /\ IsNext(n) /\ n \in required \intersect hits
  /\ Visit(n, cache[n]) /\ UNCHANGED <<cache, store>>

Evaluates(n) == IsNext(n) /\ n \in required \ hits
InputsReady(n) == \A p \in Parents(n) : results[p] # NoFrame
IsTerminal(n) == n \in graph.terminals
IsMaterialized(n) == n \in graph.materialized

\* align_inputs looks up a result that is not there.
MissParent(n) == Evaluates(n) /\ ~InputsReady(n) /\ Fail("parent")

\* Mutant of CollectsNow: trainers stay lazy until the terminals are collected.
CollectsInnerOnly(n) == IsMaterialized(n) /\ ~IsTerminal(n)

\* A boundary the loop collects: trainers, and materialized inner nodes.
CollectsNow(n) == IsTrainer(n) \/ (IsMaterialized(n) /\ ~IsTerminal(n))

FailCollect(n) ==
  /\ Evaluates(n) /\ InputsReady(n) /\ CollectsNow(n) /\ ModelMissing(n, results)
  /\ Fail("model")

Train(n) ==
  /\ Evaluates(n) /\ InputsReady(n) /\ IsTrainer(n) /\ ~ModelMissing(n, results)
  /\ \/ RowsOf(n, results) = {} /\ UNCHANGED store
     \/ \E end \in RowsOf(n, results) : IsLast(end, RowsOf(n, results)) /\ Publish(Own(end))
  /\ Visit(n, Collected(n, results))
  /\ UNCHANGED cache

Materialize(n) ==
  /\ Evaluates(n) /\ InputsReady(n) /\ ~IsTrainer(n) /\ CollectsNow(n)
  /\ ~ModelMissing(n, results)
  /\ Visit(n, Collected(n, results))
  /\ cache' = IF Written(n)
              THEN [cache EXCEPT ![n] = Collected(n, results)] ELSE cache
  /\ UNCHANGED store

Lower(n) ==
  /\ Evaluates(n) /\ InputsReady(n) /\ ~CollectsNow(n)
  /\ Visit(n, Lazy(RowsOf(n, results))) /\ UNCHANGED <<cache, store>>

StartCollection ==
  /\ pc = "evaluate" /\ graph.members \subseteq visited
  /\ pc' = "collect" /\ queue' = graph.terminals
  /\ UNCHANGED <<prog, cache, feed, store, why, graph, useCache, required, hits, visited,
                 results, outputs, begun>>

-----------------------------------------------------------------------------
(* execute: collecting the terminals, and what happens between executions *)

TerminalFrame(n) ==
  IF results[n].kind = "lazy" THEN Collected(n, results) ELSE results[n]

FailTerminal(n) ==
  /\ pc = "collect" /\ n \in queue
  /\ results[n].kind = "lazy" /\ ModelMissing(n, results)
  /\ Fail("model")

CollectTerminal(n) ==
  /\ pc = "collect" /\ n \in queue
  /\ ~(results[n].kind = "lazy" /\ ModelMissing(n, results))
  /\ queue' = queue \ {n}
  /\ outputs' = [outputs EXCEPT ![n] = TerminalFrame(n)]
  /\ cache' = IF Written(n) /\ IsMaterialized(n) /\ n \notin hits
              THEN [cache EXCEPT ![n] = TerminalFrame(n)] ELSE cache
  /\ UNCHANGED <<prog, feed, store, pc, why, graph, useCache, required, hits, visited, results,
                 begun>>

Finish ==
  /\ pc = "collect" /\ queue = {} /\ pc' = "done"
  /\ UNCHANGED <<prog, cache, feed, store, why, graph, useCache, queue, required, hits,
                 visited, results, outputs, begun>>

\* The caller takes the outputs; cache and store stay for the next execution.
Return ==
  /\ pc \in {"done", "failed"}
  /\ pc' = "idle" /\ why' = ""
  /\ graph' = NoGraph /\ useCache' = FALSE
  /\ queue' = {} /\ required' = {} /\ hits' = {} /\ visited' = {}
  /\ results' = [n \in Nodes |-> NoFrame]
  /\ outputs' = [n \in Nodes |-> NoFrame]
  /\ begun' = <<>>
  /\ UNCHANGED <<prog, cache, feed, store>>

\* Another graph trains the group, with a trainer node of its own, in the store
\* this executor's model_dir names.
TrainElsewhere ==
  /\ \E run \in Foreign : ~Listed(run) /\ Publish(run)
  /\ UNCHANGED <<prog, cache, feed, pc, why, graph, useCache, queue, required, hits, visited,
                 results, outputs, begun>>

\* The next executor is built with a model_dir nothing was trained in.
ChangeModelDir ==
  /\ Relocates /\ pc = "idle" /\ store # <<>> /\ store' = <<>>
  /\ UNCHANGED <<prog, cache, feed, pc, why, graph, useCache, queue, required, hits, visited,
                 results, outputs, begun>>

\* A source that is pulled again has a row more.
Grow ==
  /\ pc = "idle"
  /\ \E n \in Nodes :
       IsSource(n) /\ feed[n] < MaxTime /\ feed' = [feed EXCEPT ![n] = @ + 1]
  /\ UNCHANGED <<prog, cache, store, pc, why, graph, useCache, queue, required, hits, visited,
                 results, outputs, begun>>

Step(n) ==
  \/ SearchNode(n) \/ SkipNode(n) \/ UseHit(n) \/ MissParent(n) \/ FailCollect(n)
  \/ Train(n) \/ Materialize(n) \/ Lower(n) \/ FailTerminal(n) \/ CollectTerminal(n)

Proceed ==
  \/ \E n \in Nodes : Step(n)
  \/ StartEvaluation \/ StartCollection \/ Finish

Next == Execute \/ Proceed \/ Return \/ TrainElsewhere \/ ChangeModelDir \/ Grow

\* The executor is one thread that runs until it returns or raises.
Spec == Init /\ [][Next]_vars /\ WF_vars(Proceed)

-----------------------------------------------------------------------------
(* What an execution promises *)

Runs == Foreign \union {Own(t) : t \in Times}
Uses == [node : Nodes, run : Runs, end : Times]
Frames ==
  {f \in [kind : {"none", "lazy", "frame"}, uses : SUBSET Uses, rows : SUBSET Times] :
     /\ f.kind # "frame" => f.uses = {}
     /\ f.kind = "none" => f.rows = {}}

\* Every variable keeps its type; the search and the evaluation stay within
\* the graph that is executed.
TypeOK ==
  /\ prog \in Programs
  /\ cache \in [Nodes -> Frames]
  /\ feed \in [Nodes -> 0..MaxTime]
  /\ store \in Seq(Runs)
  /\ pc \in {"idle", "frontier", "evaluate", "collect", "done", "failed"}
  /\ why \in {"", "parent", "model"}
  /\ graph \in [members : SUBSET Nodes, terminals : SUBSET Nodes,
                materialized : SUBSET Nodes]
  /\ useCache \in BOOLEAN
  /\ queue \subseteq graph.members /\ required \subseteq graph.members
  /\ hits \subseteq required /\ visited \subseteq graph.members
  /\ results \in [Nodes -> Frames]
  /\ outputs \in [Nodes -> Frames]
  /\ begun \in Seq(Runs)

\* The evaluation never reaches a node before its parents (every branch of a
\* valid graph executes), however the cache prunes the graph and the live
\* inference is moved.
ParentsAreReady == why # "parent"

\* Nodes that are asked for: the terminals, and the parents of those asked for
\* that did not hit.
Demanded == Reached(graph.terminals, Nodes \ hits)

\* The backward search stops exactly at the hits: a node that one branch prunes
\* and another needs is evaluated, and no superseded node is.
FrontierIsDemanded ==
  pc \in {"evaluate", "collect", "done"} => required = Demanded

\* Nodes with inference at or above them.
Infers(n) == \E m \in Members({n}) : IsInference(m)

\* Not trained later than the batch that it predicts ends, nor earlier than a run
\* that select_run would have found when the execution began.
NotSuperseded(u) ==
  /\ u.run.at <= u.end
  /\ \A i \in 1..Len(begun) : begun[i].at <= u.end => begun[i].at <= u.run.at

\* The frame of t is predicted with runs of that kind, by each of the inference
\* functions above it that were given rows ("resolves the latest finished run
\* whose trained_at is at or before the batch end", InferenceTSFN's docstring).
IsFresh(frame, t) ==
  /\ frame.kind = "frame" /\ \A u \in frame.uses : NotSuperseded(u)
  /\ ~IsTrainer(t) =>
       \A m \in Members({t}) : IsInference(m) /\ RowsOf(m, results) # {} =>
         \E u \in frame.uses : u.node = m

\* Executions return fresh frames as long as no cached frame stood in for an
\* inference: runs that other graphs publish meanwhile, in whatever order of
\* trained_at, data that grew, lazy and collected boundaries and pruning never
\* bring in a run that was superseded when the execution began.
FreshUnlessHit ==
  pc = "done" /\ (\A h \in hits : ~Infers(h)) =>
    \A t \in graph.terminals : IsFresh(outputs[t], t)

\* What this execution resolved itself, not by a cached frame.
Predictions(t) == outputs[t].uses \ UNION {results[h].uses : h \in hits}

\* Live inference "evaluates after every other node so the trainer's manifest
\* entry is visible" (Executor._evaluate_to_terminals): when the graph retrained
\* its group on data that do not end after a batch, that batch is predicted with
\* a run no older than those data.
InferenceSeesTraining ==
  pc = "done" =>
    \A t \in graph.members \ hits : IsTrainer(t) =>
      \A o \in graph.terminals : \A u \in Predictions(o) :
        LET trained == RowsOf(t, results) IN
          (\A row \in trained : row <= u.end) => \A row \in trained : row <= u.run.at

\* A graph that trains its group finds a model when it infers, unless the trainer
\* had no rows or the data to infer on end before those it was trained on; a
\* cached trainer is not trained again.
TrainedBeforeInference ==
  why = "model" =>
    \A t \in graph.members \ hits : IsTrainer(t) =>
      \/ RowsOf(t, results) = {}
      \/ \E m \in graph.members : \E row \in RowsOf(t, results) :
           IsInference(m) /\ RowsOf(m, results) # {}
             /\ \A own \in RowsOf(m, results) : own < row

\* A frame that was cached is never replaced or dropped by a later execution,
\* which is what lets readers hold a lazy scan of it.
CachedFramesStand ==
  [][\A n \in Nodes : cache[n] # NoFrame => cache'[n] = cache[n]]_vars

\* Every execution comes to an end: the search and the loops are finite.
ExecutionsEnd == pc # "idle" ~> pc \in {"done", "failed"}
=============================================================================
