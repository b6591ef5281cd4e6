----------------------------- MODULE FrameCache -----------------------------
(***************************************************************************)
(* One entry of the frame cache of iosislib.core.graph.LocalExecutor: a    *)
(* manifest and the Parquet shards of one node's frame, in a local         *)
(* directory (_read_cache_local, _write_cache_local) or under an S3 prefix *)
(* (_read_cache_s3, _write_cache_s3), shared by the executors (processes)  *)
(* that run graphs holding that node.                                      *)
(*                                                                         *)
(* The node is content-addressed and deterministic, so every executor      *)
(* computes the same frame of FrameRows rows; what differs from one run to *)
(* the next is the shard budget, hence the number of shards the frame is   *)
(* split into.  A file's content is the half-open range of rows it holds.  *)
(* A local file being written is observable before it is complete, an      *)
(* object appears whole when its upload ends; an executor may stop at any  *)
(* step, and nothing but the files survives.                               *)
(***************************************************************************)
EXTENDS Integers, Sequences

CONSTANTS
  Executors,    \* the processes sharing the cache directory
  FrameRows,    \* rows of the node's frame
  ShardCounts,  \* shard counts the executors' byte budgets lead to
  MaxCrashes    \* bound on the crashes explored

ASSUME FrameRowsAssumption == FrameRows \in Nat
ASSUME ShardCountsAssumption ==
         \A n \in ShardCounts : n \in 1..FrameRows \/ n = 1
ASSUME MaxCrashesAssumption == MaxCrashes \in Nat

VARIABLES
  store,     \* where the entry is: "local" or "s3"
  budgets,   \* the shard counts each executor may come to
  manifest,  \* manifest.json: "absent", "partial" or "success"
  files,     \* the Parquet files of the entry, by name
  pc,        \* where each executor stands
  todo,      \* names an executor has listed and not yet handled
  got,       \* row ranges a reader has collected so far
  split,     \* the shard count a writer uses in this run
  next,      \* index of the shard a writer is at
  linked,    \* the shard file a writer holds open is still in the directory
  crashes    \* crashes so far, of the MaxCrashes explored

vars == <<store, budgets, manifest, files, pc, todo, got, split, next, linked, crashes>>

-----------------------------------------------------------------------------
(* Files and shards *)

Absent == [state |-> "absent", from |-> 0, to |-> 0]
Partial == [state |-> "partial", from |-> 0, to |-> 0]
Holding(from, to) == [state |-> "closed", from |-> from, to |-> to]

\* data.parquet of older releases is name 0 and part-0000i.parquet is name
\* i + 1, in the order sorted() gives them.
Legacy == 0
Part(i) == i + 1
MaxParts == IF FrameRows = 0 THEN 1 ELSE FrameRows
PartNames == 1..MaxParts
Names == 0..MaxParts

Present == {x \in Names : files[x] # Absent}
NoParts == {}                                   \* mutant of PresentParts
PresentParts == Present \ {Legacy}

First(names) == CHOOSE x \in names : \A y \in names : x <= y

RowsPer(n) == (FrameRows + n - 1) \div n

\* df.slice(i * rows_per, min(rows_per, total_rows - i * rows_per))
ShardFrom(n, i) == i * RowsPer(n)
ShardLength(n, i) ==
  LET left == FrameRows - ShardFrom(n, i)
  IN  IF RowsPer(n) <= left THEN RowsPer(n) ELSE left
Shard(n, i) == Holding(ShardFrom(n, i), ShardFrom(n, i) + ShardLength(n, i))

\* Polars raises on a slice that starts past the end with a negative length.
SliceRaises(n, i) == ShardLength(n, i) < 0
SplitRaises(n) == \E i \in 0..(n - 1) : SliceRaises(n, i)

-----------------------------------------------------------------------------

Init ==
  /\ \/ manifest = "absent" /\ files = [x \in Names |-> Absent]
     \/ /\ manifest \in {"absent", "success"}
        /\ files = [x \in Names |-> IF x = Legacy THEN Holding(0, FrameRows)
                                                  ELSE Absent]
  /\ store \in {"local", "s3"}
  /\ budgets \in [Executors -> SUBSET ShardCounts]
  /\ pc \in [Executors -> {"idle", "absent"}]
  /\ todo = [e \in Executors |-> {}]
  /\ got = [e \in Executors |-> <<>>]
  /\ split = [e \in Executors |-> 1]
  /\ next = [e \in Executors |-> 0]
  /\ linked = [e \in Executors |-> FALSE]
  /\ crashes \in 0..MaxCrashes

Goto(e, label) == pc' = [pc EXCEPT ![e] = label]
Moves(e, from, to) == pc[e] = from /\ Goto(e, to)

\* The private state of a run, forgotten when it ends.
Forget(e) ==
  /\ todo' = [todo EXCEPT ![e] = {}]
  /\ got' = [got EXCEPT ![e] = <<>>]
  /\ split' = [split EXCEPT ![e] = 1]
  /\ next' = [next EXCEPT ![e] = 0]
  /\ linked' = [linked EXCEPT ![e] = FALSE]

\* Removing a name leaves the handles open on it without a directory entry.
Unlink(names) ==
  /\ files' = [x \in Names |-> IF x \in names THEN Absent ELSE files[x]]
  /\ linked' = [w \in Executors |-> linked[w] /\ Part(next[w]) \notin names]

-----------------------------------------------------------------------------
(* _read_cache, and the collection of the lazy scan it returns *)

\* Mutant of ReadManifest: the cache is written but never read.
ReadNothing(e) ==
  /\ Moves(e, "idle", "miss")
  /\ UNCHANGED <<manifest, files, todo, got, split, next, linked, crashes>>

ReadManifest(e) ==
  /\ \/ manifest = "success" /\ Moves(e, "idle", "glob")
     \/ manifest # "success" /\ Moves(e, "idle", "miss")
  /\ UNCHANGED <<manifest, files, todo, got, split, next, linked, crashes>>

\* A scan of an S3 pattern that matches nothing raises: at once, which is a miss,
\* or when the frame is collected.
GlobShards(e) ==
  /\ \/ Present # {} /\ Moves(e, "glob", "scan")
     \/ Present = {} /\ Moves(e, "glob", "miss")
     \/ store = "s3" /\ Present = {} /\ Moves(e, "glob", "failed")
  /\ todo' = [todo EXCEPT ![e] = Present]
  /\ UNCHANGED <<manifest, files, got, split, next, linked, crashes>>

CollectFile(e) ==
  /\ pc[e] = "scan" /\ todo[e] # {}
  /\ LET x == First(todo[e]) IN
       IF files[x].state = "closed"
       THEN /\ got' = [got EXCEPT ![e] = Append(@, files[x])]
            /\ todo' = [todo EXCEPT ![e] = @ \ {x}]
            /\ UNCHANGED pc
       ELSE Goto(e, "failed") /\ UNCHANGED <<got, todo>>
  /\ UNCHANGED <<manifest, files, split, next, linked, crashes>>

Serve(e) ==
  /\ todo[e] = {} /\ Moves(e, "scan", "served")
  /\ UNCHANGED <<manifest, files, todo, got, split, next, linked, crashes>>

-----------------------------------------------------------------------------
(* _write_cache_local and _write_cache_s3: what is there is looked for, then *)
(* removed; what another executor removed in between raises, and every       *)
(* exception is logged and the write abandoned                               *)

AfterLegacy == IF store = "s3" THEN "unsign" ELSE "list"

FindLegacy(e) ==
  /\ Moves(e, "miss", IF Legacy \in Present THEN "found" ELSE AfterLegacy)
  /\ UNCHANGED <<manifest, files, todo, got, split, next, linked, crashes>>

\* Mutant of RemoveLegacy: data.parquet is left in place.
KeepLegacy(e) ==
  /\ Moves(e, "found", AfterLegacy)
  /\ UNCHANGED <<manifest, files, todo, got, split, next, linked, crashes>>

RemoveLegacy(e) ==
  /\ Moves(e, "found", IF Legacy \in Present THEN AfterLegacy ELSE "unsaved")
  /\ Unlink({Legacy})
  /\ UNCHANGED <<manifest, todo, got, split, next, crashes>>

\* In S3 the manifest goes before the shards it stands for.
FindManifest(e) ==
  /\ Moves(e, "unsign", IF manifest = "absent" THEN "list" ELSE "retract")
  /\ UNCHANGED <<manifest, files, todo, got, split, next, linked, crashes>>

DeleteManifest(e) ==
  /\ Moves(e, "retract", IF manifest = "absent" THEN "unsaved" ELSE "list")
  /\ manifest' = "absent"
  /\ UNCHANGED <<files, todo, got, split, next, linked, crashes>>

ListParts(e) ==
  /\ Moves(e, "list", "clean")
  /\ todo' = [todo EXCEPT ![e] = PresentParts]
  /\ UNCHANGED <<manifest, files, got, split, next, linked, crashes>>

UnlinkStale(e) ==
  /\ pc[e] = "clean" /\ todo[e] # {}
  /\ LET x == First(todo[e]) IN
       IF x \in Present
       THEN /\ Unlink({x})
            /\ todo' = [todo EXCEPT ![e] = @ \ {x}]
            /\ UNCHANGED pc
       ELSE Goto(e, "unsaved") /\ UNCHANGED <<files, linked, todo>>
  /\ UNCHANGED <<manifest, got, split, next, crashes>>

SplitIntoShards(e) ==
  /\ todo[e] = {}
  /\ \E n \in budgets[e] :
       /\ \/ SplitRaises(n) /\ Moves(e, "clean", "unsaved")
          \/ ~SplitRaises(n) /\ Moves(e, "clean", IF store = "s3" THEN "put" ELSE "open")
       /\ split' = [split EXCEPT ![e] = n]
  /\ next' = [next EXCEPT ![e] = 0]
  /\ UNCHANGED <<manifest, files, todo, got, linked, crashes>>

OpenShard(e) ==
  /\ Moves(e, "open", "write")
  /\ files' = [files EXCEPT ![Part(next[e])] = Partial]
  /\ linked' = [linked EXCEPT ![e] = TRUE]
  /\ UNCHANGED <<manifest, todo, got, split, next, crashes>>

CloseShard(e) ==
  /\ \/ next[e] + 1 < split[e] /\ Moves(e, "write", "open")
     \/ next[e] + 1 >= split[e] /\ Moves(e, "write", "stat")
  /\ files' = IF linked[e]
              THEN [files EXCEPT ![Part(next[e])] = Shard(split[e], next[e])]
              ELSE files
  /\ linked' = [linked EXCEPT ![e] = FALSE]
  /\ next' = [next EXCEPT ![e] = @ + 1]
  /\ UNCHANGED <<manifest, todo, got, split, crashes>>

StatShards(e) ==
  /\ \/ (\A i \in 0..(split[e] - 1) : Part(i) \in Present)
        /\ Moves(e, "stat", "sign")
     \/ (\E i \in 0..(split[e] - 1) : Part(i) \notin Present)
        /\ Moves(e, "stat", "unsaved")
  /\ UNCHANGED <<manifest, files, todo, got, split, next, linked, crashes>>

OpenManifest(e) ==
  /\ Moves(e, "sign", "signing")
  /\ manifest' = "partial"
  /\ UNCHANGED <<files, todo, got, split, next, linked, crashes>>

CloseManifest(e) ==
  /\ Moves(e, "signing", "saved")
  /\ manifest' = "success"
  /\ UNCHANGED <<files, todo, got, split, next, linked, crashes>>

-----------------------------------------------------------------------------
(* _write_cache_s3: objects are whole once uploaded *)

PutShard(e) ==
  /\ \/ next[e] + 1 < split[e] /\ Moves(e, "put", "put")
     \/ next[e] + 1 >= split[e] /\ Moves(e, "put", "register")
  /\ files' = [files EXCEPT ![Part(next[e])] = Shard(split[e], next[e])]
  /\ next' = [next EXCEPT ![e] = @ + 1]
  /\ UNCHANGED <<manifest, todo, got, split, linked, crashes>>

PutManifest(e) ==
  /\ Moves(e, "register", "saved")
  /\ manifest' = "success"
  /\ UNCHANGED <<files, todo, got, split, next, linked, crashes>>

-----------------------------------------------------------------------------

Ended == {"served", "failed", "saved", "unsaved"}

Return(e) ==
  /\ pc[e] \in Ended /\ Goto(e, "idle") /\ Forget(e)
  /\ UNCHANGED <<manifest, files, crashes>>

Crash(e) ==
  /\ crashes < MaxCrashes /\ crashes' = crashes + 1
  /\ pc[e] \notin Ended \union {"idle", "absent"} /\ Goto(e, "idle") /\ Forget(e)
  /\ UNCHANGED <<manifest, files>>

Act(e) ==
  \/ ReadManifest(e) \/ GlobShards(e) \/ CollectFile(e) \/ Serve(e)
  \/ FindLegacy(e) \/ RemoveLegacy(e) \/ FindManifest(e) \/ DeleteManifest(e)
  \/ ListParts(e) \/ UnlinkStale(e) \/ SplitIntoShards(e)
  \/ OpenShard(e) \/ CloseShard(e) \/ StatShards(e)
  \/ OpenManifest(e) \/ CloseManifest(e)
  \/ PutShard(e) \/ PutManifest(e) \/ Return(e)

Step(e) == Act(e) /\ UNCHANGED <<store, budgets>>

Next == \E e \in Executors : (Act(e) \/ Crash(e)) /\ UNCHANGED <<store, budgets>>

\* An executor that runs keeps running; crashes are never owed.
Fairness == \A e \in Executors : WF_vars(Step(e))

Spec == Init /\ [][Next]_vars /\ Fairness

-----------------------------------------------------------------------------
(* What the cache promises *)

Labels == {"absent", "idle", "glob", "scan", "miss", "found", "clean", "open", "write",
           "stat", "sign", "signing", "unsign", "retract", "list", "put", "register"}
            \union Ended

FileContents ==
  {Absent, Partial} \union
  {Holding(from, to) : from \in 0..FrameRows, to \in 0..FrameRows}

\* Every variable keeps its type; shard indices stay within the shards of the
\* run (_write_cache_local's enumerate(shards)).
TypeOK ==
  /\ store \in {"local", "s3"} /\ budgets \in [Executors -> SUBSET ShardCounts]
  /\ manifest \in {"absent", "partial", "success"}
  /\ files \in [Names -> FileContents]
  /\ pc \in [Executors -> Labels]
  /\ todo \in [Executors -> SUBSET Names]
  /\ got \in [Executors -> Seq(FileContents)]
  /\ split \in [Executors -> ShardCounts \union {1}]
  /\ next \in [Executors -> 0..MaxParts]
  /\ linked \in [Executors -> BOOLEAN]
  /\ crashes \in 0..MaxCrashes

\* No two executors take part.
Sole == \A a, b \in Executors : pc[a] # "absent" /\ pc[b] # "absent" => a = b

Hit == manifest = "success" /\ Present # {}

\* The closed files at names hold every row once, and in row order when they
\* are concatenated in name order.
HoldWholeFrame(names) ==
  /\ \A x \in names : files[x].state = "closed"
  /\ \A r \in 0..(FrameRows - 1) :
       \E x \in names : files[x].from <= r /\ r < files[x].to
  /\ \A x, y \in names : x < y => files[x].to <= files[y].from

\* What _read_cache would scan now, for an entry that one executor writes at a
\* time, is the whole frame, although the manifest's shard_count is never compared
\* with the files found: no crash of an earlier write, whatever its shard count,
\* leaves a shard behind that a later success manifest adopts.
HitIsWhole == Sole => (Hit => HoldWholeFrame(Present))

Tiles(ranges) ==
  /\ ranges # <<>>
  /\ ranges[1].from = 0 /\ ranges[Len(ranges)].to = FrameRows
  /\ \A i \in 1..(Len(ranges) - 1) : ranges[i].to = ranges[i + 1].from

\* A frame collected from the cache is the frame the node computes
\* (tests/test_cache.py, test_cache_hit_returns_identical_result), whatever
\* happened to the files while the lazy scan was pending, where nobody else
\* writes or the frame is within every executor's shard budget.
ReadsWholeFrame ==
  Sole \/ (\A e \in Executors : budgets[e] \subseteq {1}) =>
    \A e \in Executors : pc[e] = "served" => Tiles(got[e])

\* A write that nothing disturbs is not abandoned: the materialized result is
\* persisted and reused (LocalExecutor's class docstring).
WriteIsSaved == \A e \in Executors : pc[e] # "unsaved"

\* An entry that readers hit stays one they hit: writes only follow a miss.
HitIsNeverWithdrawn == [][Sole /\ Hit => Hit']_vars

\* Once executions are no longer cut short or abandoned, they come to publish
\* the entry for good, whatever the earlier ones left behind.
EventuallyHit == Sole => (<>[]WriteIsSaved => <>[]Hit)
=============================================================================
