----------------------------- MODULE ModelStore -----------------------------
(***************************************************************************)
(* iosislib.core.model.ModelStore on a local directory or in S3, for one   *)
(* model group: trainers that record runs with save_run and inference that *)
(* selects a run and loads its model, in separate processes over the same  *)
(* store.                                                                  *)
(*                                                                         *)
(* A checkpoint is content-addressed: whoever writes it writes the same    *)
(* bytes under the same names.  A file that was opened and not written, or *)
(* whose writer stopped halfway, is torn.  The manifest is replaced as a   *)
(* whole (a staging file named for the process, then os.replace; one       *)
(* object in S3), so staging and replacing are one step here.  An object   *)
(* appears when its upload ends.  A store of an older release has its      *)
(* manifest and its checkpoints, each in one JSON file, in other places,   *)
(* which are read when the files of this release are not there.            *)
(***************************************************************************)
EXTENDS Integers, Sequences, Manifest

CONSTANTS
  Trainers,    \* processes that call save_run
  Readers,     \* processes that infer
  Artifacts,   \* checkpoints, by content
  Weighted,    \* those with a framework sidecar (torch, LightGBM)
  Results,     \* what training may yield: a finished model and checkpoints
  Times,       \* data times: trained_at and the batch ends of inference
  RunIds,      \* explicit run ids that may be given
  MaxCrashes   \* bound on the crashes explored

NoId == "none"

ASSUME ProcessesAssumption == Trainers \intersect Readers = {}
ASSUME ArtifactsAssumption ==
  /\ Weighted \subseteq Artifacts
  /\ \A r \in Results : r.finished \in Artifacts /\ r.checkpoints \in Seq(Artifacts)
ASSUME TimesAssumption == Times \subseteq Nat
ASSUME RunIdsAssumption ==
  /\ RunIds \intersect Artifacts = {}
  /\ NoId \notin RunIds \union Artifacts
ASSUME MaxCrashesAssumption == MaxCrashes \in Nat

VARIABLES
  store,     \* where the store is: "local" or "s3"
  legacy,    \* checkpoints that an older release left
  plans,     \* the runs each trainer may come to record
  stops,     \* the crashes that may come, of the MaxCrashes explored
  manifest,  \* the group's runs, as manifest.json lists them
  files,     \* artifact files: "absent", "torn" or "whole"
  pc,        \* where each trainer and each reader stands
  job,       \* the run a trainer records
  seen,      \* the manifest a trainer has read
  todo,      \* checkpoints a trainer has still to persist
  part,      \* index of the file it is at
  model,     \* the model a reader resolved
  crashes    \* crashes so far

settings == <<store, legacy, plans, stops>>
vars == <<settings, manifest, files, pc, job, seen, todo, part, model, crashes>>

Parts == <<"sidecar", "envelope", "metadata">>  \* in the order they are written

-----------------------------------------------------------------------------
(* Runs *)

Jobs == [result : Results, at : Times, id : RunIds \union {NoId}]
Run(j) ==
  [id |-> IF j.id = NoId THEN j.result.finished ELSE j.id, at |-> j.at,
   model |-> j.result.finished, checkpoints |-> j.result.checkpoints]
Runs == {Run(j) : j \in Jobs}

\* Mutant of Settles: run ids are not compared.
SettlesByModel(run, j) == run.model = j.result.finished

\* An earlier run that decides what save_run does with j.
Settles(run, j) == run.model = j.result.finished \/ (j.id # NoId /\ run.id = j.id)

\* The first such run, which the loop over the manifest stops at, is index i.
SettledAt(runs, j, i) ==
  Settles(runs[i], j) /\ \A k \in 1..(i - 1) : ~Settles(runs[k], j)
Unsettled(runs, j) == \A i \in 1..Len(runs) : ~Settles(runs[i], j)

-----------------------------------------------------------------------------

NoJob == [result |-> [finished |-> NoId, checkpoints |-> <<>>], at |-> 0, id |-> NoId]

Init ==
  /\ store \in {"local", "s3"}
  /\ legacy \in SUBSET (Artifacts \ Weighted)
  /\ plans \in [Trainers -> SUBSET Jobs]
  /\ stops \in 0..MaxCrashes
  /\ manifest = <<>> \/ \E run \in Runs : run.model \in legacy /\ manifest = <<run>>
  /\ files = [m \in Artifacts |-> [p \in 1..3 |-> "absent"]]
  /\ pc \in [Trainers \union Readers -> {"idle", "absent"}]
  /\ job = [t \in Trainers |-> NoJob]
  /\ seen = [t \in Trainers |-> <<>>]
  /\ todo = [t \in Trainers |-> <<>>]
  /\ part = [t \in Trainers |-> 1]
  /\ model = [r \in Readers |-> NoId]
  /\ crashes = 0

Goto(a, label) == pc' = [pc EXCEPT ![a] = label]
Moves(a, from, to) == pc[a] = from /\ Goto(a, to)

-----------------------------------------------------------------------------
(* save_run *)

\* The checkpoints save_run persists, in order.
CheckpointsOnly(result) == result.checkpoints  \* mutant of ToPersist
ToPersist(result) == <<result.finished>> \o result.checkpoints

ReadManifest(t) ==
  /\ Moves(t, "idle", "persist")
  /\ \E j \in plans[t] :
       /\ job' = [job EXCEPT ![t] = j]
       /\ todo' = [todo EXCEPT ![t] = ToPersist(j.result)]
  /\ seen' = [seen EXCEPT ![t] = manifest]
  /\ part' = [part EXCEPT ![t] = 1]
  /\ UNCHANGED <<manifest, files, model, crashes>>

Current(t) == Head(todo[t])

\* Mutants of Skips: files are rewritten; weights are never persisted.
SkipsNothingThere(t) == Parts[part[t]] = "sidecar" /\ Current(t) \notin Weighted
SkipsWeights(t) == Parts[part[t]] = "sidecar" \/ files[Current(t)][part[t]] # "absent"

\* A JSON-only checkpoint has no sidecar; a file that is there is not written.
Skips(t) ==
  \/ Parts[part[t]] = "sidecar" /\ Current(t) \notin Weighted
  \/ files[Current(t)][part[t]] # "absent"

\* On to the next file, or to the next checkpoint behind the metadata.
Advance(t) ==
  IF part[t] < 3 THEN part' = [part EXCEPT ![t] = @ + 1] /\ UNCHANGED todo
  ELSE part' = [part EXCEPT ![t] = 1] /\ todo' = [todo EXCEPT ![t] = Tail(@)]

CheckFile(t) ==
  /\ pc[t] = "persist" /\ todo[t] # <<>>
  /\ \/ Skips(t) /\ Advance(t) /\ UNCHANGED pc
     \/ ~Skips(t) /\ Goto(t, "create") /\ UNCHANGED <<part, todo>>
  /\ UNCHANGED <<manifest, files, job, seen, model, crashes>>

\* write_bytes: open, which truncates, and one write of the whole payload.
CreateFile(t) ==
  /\ store = "local" /\ Moves(t, "create", "fill")
  /\ files' = [files EXCEPT ![Current(t)][part[t]] = "torn"]
  /\ UNCHANGED <<manifest, job, seen, todo, part, model, crashes>>

FillFile(t) ==
  /\ Moves(t, "fill", "persist")
  /\ files' = [files EXCEPT ![Current(t)][part[t]] = "whole"]
  /\ Advance(t)
  /\ UNCHANGED <<manifest, job, seen, model, crashes>>

PutFile(t) ==
  /\ store = "s3" /\ Moves(t, "create", "persist")
  /\ files' = [files EXCEPT ![Current(t)][part[t]] = "whole"]
  /\ Advance(t)
  /\ UNCHANGED <<manifest, job, seen, model, crashes>>

Compare(t) ==
  /\ todo[t] = <<>>
  /\ \/ Unsettled(seen[t], job[t]) /\ Moves(t, "persist", "publish")
     \/ \E i \in 1..Len(seen[t]) :
          /\ SettledAt(seen[t], job[t], i)
          /\ \/ /\ seen[t][i].model = job[t].result.finished
                /\ Moves(t, "persist", "kept")
             \/ /\ seen[t][i].model # job[t].result.finished
                /\ Moves(t, "persist", "refused")
  /\ UNCHANGED <<manifest, files, job, seen, todo, part, model, crashes>>

Publish(t) ==
  /\ Moves(t, "publish", "published")
  /\ \E k \in 0..Len(seen[t]) :
       /\ GoesBehind(seen[t], k, Run(job[t]))
       /\ manifest' = Inserted(seen[t], k, Run(job[t]))
  /\ UNCHANGED <<files, job, seen, todo, part, model, crashes>>

Forget(t) ==
  /\ Goto(t, "idle")
  /\ job' = [job EXCEPT ![t] = NoJob]
  /\ seen' = [seen EXCEPT ![t] = <<>>]
  /\ todo' = [todo EXCEPT ![t] = <<>>]
  /\ part' = [part EXCEPT ![t] = 1]
  /\ UNCHANGED <<manifest, files, model>>

Return(t) == pc[t] \in {"published", "kept", "refused"} /\ Forget(t) /\ UNCHANGED crashes

Crash(t) ==
  /\ crashes < stops /\ crashes' = crashes + 1
  /\ pc[t] \in {"persist", "create", "fill", "publish"} /\ Forget(t)

-----------------------------------------------------------------------------
(* InferenceTSFN._resolve_run and load_model *)

Resolve(r, label, m) ==
  /\ Moves(r, "idle", label)
  /\ model' = [model EXCEPT ![r] = m]
  /\ UNCHANGED <<manifest, files, job, seen, todo, part, crashes>>

SelectRun(r) ==
  \E at \in Times :
    \/ \E i \in 1..Len(manifest) :
         Selects(manifest, at, i) /\ Resolve(r, "envelope", manifest[i].model)
    \/ (\A i \in 1..Len(manifest) : manifest[i].at > at) /\ Resolve(r, "lookup", NoId)

\* model_id pinned by the node.
SelectPinned(r) ==
  \E m \in Artifacts :
    \/ (\E i \in 1..Len(manifest) : manifest[i].model = m) /\ Resolve(r, "envelope", m)
    \/ (\A i \in 1..Len(manifest) : manifest[i].model # m) /\ Resolve(r, "lookup", NoId)

\* load_native_bytes: the older place counts only where the file is not there.
Readable(m) == files[m][2] = "whole" \/ (files[m][2] = "absent" /\ m \in legacy)

ReadEnvelope(r) ==
  /\ \/ Moves(r, "envelope", "sidecar") /\ Readable(model[r])
     \/ Moves(r, "envelope", "unreadable") /\ ~Readable(model[r])
  /\ UNCHANGED <<manifest, files, job, seen, todo, part, model, crashes>>

\* The sidecar must be there and match the digest in the envelope.
ReadSidecar(r) ==
  /\ \/ /\ Moves(r, "sidecar", "loaded")
        /\ model[r] \in Weighted => files[model[r]][1] = "whole"
     \/ /\ Moves(r, "sidecar", "unreadable")
        /\ model[r] \in Weighted /\ files[model[r]][1] # "whole"
  /\ UNCHANGED <<manifest, files, job, seen, todo, part, model, crashes>>

Answer(r) ==
  /\ pc[r] \in {"loaded", "lookup", "unreadable"} /\ Goto(r, "idle")
  /\ model' = [model EXCEPT ![r] = NoId]
  /\ UNCHANGED <<manifest, files, job, seen, todo, part, crashes>>

-----------------------------------------------------------------------------

Save(t) ==
  \/ CheckFile(t) \/ CreateFile(t) \/ FillFile(t) \/ PutFile(t) \/ Compare(t) \/ Publish(t)
  \/ Return(t)

Load(r) ==
  \/ SelectRun(r) \/ SelectPinned(r) \/ ReadEnvelope(r) \/ ReadSidecar(r) \/ Answer(r)

Next ==
  /\ \/ \E t \in Trainers : ReadManifest(t) \/ Save(t) \/ Crash(t)
     \/ \E r \in Readers : Load(r)
  /\ UNCHANGED settings

\* A save_run that was begun goes on; nobody has to train or to crash.
Fairness == \A t \in Trainers : WF_vars(Save(t) /\ UNCHANGED settings)

Spec == Init /\ [][Next]_vars /\ Fairness

-----------------------------------------------------------------------------
(* What the store promises *)

Labels == {"absent", "idle", "persist", "create", "fill", "publish", "published", "kept",
           "refused", "envelope", "sidecar", "loaded", "lookup", "unreadable"}

\* Every variable keeps its type; a trainer that persists or publishes has a
\* job and is at one of its files (save_run, _write_checkpoint).
TypeOK ==
  /\ store \in {"local", "s3"} /\ legacy \subseteq Artifacts \ Weighted
  /\ plans \in [Trainers -> SUBSET Jobs] /\ stops \in 0..MaxCrashes
  /\ manifest \in Seq(Runs)
  /\ files \in [Artifacts -> [1..3 -> {"absent", "torn", "whole"}]]
  /\ pc \in [Trainers \union Readers -> Labels]
  /\ job \in [Trainers -> Jobs \union {NoJob}]
  /\ seen \in [Trainers -> Seq(Runs)]
  /\ todo \in [Trainers -> Seq(Artifacts)]
  /\ part \in [Trainers -> 1..3]
  /\ model \in [Readers -> Artifacts \union {NoId}]
  /\ crashes \in 0..MaxCrashes
  /\ \A t \in Trainers :
       /\ pc[t] \in {"persist", "create", "fill", "publish"} => job[t] \in Jobs
       /\ pc[t] \in {"create", "fill"} => todo[t] # <<>>

\* No two trainers take part.
Sole == \A t, u \in Trainers : pc[t] # "absent" /\ pc[u] # "absent" => t = u

Distinct(runs) ==
  \A i, k \in 1..Len(runs) :
    i # k => runs[i].model # runs[k].model /\ runs[i].id # runs[k].id

\* The manifest stays one that _validate_manifest accepts, and lists a model
\* and a run id once, however trainers interleave and wherever they stop.
ManifestIsValid == Sorted(manifest) /\ Distinct(manifest)

\* save_run records the run it returns for ("Record one training run").
SavedIsRecorded ==
  \A t \in Trainers : pc[t] \in {"published", "kept"} =>
    \E i \in 1..Len(manifest) : manifest[i].model = job[t].result.finished

\* What load_model accepts.
Whole(m) == Readable(m) /\ (m \in Weighted => files[m][1] = "whole")

\* Nothing of this release hides a checkpoint of an older one while it is written.
NothingHidden == legacy = {} \/ store = "s3"

\* Inference that selects a run can load its model where one process trains the
\* group and was not stopped halfway: a checkpoint is persisted, weights first,
\* before the run that names it, so that a reader in between finds it whole.  An
\* older checkpoint that is written again is unreadable while its file is open.
SelectedIsLoadable ==
  Sole /\ crashes = 0 /\ NothingHidden => \A r \in Readers : pc[r] # "unreadable"

\* A checkpoint that can be loaded is never truncated again by the process that
\* trains the group alone, whatever it retrains and wherever it was stopped; two
\* trainers may (the second opens a file it found absent, CreateFile).
LoadableStays ==
  [][Sole /\ NothingHidden => \A m \in Artifacts : Whole(m) => Whole(m)']_vars

\* Whatever trainers persist the same checkpoint at the same time, a run that
\* was recorded becomes loadable for good where no trainer is stopped halfway.
RecordedBecomesLoadable ==
  [](crashes = 0) =>
    \A m \in Artifacts :
      (\E i \in 1..Len(manifest) : manifest[i].model = m) ~> [](Whole(m))

\* The manifest of a group that one process trains at a time is the run log.
Log == INSTANCE RunLog WITH log <- IF Sole THEN manifest ELSE <<>>
ImplementsLog == Log!LogSpec
=============================================================================
