-------------------------- MODULE ModelStore_proofs --------------------------
(* Proofs about ModelStore, for every set of trainers, readers, checkpoints,  *)
(* training results and times and any crashes: its types, that the manifest   *)
(* stays valid however trainers interleave, that a trainer on its own         *)
(* implements the run log and records what it returns for, that it truncates  *)
(* no checkpoint that could be loaded, and that what inference selects loads. *)
EXTENDS ModelStore, SequenceTheorems, TLAPS

-----------------------------------------------------------------------------
(* Runs and sequences of runs *)

LEMMA RunFields ==
  ASSUME NEW j \in Jobs
  PROVE  /\ Run(j).model = j.result.finished /\ Run(j).at = j.at
         /\ j.id = NoId => Run(j).id = j.result.finished
         /\ j.id # NoId => Run(j).id = j.id
BY DEF Run

LEMMA RunTypes == \A j \in Jobs : Run(j) \in Runs /\ Run(j).at \in Nat
BY TimesAssumption DEF Jobs, Runs, Run

LEMMA RunsHaveTimes == \A run \in Runs : run.at \in Nat
BY RunTypes DEF Runs

LEMMA OneRun == \A S : \A s \in S : <<s>> \in Seq(S) /\ Len(<<s>>) = 1
OBVIOUS

LEMMA EmptyRuns == \A S : <<>> \in Seq(S) /\ Len(<<>>) = 0
OBVIOUS

LEMMA InsertedTypes ==
  ASSUME NEW runs \in Seq(Runs), NEW k \in 0..Len(runs), NEW run \in Runs
  PROVE  /\ Inserted(runs, k, run) \in Seq(Runs)
         /\ Len(Inserted(runs, k, run)) = Len(runs) + 1
         /\ Inserted(runs, k, run)[k + 1] = run
         /\ \A i \in 1..k : Inserted(runs, k, run)[i] = runs[i]
         /\ \A i \in (k + 2)..(Len(runs) + 1) : Inserted(runs, k, run)[i] = runs[i - 1]
<1> DEFINE new == Inserted(runs, k, run)
           n == Len(runs)
<1>1. n \in Nat
  OBVIOUS
<1>2. \A i \in 1..n : runs[i] \in Runs
  OBVIOUS
<1>3. new \in [1..(n + 1) -> Runs]
  BY <1>1, <1>2 DEF Inserted
<1>4. new \in Seq(Runs) /\ Len(new) = n + 1
  BY <1>1, <1>3, LenProperties
<1>5. QED
  BY <1>1, <1>4 DEF Inserted

\* Put behind the runs that are no later, a run keeps the order; one that
\* nothing settles keeps the runs distinct.
LEMMA InsertedIsValid ==
  ASSUME NEW runs \in Seq(Runs), NEW k \in 0..Len(runs), NEW j \in Jobs,
         GoesBehind(runs, k, Run(j)), Unsettled(runs, j),
         Sorted(runs), Distinct(runs)
  PROVE  Sorted(Inserted(runs, k, Run(j))) /\ Distinct(Inserted(runs, k, Run(j)))
<1> DEFINE run == Run(j)
           new == Inserted(runs, k, run)
           n == Len(runs)
<1>1. /\ run \in Runs /\ run.at \in Nat /\ n \in Nat
      /\ \A i \in 1..n : runs[i] \in Runs /\ runs[i].at \in Nat
  BY RunTypes, RunsHaveTimes
<1>2. /\ Len(new) = n + 1 /\ new[k + 1] = run
      /\ \A i \in 1..k : new[i] = runs[i]
      /\ \A i \in (k + 2)..(n + 1) : new[i] = runs[i - 1]
  BY <1>1, InsertedTypes, ZenonT(60)
<1>3. /\ \A i \in 1..k : runs[i].at <= run.at
      /\ \A i \in (k + 1)..n : run.at <= runs[i].at
  BY <1>1 DEF GoesBehind
<1>4. \A i \in 1..n : runs[i].model # run.model /\ runs[i].id # run.id
  <2>1. ASSUME NEW i \in 1..n PROVE runs[i].model # run.model /\ runs[i].id # run.id
    <3>1. runs[i].model # run.model
      BY DEF Unsettled, Settles, Run
    <3>2. PICK h \in Jobs : runs[i] = Run(h)
      BY <1>1 DEF Runs
    <3>3. /\ h.result.finished \in Artifacts /\ j.result.finished \in Artifacts
          /\ h.id \in RunIds \union {NoId} /\ j.id \in RunIds \union {NoId}
      BY ArtifactsAssumption DEF Jobs
    <3>4. h.result.finished # j.result.finished
      BY <3>1, <3>2, RunFields
    <3>5. j.id # NoId => runs[i].id # j.id
      BY DEF Unsettled, Settles
    <3>6. CASE j.id = NoId
      <4>1. run.id = j.result.finished
        BY <3>6, RunFields
      <4>2. runs[i].id = h.result.finished \/ runs[i].id \in RunIds
        BY <3>2, <3>3, RunFields
      <4>3. QED
        BY <3>1, <3>3, <3>4, <4>1, <4>2, RunIdsAssumption
    <3>7. CASE j.id # NoId
      <4>1. run.id = j.id
        BY <3>7, RunFields
      <4>2. QED
        BY <3>1, <3>5, <3>7, <4>1
    <3>8. QED
      BY <3>6, <3>7
  <2>2. QED
    BY <2>1
<1> HIDE DEF run, new, n
<1>5. \A i \in 1..(n + 1) :
        \/ i <= k /\ i \in 1..n /\ new[i] = runs[i]
        \/ i = k + 1 /\ new[i] = run
        \/ i > k + 1 /\ i - 1 \in 1..n /\ i - 1 > k /\ new[i] = runs[i - 1]
  BY <1>1, <1>2 DEF n
<1>6. Sorted(new)
  <2>1. SUFFICES ASSUME NEW a \in 1..(n + 1), NEW b \in 1..(n + 1), a < b
                 PROVE  new[a].at <= new[b].at
    BY <1>2 DEF Sorted
  <2>2. \A i, m \in 1..n : i < m => runs[i].at <= runs[m].at
    BY DEF Sorted, n
  <2>3. k \in Nat /\ k <= n
    BY <1>1 DEF n
  <2>4. CASE b <= k
    BY <1>5, <2>1, <2>2, <2>3, <2>4
  <2>5. CASE a <= k /\ b = k + 1
    BY <1>3, <1>5, <2>1, <2>3, <2>5
  <2>6. CASE a <= k /\ b > k + 1
    <3>1. new[a] = runs[a] /\ a \in 1..n /\ new[b] = runs[b - 1] /\ b - 1 \in 1..n
      BY <1>5, <2>1, <2>3, <2>6
    <3>2. a < b - 1
      BY <2>1, <2>3, <2>6
    <3>3. QED
      BY <2>2, <3>1, <3>2
  <2>7. CASE a = k + 1
    <3>1. new[a] = run /\ new[b] = runs[b - 1] /\ b - 1 \in (k + 1)..n
      BY <1>1, <1>5, <2>1, <2>3, <2>7
    <3>2. QED
      BY <1>3, <3>1
  <2>8. CASE a > k + 1
    <3>1. new[a] = runs[a - 1] /\ a - 1 \in 1..n /\ new[b] = runs[b - 1] /\ b - 1 \in 1..n
      BY <1>5, <2>1, <2>3, <2>8
    <3>2. a - 1 < b - 1
      BY <2>1, <2>3, <2>8
    <3>3. QED
      BY <2>2, <3>1, <3>2
  <2>9. a \in Int /\ b \in Int /\ a < b
    BY <1>1, <2>1, <2>3 DEF n
  <2>10. \/ b <= k
         \/ a <= k /\ b = k + 1
         \/ a <= k /\ b > k + 1
         \/ a = k + 1
         \/ a > k + 1
    BY <2>3, <2>9
  <2>11. QED
    BY <2>4, <2>5, <2>6, <2>7, <2>8, <2>10
<1>7. Distinct(new)
  <2>1. SUFFICES ASSUME NEW a \in 1..(n + 1), NEW b \in 1..(n + 1), a # b
                 PROVE  new[a].model # new[b].model /\ new[a].id # new[b].id
    BY <1>2 DEF Distinct
  <2>2. \A i, m \in 1..n : i # m => runs[i].model # runs[m].model /\ runs[i].id # runs[m].id
    BY DEF Distinct, n
  <2>3. k \in Nat /\ k <= n
    BY <1>1 DEF n
  <2>4. CASE a = k + 1
    <3>1. PICK i \in 1..n : new[b] = runs[i]
      BY <1>5, <2>1, <2>3, <2>4
    <3>2. QED
      BY <1>2, <1>4, <2>4, <3>1
  <2>5. CASE b = k + 1
    <3>1. PICK i \in 1..n : new[a] = runs[i]
      BY <1>5, <2>1, <2>3, <2>5
    <3>2. QED
      BY <1>2, <1>4, <2>5, <3>1
  <2>6. CASE a # k + 1 /\ b # k + 1
    <3>1. PICK i \in 1..n : new[a] = runs[i] /\ i = IF a <= k THEN a ELSE a - 1
      BY <1>5, <2>1, <2>3, <2>6
    <3>2. PICK m \in 1..n : new[b] = runs[m] /\ m = IF b <= k THEN b ELSE b - 1
      BY <1>5, <2>1, <2>3, <2>6
    <3>3. i # m
      BY <2>1, <2>3, <2>6, <3>1, <3>2
    <3>4. QED
      BY <2>2, <3>1, <3>2, <3>3
  <2>7. QED
    BY <2>4, <2>5, <2>6
<1>8. QED
  BY <1>6, <1>7 DEF new, run

-----------------------------------------------------------------------------
(* Types *)

LEMMA TypeInit == Init => TypeOK
<1> SUFFICES ASSUME Init PROVE TypeOK
  OBVIOUS
<1>1. manifest \in Seq(Runs) /\ seen \in [Trainers -> Seq(Runs)]
      /\ todo \in [Trainers -> Seq(Artifacts)]
  BY EmptyRuns, OneRun DEF Init
<1>2. crashes \in 0..MaxCrashes
  BY MaxCrashesAssumption DEF Init
<1>3. pc \in [Trainers \union Readers -> Labels]
  BY DEF Init, Labels
<1>4. store \in {"local", "s3"} /\ legacy \subseteq Artifacts \ Weighted
      /\ plans \in [Trainers -> SUBSET Jobs] /\ stops \in 0..MaxCrashes
  BY DEF Init
<1>5. /\ files \in [Artifacts -> [1..3 -> {"absent", "torn", "whole"}]]
      /\ job \in [Trainers -> Jobs \union {NoJob}]
      /\ part \in [Trainers -> 1..3] /\ model \in [Readers -> Artifacts \union {NoId}]
  BY DEF Init
<1>6. \A t \in Trainers : pc[t] \in {"idle", "absent"}
  BY DEF Init
<1>7. QED
  BY <1>1, <1>2, <1>3, <1>4, <1>5, <1>6 DEF TypeOK

LEMMA CurrentType ==
  ASSUME TypeOK, NEW t \in Trainers, todo[t] # <<>>
  PROVE  Current(t) \in Artifacts /\ Tail(todo[t]) \in Seq(Artifacts)
<1>1. todo[t] \in Seq(Artifacts)
  BY DEF TypeOK
<1>2. QED
  BY <1>1 DEF Current

\* Advance keeps the types of what it moves.
LEMMA AdvanceTypes ==
  ASSUME TypeOK, NEW t \in Trainers, todo[t] # <<>>, Advance(t)
  PROVE  /\ todo' \in [Trainers -> Seq(Artifacts)] /\ part' \in [Trainers -> 1..3]
         /\ \A u \in Trainers \ {t} : todo'[u] = todo[u]
<1>1. Tail(todo[t]) \in Seq(Artifacts)
  BY CurrentType
<1>2. todo \in [Trainers -> Seq(Artifacts)] /\ part \in [Trainers -> 1..3]
  BY DEF TypeOK
<1>3. CASE part[t] < 3
  BY <1>2, <1>3 DEF Advance
<1>4. CASE ~(part[t] < 3)
  <2>1. /\ part' = [part EXCEPT ![t] = 1]
        /\ todo' = [todo EXCEPT ![t] = Tail(todo[t])]
    BY <1>4 DEF Advance
  <2>2. QED
    BY <1>1, <1>2, <2>1
<1>5. QED
  BY <1>3, <1>4

LEMMA SaveTypes ==
  ASSUME TypeOK, NEW t \in Trainers, ReadManifest(t) \/ Save(t) \/ Crash(t),
         UNCHANGED settings
  PROVE  TypeOK'
<1> USE ProcessesAssumption DEF settings
<1>1. CASE ReadManifest(t)
  <2>1. PICK j \in Jobs : job' = [job EXCEPT ![t] = j]
                          /\ todo' = [todo EXCEPT ![t] = ToPersist(j.result)]
    BY <1>1 DEF ReadManifest, TypeOK
  <2>2. ToPersist(j.result) \in Seq(Artifacts)
    BY ArtifactsAssumption DEF ToPersist, Jobs
  <2>3. QED
    BY <1>1, <2>1, <2>2 DEF ReadManifest, Moves, Goto, TypeOK, Labels
<1>2. CASE CheckFile(t)
  <2>1. pc[t] = "persist" /\ todo[t] # <<>> /\ job[t] \in Jobs
    BY <1>2 DEF CheckFile, TypeOK
  <2>2. CASE Advance(t) /\ UNCHANGED pc
    BY <1>2, <2>1, <2>2, AdvanceTypes DEF CheckFile, TypeOK
  <2>3. CASE Goto(t, "create") /\ UNCHANGED <<part, todo>>
    BY <1>2, <2>1, <2>3 DEF CheckFile, Goto, TypeOK, Labels
  <2>4. QED
    BY <1>2, <2>2, <2>3 DEF CheckFile
<1>3. CASE CreateFile(t)
  <2>1. todo[t] # <<>> /\ job[t] \in Jobs
    BY <1>3 DEF CreateFile, Moves, TypeOK
  <2>2. Current(t) \in Artifacts /\ part[t] \in 1..3
    BY <2>1, CurrentType DEF TypeOK
  <2>3. files' \in [Artifacts -> [1..3 -> {"absent", "torn", "whole"}]]
    BY <1>3, <2>2 DEF CreateFile, TypeOK
  <2>4. QED
    BY <1>3, <2>1, <2>3 DEF CreateFile, Moves, Goto, TypeOK, Labels
<1>4. CASE FillFile(t)
  <2>1. todo[t] # <<>> /\ job[t] \in Jobs
    BY <1>4 DEF FillFile, Moves, TypeOK
  <2>2. Current(t) \in Artifacts /\ part[t] \in 1..3
    BY <2>1, CurrentType DEF TypeOK
  <2>3. files' \in [Artifacts -> [1..3 -> {"absent", "torn", "whole"}]]
    BY <1>4, <2>2 DEF FillFile, TypeOK
  <2>4. todo' \in [Trainers -> Seq(Artifacts)] /\ part' \in [Trainers -> 1..3]
        /\ \A u \in Trainers \ {t} : todo'[u] = todo[u]
    BY <1>4, <2>1, AdvanceTypes DEF FillFile
  <2>5. QED
    BY <1>4, <2>1, <2>3, <2>4 DEF FillFile, Moves, Goto, TypeOK, Labels
<1>11. CASE PutFile(t)
  <2>1. todo[t] # <<>> /\ job[t] \in Jobs
    BY <1>11 DEF PutFile, Moves, TypeOK
  <2>2. Current(t) \in Artifacts /\ part[t] \in 1..3
    BY <2>1, CurrentType DEF TypeOK
  <2>3. files' \in [Artifacts -> [1..3 -> {"absent", "torn", "whole"}]]
    BY <1>11, <2>2 DEF PutFile, TypeOK
  <2>4. todo' \in [Trainers -> Seq(Artifacts)] /\ part' \in [Trainers -> 1..3]
        /\ \A u \in Trainers \ {t} : todo'[u] = todo[u]
    BY <1>11, <2>1, AdvanceTypes DEF PutFile
  <2>5. QED
    BY <1>11, <2>1, <2>3, <2>4 DEF PutFile, Moves, Goto, TypeOK, Labels
<1>5. CASE Compare(t)
  <2>1. PICK label \in {"publish", "kept", "refused"} : Moves(t, "persist", label)
    BY <1>5 DEF Compare
  <2>2. UNCHANGED <<manifest, files, job, seen, todo, part, model, crashes>>
    BY <1>5 DEF Compare
  <2>3. QED
    BY <2>1, <2>2 DEF Moves, Goto, TypeOK, Labels
<1>6. CASE Publish(t)
  <2>1. job[t] \in Jobs /\ seen[t] \in Seq(Runs)
    BY <1>6 DEF Publish, Moves, TypeOK
  <2>2. manifest' \in Seq(Runs)
    BY <1>6, <2>1, InsertedTypes, RunTypes DEF Publish
  <2>3. QED
    BY <1>6, <2>2 DEF Publish, Moves, Goto, TypeOK, Labels
<1>7. ASSUME Forget(t), crashes' \in 0..MaxCrashes
      PROVE  TypeOK'
  BY <1>7, EmptyRuns DEF Forget, Goto, TypeOK, Labels
<1>8. CASE Return(t)
  BY <1>7, <1>8 DEF Return, TypeOK
<1>9. CASE Crash(t)
  BY <1>7, <1>9, MaxCrashesAssumption DEF Crash, TypeOK
<1>10. QED
  BY <1>1, <1>2, <1>3, <1>4, <1>5, <1>6, <1>8, <1>9, <1>11 DEF Save

LEMMA LoadTypes ==
  ASSUME TypeOK, NEW r \in Readers, Load(r), UNCHANGED settings
  PROVE  TypeOK'
<1> USE ProcessesAssumption DEF settings
<1>1. ASSUME NEW label \in Labels, NEW m \in Artifacts \union {NoId}, Resolve(r, label, m)
      PROVE  TypeOK'
  BY <1>1 DEF Resolve, Moves, Goto, TypeOK
<1>2. CASE SelectRun(r)
  <2>1. \A i \in 1..Len(manifest) : manifest[i].model \in Artifacts
    <3>1. \A run \in Runs : run.model \in Artifacts
      BY RunFields, ArtifactsAssumption DEF Runs, Jobs
    <3>2. QED
      BY <3>1 DEF TypeOK
  <2>2. QED
    BY <1>1, <1>2, <2>1 DEF SelectRun, Labels
<1>3. CASE SelectPinned(r)
  BY <1>1, <1>3 DEF SelectPinned, Labels
<1>4. CASE ReadEnvelope(r) \/ ReadSidecar(r)
  <2>1. PICK from \in Labels, label \in {"sidecar", "loaded", "unreadable"} : Moves(r, from, label)
    BY <1>4 DEF ReadEnvelope, ReadSidecar, Labels
  <2>2. UNCHANGED <<manifest, files, job, seen, todo, part, model, crashes>>
    BY <1>4 DEF ReadEnvelope, ReadSidecar
  <2>3. QED
    BY <2>1, <2>2 DEF Moves, Goto, TypeOK, Labels
<1>5. CASE Answer(r)
  BY <1>5 DEF Answer, Goto, TypeOK, Labels
<1>6. QED
  BY <1>2, <1>3, <1>4, <1>5 DEF Load

LEMMA TypeStep == TypeOK /\ [Next]_vars => TypeOK'
<1>1. TypeOK /\ UNCHANGED vars => TypeOK'
  BY DEF TypeOK, vars, settings
<1>2. QED
  BY <1>1, SaveTypes, LoadTypes DEF Next

\* Every variable keeps its type, and a trainer that persists is at one of its
\* files (save_run, _write_checkpoint), whoever else uses the store.
THEOREM TypeCorrect == Spec => []TypeOK
BY TypeInit, TypeStep, PTL DEF Spec

-----------------------------------------------------------------------------
(* The manifest stays valid *)

Valid(runs) == Sorted(runs) /\ Distinct(runs)

\* What a trainer has read is valid too, and before it publishes nothing in it
\* settles its job.
ReadInv ==
  /\ Valid(manifest)
  /\ \A t \in Trainers : Valid(seen[t])
  /\ \A t \in Trainers : pc[t] = "publish" => Unsettled(seen[t], job[t])

LEMMA EmptyIsValid == Valid(<<>>)
BY DEF Valid, Sorted, Distinct

LEMMA OneIsValid == \A run \in Runs : Valid(<<run>>)
<1> SUFFICES ASSUME NEW run \in Runs PROVE Valid(<<run>>)
  OBVIOUS
<1>1. Len(<<run>>) = 1 /\ <<run>>[1] = run /\ run.at \in Nat
  BY OneRun, RunsHaveTimes
<1>2. QED
  BY <1>1 DEF Valid, Sorted, Distinct

LEMMA ReadInit == Init => ReadInv
<1> SUFFICES ASSUME Init PROVE ReadInv
  OBVIOUS
<1>1. \A t \in Trainers : pc[t] # "publish"
  BY DEF Init
<1>2. QED
  BY <1>1, EmptyIsValid, OneIsValid DEF Init, ReadInv

LEMMA ReadStep == TypeOK /\ ReadInv /\ [Next]_vars => ReadInv'
<1> SUFFICES ASSUME TypeOK, ReadInv, [Next]_vars PROVE ReadInv'
  OBVIOUS
<1> USE ProcessesAssumption
<1>1. ASSUME NEW t \in Trainers, ReadManifest(t) PROVE ReadInv'
  <2>1. /\ seen' = [seen EXCEPT ![t] = manifest] /\ seen \in [Trainers -> Seq(Runs)]
        /\ \A u \in Trainers :
             pc'[u] = "publish" => u # t /\ pc[u] = "publish" /\ job'[u] = job[u]
        /\ UNCHANGED manifest
    BY <1>1 DEF ReadManifest, Moves, Goto, TypeOK
  <2>2. \A u \in Trainers : seen'[u] = IF u = t THEN manifest ELSE seen[u]
    BY <2>1
  <2>3. \A u \in Trainers : Valid(seen'[u])
    BY <2>2 DEF ReadInv
  <2>4. \A u \in Trainers : pc'[u] = "publish" => Unsettled(seen'[u], job'[u])
    BY <2>1, <2>2 DEF ReadInv
  <2>5. Valid(manifest')
    BY <2>1 DEF ReadInv
  <2>6. QED
    BY <2>3, <2>4, <2>5 DEF ReadInv, Valid, Sorted, Distinct, Unsettled, Settles
<1>2. ASSUME NEW t \in Trainers, CheckFile(t) \/ CreateFile(t) \/ FillFile(t) \/ PutFile(t)
      PROVE  ReadInv'
  <2>1. /\ pc' \in [Trainers \union Readers -> Labels]
        /\ \A u \in Trainers : pc'[u] = "publish" => pc[u] = "publish"
        /\ UNCHANGED <<manifest, job, seen>>
    BY <1>2 DEF CheckFile, CreateFile, FillFile, PutFile, Moves, Goto, TypeOK, Labels
  <2>2. QED
    BY <2>1 DEF ReadInv, Valid, Sorted, Distinct, Unsettled, Settles
<1>3. ASSUME NEW t \in Trainers, Compare(t) PROVE ReadInv'
  <2>1. \A u \in Trainers : pc'[u] = "publish" => Unsettled(seen[u], job[u])
    BY <1>3 DEF Compare, Moves, Goto, ReadInv, TypeOK
  <2>2. UNCHANGED <<manifest, job, seen>>
    BY <1>3 DEF Compare
  <2>3. QED
    BY <2>1, <2>2 DEF ReadInv, Valid, Sorted, Distinct, Unsettled, Settles
<1>4. ASSUME NEW t \in Trainers, Publish(t) PROVE ReadInv'
  <2>1. job[t] \in Jobs /\ seen[t] \in Seq(Runs) /\ Unsettled(seen[t], job[t])
        /\ Valid(seen[t])
    BY <1>4 DEF Publish, Moves, TypeOK, ReadInv
  <2>2. PICK k \in 0..Len(seen[t]) : GoesBehind(seen[t], k, Run(job[t]))
                                     /\ manifest' = Inserted(seen[t], k, Run(job[t]))
    BY <1>4 DEF Publish
  <2>3. Sorted(manifest') /\ Distinct(manifest')
    BY <2>1, <2>2, InsertedIsValid DEF Valid
  <2>4. \A u \in Trainers : pc'[u] = "publish" => Unsettled(seen[u], job[u])
    BY <1>4 DEF Publish, Moves, Goto, ReadInv, TypeOK
  <2>5. UNCHANGED <<job, seen>>
    BY <1>4 DEF Publish
  <2>6. QED
    BY <2>3, <2>4, <2>5 DEF ReadInv, Valid, Sorted, Distinct, Unsettled, Settles
<1>5. ASSUME NEW t \in Trainers, Return(t) \/ Crash(t) PROVE ReadInv'
  <2>1. Forget(t)
    BY <1>5 DEF Return, Crash
  <2>2. /\ seen' \in [Trainers -> Seq(Runs)] /\ seen'[t] = <<>>
        /\ \A u \in Trainers \ {t} : seen'[u] = seen[u] /\ job'[u] = job[u]
        /\ \A u \in Trainers \ {t} : pc'[u] = pc[u]
        /\ pc'[t] = "idle" /\ manifest' = manifest
    BY <2>1, EmptyRuns DEF Forget, Goto, TypeOK
  <2>3. \A u \in Trainers : Valid(seen'[u])
    BY <2>2, EmptyIsValid DEF ReadInv
  <2>4. \A u \in Trainers : pc'[u] = "publish" => Unsettled(seen'[u], job'[u])
    <3>1. ASSUME NEW u \in Trainers, pc'[u] = "publish"
          PROVE  seen'[u] = seen[u] /\ job'[u] = job[u] /\ pc[u] = "publish"
      BY <2>2, <3>1
    <3>2. QED
      BY <3>1 DEF ReadInv
  <2>5. QED
    BY <2>2, <2>3, <2>4 DEF ReadInv
<1>6. ASSUME NEW r \in Readers, Load(r) PROVE ReadInv'
  <2>1. UNCHANGED <<manifest, job, seen>> /\ \A u \in Trainers : pc'[u] = pc[u]
    BY <1>6 DEF Load, SelectRun, SelectPinned, ReadEnvelope, ReadSidecar, Answer, Resolve,
                Moves, Goto, TypeOK
  <2>2. QED
    BY <2>1 DEF ReadInv, Valid, Sorted, Distinct, Unsettled, Settles
<1>7. CASE UNCHANGED vars
  BY <1>7 DEF vars, ReadInv, Valid, Sorted, Distinct, Unsettled, Settles
<1>8. QED
  BY <1>1, <1>2, <1>3, <1>4, <1>5, <1>6, <1>7 DEF Next, Save

\* However many trainers read, compare and publish at the same time and wherever
\* they stop, the manifest stays one that _validate_manifest accepts and lists
\* no model and no run id twice.
THEOREM ManifestStaysValid == Spec => []ManifestIsValid
<1>1. ReadInv => ManifestIsValid
  BY DEF ReadInv, Valid, ManifestIsValid
<1>2. QED
  BY TypeInit, TypeStep, ReadInit, ReadStep, <1>1, PTL DEF Spec

-----------------------------------------------------------------------------
(* A trainer on its own *)

LEMMA PresenceStays ==
  ASSUME TypeOK, [Next]_vars, NEW t \in Trainers
  PROVE  pc'[t] = "absent" <=> pc[t] = "absent"
<1> USE ProcessesAssumption
<1>1. ASSUME NEW u \in Trainers, ReadManifest(u) \/ Save(u) \/ Crash(u)
      PROVE  pc'[t] = "absent" <=> pc[t] = "absent"
  BY <1>1 DEF ReadManifest, Save, CheckFile, CreateFile, FillFile, PutFile, Compare, Publish, Return,
     Crash, Forget, Moves, Goto, TypeOK
<1>2. ASSUME NEW r \in Readers, Load(r) PROVE pc'[t] = pc[t]
  BY <1>2 DEF Load, SelectRun, SelectPinned, ReadEnvelope, ReadSidecar, Answer, Resolve,
     Moves, Goto, TypeOK
<1>3. QED
  BY <1>1, <1>2 DEF Next, vars

LEMMA SoleStays == TypeOK /\ [Next]_vars => (Sole' <=> Sole)
BY PresenceStays DEF Sole

\* What a trainer read is the manifest until it publishes, and what it returns
\* for is in the manifest.
Records(t) ==
  /\ pc[t] \in {"persist", "create", "fill", "publish"} => seen[t] = manifest
  /\ pc[t] \in {"published", "kept"} =>
       \E i \in 1..Len(manifest) : manifest[i].model = job[t].result.finished

SoleInv == \A t \in Trainers : Records(t)

LEMMA SoleInit == Init => SoleInv
<1> SUFFICES ASSUME Init, NEW t \in Trainers PROVE Records(t)
  BY DEF SoleInv
<1>1. pc[t] \in {"idle", "absent"}
  BY DEF Init
<1>2. QED
  BY <1>1 DEF Records

LEMMA SoleStep ==
  Sole /\ TypeOK /\ SoleInv /\ [Next]_vars => SoleInv'
<1> SUFFICES ASSUME Sole, TypeOK, SoleInv, [Next]_vars PROVE SoleInv'
  OBVIOUS
<1> USE ProcessesAssumption
\* It is enough to look at the trainer that moves: no other takes part.
<1>1. ASSUME NEW t \in Trainers, pc'[t] # "absent", Records(t)'
      PROVE  SoleInv'
  <2>1. \A u \in Trainers : u = t \/ pc'[u] = "absent"
    BY <1>1, SoleStays DEF Sole
  <2>2. QED
    BY <1>1, <2>1 DEF SoleInv, Records
<1>2. ASSUME NEW t \in Trainers, ReadManifest(t) PROVE SoleInv'
  <2>1. pc'[t] = "persist" /\ seen'[t] = manifest' 
    BY <1>2 DEF ReadManifest, Moves, Goto, TypeOK
  <2>2. QED
    BY <1>1, <2>1 DEF Records
<1>3. ASSUME NEW t \in Trainers, CheckFile(t) \/ CreateFile(t) \/ FillFile(t) \/ PutFile(t)
      PROVE  SoleInv'
  <2>1. /\ pc[t] \in {"persist", "create", "fill"} /\ pc'[t] \in {"persist", "create", "fill"}
        /\ UNCHANGED <<manifest, job, seen>>
    BY <1>3 DEF CheckFile, CreateFile, FillFile, PutFile, Moves, Goto, TypeOK
  <2>2. QED
    BY <1>1, <2>1 DEF SoleInv, Records
<1>4. ASSUME NEW t \in Trainers, Compare(t) PROVE SoleInv'
  <2>1. pc[t] = "persist" /\ seen[t] = manifest /\ UNCHANGED <<manifest, job, seen>>
    BY <1>4 DEF Compare, Moves, SoleInv, Records
  <2>2. CASE Moves(t, "persist", "publish") \/ Moves(t, "persist", "refused")
    <3>1. pc'[t] \in {"publish", "refused"}
      BY <2>2 DEF Moves, Goto, TypeOK
    <3>2. QED
      BY <1>1, <2>1, <3>1 DEF Records
  <2>3. CASE \E i \in 1..Len(seen[t]) :
               /\ seen[t][i].model = job[t].result.finished
               /\ Moves(t, "persist", "kept")
    <3>1. pc'[t] = "kept"
      BY <2>3 DEF Moves, Goto, TypeOK
    <3>2. QED
      BY <1>1, <2>1, <2>3, <3>1 DEF Records
  <2>4. QED
    BY <1>4, <2>2, <2>3 DEF Compare
<1>5. ASSUME NEW t \in Trainers, Publish(t) PROVE SoleInv'
  <2>1. job[t] \in Jobs /\ seen[t] \in Seq(Runs)
    BY <1>5 DEF Publish, Moves, TypeOK
  <2>2. PICK k \in 0..Len(seen[t]) : manifest' = Inserted(seen[t], k, Run(job[t]))
    BY <1>5 DEF Publish
  <2>3. /\ Len(manifest') = Len(seen[t]) + 1 /\ Len(seen[t]) \in Nat
        /\ manifest'[k + 1] = Run(job[t])
    <3>1. Run(job[t]) \in Runs /\ Len(seen[t]) \in Nat
      BY <2>1, RunTypes, LenProperties
    <3>2. QED
      BY <2>1, <2>2, <3>1, InsertedTypes, ZenonT(60)
  <2>4. k + 1 \in 1..Len(manifest') /\ manifest'[k + 1].model = job[t].result.finished
    BY <2>1, <2>3, RunFields
  <2>5. pc'[t] = "published" /\ job' = job
    BY <1>5 DEF Publish, Moves, Goto, TypeOK
  <2>6. QED
    BY <1>1, <2>4, <2>5 DEF Records
<1>6. ASSUME NEW t \in Trainers, Return(t) \/ Crash(t) PROVE SoleInv'
  <2>1. pc'[t] = "idle"
    BY <1>6 DEF Return, Crash, Forget, Goto, TypeOK
  <2>2. QED
    BY <1>1, <2>1 DEF Records
<1>7. ASSUME NEW r \in Readers, Load(r) PROVE SoleInv'
  <2>1. UNCHANGED <<manifest, job, seen>> /\ \A u \in Trainers : pc'[u] = pc[u]
    BY <1>7 DEF Load, SelectRun, SelectPinned, ReadEnvelope, ReadSidecar, Answer, Resolve,
                Moves, Goto, TypeOK
  <2>2. QED
    BY <2>1 DEF SoleInv, Records
<1>8. CASE UNCHANGED vars
  BY <1>8 DEF vars, SoleInv, Records
<1>9. QED
  BY <1>2, <1>3, <1>4, <1>5, <1>6, <1>7, <1>8 DEF Next, Save

LEMMA SoleInvariant ==
  Spec => [](TypeOK /\ ReadInv /\ (Sole => SoleInv))
<1>1. Init => TypeOK /\ ReadInv /\ (Sole => SoleInv)
  BY TypeInit, ReadInit, SoleInit
<1>2. TypeOK /\ ReadInv /\ (Sole => SoleInv) /\ [Next]_vars
        => (TypeOK /\ ReadInv /\ (Sole => SoleInv))'
  BY TypeStep, ReadStep, SoleStep, SoleStays
<1>3. QED
  BY <1>1, <1>2, PTL DEF Spec

\* A trainer on its own never returns for a run that the manifest does not list,
\* wherever it was stopped before (save_run).
THEOREM SoleTrainerRecords == Spec => [](Sole => SavedIsRecorded)
<1>1. (Sole => SoleInv) => (Sole => SavedIsRecorded)
  BY DEF SoleInv, Records, SavedIsRecorded
<1>2. QED
  BY <1>1, SoleInvariant, PTL

\* A step of the store is a step of the log or leaves it alone.
LEMMA LogStep ==
  TypeOK /\ ReadInv /\ (Sole => SoleInv) /\ [Next]_vars
    => [Log!LogNext]_(IF Sole THEN manifest ELSE <<>>)
<1> SUFFICES ASSUME TypeOK, ReadInv, Sole => SoleInv, [Next]_vars
             PROVE  [Log!LogNext]_(IF Sole THEN manifest ELSE <<>>)
  OBVIOUS
<1>1. CASE ~Sole
  BY <1>1, SoleStays
<1>2. ASSUME Sole, NEW t \in Trainers, Publish(t) PROVE Log!LogNext
  <2>1. job[t] \in Jobs /\ seen[t] = manifest /\ Unsettled(seen[t], job[t])
    BY <1>2 DEF Publish, Moves, TypeOK, ReadInv, SoleInv, Records
  <2>2. PICK k \in 0..Len(manifest) : GoesBehind(manifest, k, Run(job[t]))
                                      /\ manifest' = Inserted(manifest, k, Run(job[t]))
    BY <1>2, <2>1 DEF Publish
  <2>3. Sole'
    BY <1>2, SoleStays
  <2>4. ~Log!Recorded(Run(job[t]).model)
    BY <1>2, <2>1, RunFields DEF Log!Recorded, Unsettled, Settles
  <2>5. Log!Record(Run(job[t]))
    BY <1>2, <2>2, <2>3, <2>4 DEF Log!Record, Log!Inserted, GoesBehind, Inserted
  <2>6. QED
    BY <2>1, <2>5, RunTypes DEF Log!LogNext
<1>3. ASSUME Sole, UNCHANGED manifest
      PROVE  UNCHANGED (IF Sole THEN manifest ELSE <<>>)
  BY <1>3, SoleStays
<1>4. ASSUME ~\E t \in Trainers : Publish(t) PROVE UNCHANGED manifest
  BY <1>4 DEF Next, Save, ReadManifest, CheckFile, CreateFile, FillFile, PutFile, Compare, Return,
     Crash, Forget, Load, SelectRun, SelectPinned, ReadEnvelope, ReadSidecar, Answer,
     Resolve, vars
<1>5. QED
  BY <1>1, <1>2, <1>3, <1>4

\* The manifest of a group that one process trains implements the run log:
\* retraining appends a run and replaces none, whatever is stopped halfway
\* (TrainingTSFN).
THEOREM ManifestImplementsLog == Spec => ImplementsLog
<1>1. Init => Log!LogInit
  BY DEF Init, Log!LogInit
<1>2. QED
  BY <1>1, SoleInvariant, LogStep, PTL DEF Spec, ImplementsLog, Log!LogSpec

-----------------------------------------------------------------------------
(* Checkpoints *)

\* A trainer on its own opens only files that it found absent and that are there.
OpensAbsent == Sole => \A t \in Trainers : pc[t] = "create" => ~Skips(t)

Trains(t) == ReadManifest(t) \/ Save(t) \/ Crash(t)

LEMMA OthersAreAbsent ==
  ASSUME Sole, TypeOK, NEW t \in Trainers, Trains(t)
  PROVE  /\ pc[t] # "absent"
         /\ \A u \in Trainers \ {t} : pc[u] = "absent" /\ pc'[u] = pc[u]
         /\ \A r \in Readers : pc'[r] = pc[r]
<1> USE ProcessesAssumption
<1>1. pc[t] # "absent"
  BY DEF Trains, ReadManifest, Save, CheckFile, CreateFile, FillFile, PutFile, Compare, Publish,
         Return, Crash, Forget, Moves, Goto
<1>2. \A a \in (Trainers \union Readers) \ {t} : pc'[a] = pc[a]
  BY DEF Trains, ReadManifest, Save, CheckFile, CreateFile, FillFile, PutFile, Compare, Publish,
         Return, Crash, Forget, Moves, Goto, TypeOK
<1>3. QED
  BY <1>1, <1>2 DEF Sole

LEMMA LoadKeepsFiles ==
  ASSUME TypeOK, NEW r \in Readers, Load(r)
  PROVE  /\ UNCHANGED <<manifest, files, job, seen, todo, part, crashes>>
         /\ \A t \in Trainers : pc'[t] = pc[t]
<1> USE ProcessesAssumption
<1>1. QED
  BY DEF Load, SelectRun, SelectPinned, ReadEnvelope, ReadSidecar, Answer, Resolve, Moves, Goto,
         TypeOK

LEMMA OpensInit == Init => OpensAbsent
BY DEF Init, OpensAbsent

LEMMA OpensStep == TypeOK /\ OpensAbsent /\ [Next]_vars => OpensAbsent'
<1> SUFFICES ASSUME TypeOK, OpensAbsent, [Next]_vars, Sole, NEW t \in Trainers, pc'[t] = "create"
             PROVE  ~Skips(t)'
  BY SoleStays DEF OpensAbsent
<1>1. ASSUME pc[t] = "create", UNCHANGED <<files, todo, part>> PROVE ~Skips(t)'
  BY <1>1 DEF OpensAbsent, Skips, Current
<1>2. CASE Trains(t)
  <2>1. pc[t] = "persist" /\ CheckFile(t) /\ ~Skips(t) /\ UNCHANGED <<files, todo, part>>
    BY <1>2 DEF Trains, ReadManifest, Save, CheckFile, CreateFile, FillFile, PutFile, Compare,
                Publish, Return, Crash, Forget, Moves, Goto, TypeOK
  <2>2. QED
    BY <2>1 DEF Skips, Current
<1>3. ASSUME NEW u \in Trainers \ {t}, Trains(u) PROVE FALSE
  BY <1>3, OthersAreAbsent
<1>4. ASSUME NEW r \in Readers, Load(r) PROVE ~Skips(t)'
  BY <1>1, <1>4, LoadKeepsFiles
<1>5. CASE UNCHANGED vars
  BY <1>1, <1>5 DEF vars
<1>6. QED
  BY <1>2, <1>3, <1>4, <1>5 DEF Next, Trains

\* What a step may do to the files.
LEMMA FileSteps ==
  ASSUME TypeOK, [Next]_vars
  PROVE  \/ UNCHANGED files
         \/ \E t \in Trainers :
              /\ CreateFile(t) \/ FillFile(t) \/ PutFile(t)
              /\ todo[t] # <<>> /\ Current(t) \in Artifacts /\ part[t] \in 1..3
<1>1. ASSUME NEW t \in Trainers, CreateFile(t) \/ FillFile(t) \/ PutFile(t)
      PROVE  todo[t] # <<>> /\ Current(t) \in Artifacts /\ part[t] \in 1..3
  <2>1. todo[t] # <<>> /\ part[t] \in 1..3
    BY <1>1 DEF CreateFile, FillFile, PutFile, Moves, TypeOK
  <2>2. QED
    BY <2>1, CurrentType
<1>2. ASSUME NEW t \in Trainers, Trains(t), ~(CreateFile(t) \/ FillFile(t) \/ PutFile(t))
      PROVE  UNCHANGED files
  BY <1>2 DEF Trains, ReadManifest, Save, CheckFile, Compare, Publish, Return, Crash, Forget
<1>3. QED
  BY <1>1, <1>2, LoadKeepsFiles DEF Next, Trains, vars

LEMMA WholeFilesStay ==
  ASSUME TypeOK, OpensAbsent, Sole, [Next]_vars, NEW m \in Artifacts, NEW p \in 1..3,
         files[m][p] = "whole"
  PROVE  files'[m][p] = "whole"
<1>1. files \in [Artifacts -> [1..3 -> {"absent", "torn", "whole"}]]
  BY DEF TypeOK
<1>2. ASSUME NEW t \in Trainers, CreateFile(t), Current(t) \in Artifacts, part[t] \in 1..3
      PROVE  files'[m][p] = "whole"
  <2>1. files[Current(t)][part[t]] = "absent"
    BY <1>2 DEF CreateFile, Moves, OpensAbsent, Skips
  <2>2. files' = [files EXCEPT ![Current(t)][part[t]] = "torn"]
    BY <1>2 DEF CreateFile
  <2>3. QED
    BY <1>1, <1>2, <2>1, <2>2
<1>3. ASSUME NEW t \in Trainers, FillFile(t) \/ PutFile(t), Current(t) \in Artifacts, part[t] \in 1..3
      PROVE  files'[m][p] = "whole"
  <2>1. files' = [files EXCEPT ![Current(t)][part[t]] = "whole"]
    BY <1>3 DEF FillFile, PutFile
  <2>2. QED
    BY <1>1, <1>3, <2>1
<1>4. QED
  BY <1>2, <1>3, FileSteps

LEMMA WholeStays ==
  ASSUME TypeOK, OpensAbsent, Sole, NothingHidden, [Next]_vars, NEW m \in Artifacts, Whole(m)
  PROVE  Whole(m)'
<1>1. UNCHANGED <<store, legacy>> /\ legacy \subseteq Artifacts \ Weighted
  BY DEF Next, vars, settings, TypeOK
<1>2. m \in Weighted => files'[m][1] = "whole"
  BY WholeFilesStay DEF Whole
<1>3. CASE files[m][2] = "whole"
  <2>1. files'[m][2] = "whole"
    BY <1>3, WholeFilesStay
  <2>2. QED
    BY <1>2, <2>1 DEF Whole, Readable
<1>4. CASE files[m][2] = "absent" /\ m \in legacy
  <2>1. store = "s3"
    BY <1>4 DEF NothingHidden
  <2>2. files'[m][2] \in {"absent", "whole"}
    <3>1. files \in [Artifacts -> [1..3 -> {"absent", "torn", "whole"}]]
      BY DEF TypeOK
    <3>2. ASSUME NEW t \in Trainers, FillFile(t) \/ PutFile(t), Current(t) \in Artifacts,
                 part[t] \in 1..3
          PROVE  files'[m][2] \in {"absent", "whole"}
      <4>1. files' = [files EXCEPT ![Current(t)][part[t]] = "whole"]
        BY <3>2 DEF FillFile, PutFile
      <4>2. QED
        BY <1>4, <3>1, <3>2, <4>1
    <3>3. \A t \in Trainers : ~CreateFile(t)
      BY <2>1 DEF CreateFile
    <3>4. QED
      BY <1>4, <3>2, <3>3, FileSteps
  <2>3. QED
    BY <1>1, <1>2, <1>4, <2>2 DEF Whole, Readable
<1>5. QED
  BY <1>3, <1>4 DEF Whole, Readable

LEMMA OpensInvariant == Spec => [](TypeOK /\ OpensAbsent)
BY TypeInit, TypeStep, OpensInit, OpensStep, PTL DEF Spec

\* A process that trains a group on its own truncates no checkpoint that could be
\* loaded, whatever it records again and wherever it was stopped before
\* (_write_checkpoint skips files that are there).
THEOREM LoadableForGood == Spec => LoadableStays
<1>1. TypeOK /\ OpensAbsent /\ [Next]_vars =>
        [Sole /\ NothingHidden => \A m \in Artifacts : Whole(m) => Whole(m)']_vars
  BY WholeStays
<1>2. QED
  BY <1>1, OpensInvariant, PTL DEF LoadableStays, Spec

-----------------------------------------------------------------------------
(* What a reader selects *)

Finished(t) == job[t].result.finished

\* The files that load_model needs are there and whole.
Persistent(m) == files[m][2] = "whole" /\ (m \in Weighted => files[m][1] = "whole")
PartDone(m, p) == files[m][p] = "whole" \/ (Parts[p] = "sidecar" /\ m \notin Weighted)

\* The finished model is persisted before anything else of the run, in the order
\* of its files.
Persists(t) ==
  /\ pc[t] \in {"persist", "create", "fill"} =>
       \/ /\ todo[t] = ToPersist(job[t].result)
          /\ \A p \in 1..(part[t] - 1) : PartDone(Finished(t), p)
       \/ Persistent(Finished(t))
  /\ pc[t] = "publish" => Persistent(Finished(t))
FinishedFirst == \A t \in Trainers : Persists(t)

TornIsOpen ==
  \A m \in Artifacts, p \in 1..3 :
    files[m][p] = "torn" =>
      \E t \in Trainers : pc[t] = "fill" /\ Current(t) = m /\ part[t] = p

RecordedIsWhole == \A i \in 1..Len(manifest) : Whole(manifest[i].model)

ReadIsWhole ==
  \A r \in Readers :
    /\ pc[r] \in {"envelope", "sidecar"} => model[r] \in Artifacts /\ Whole(model[r])
    /\ pc[r] # "unreadable"

Undisturbed == Sole /\ crashes = 0 /\ NothingHidden
LoadInv == FinishedFirst /\ TornIsOpen /\ RecordedIsWhole /\ ReadIsWhole

LEMMA ModelTypes ==
  ASSUME TypeOK
  PROVE  /\ \A i \in 1..Len(manifest) : manifest[i].model \in Artifacts
         /\ \A t \in Trainers : job[t] \in Jobs =>
              /\ Finished(t) \in Artifacts /\ ToPersist(job[t].result) # <<>>
              /\ Head(ToPersist(job[t].result)) = Finished(t)
<1>1. \A run \in Runs : run.model \in Artifacts
  BY RunFields, ArtifactsAssumption DEF Runs, Jobs
<1>2. ASSUME NEW t \in Trainers, job[t] \in Jobs
      PROVE  /\ Finished(t) \in Artifacts /\ ToPersist(job[t].result) # <<>>
             /\ Head(ToPersist(job[t].result)) = Finished(t)
  <2>1. /\ job[t].result.finished \in Artifacts
        /\ job[t].result.checkpoints \in Seq(Artifacts)
    BY <1>2, ArtifactsAssumption DEF Jobs
  <2>2. <<job[t].result.finished>> \in Seq(Artifacts) /\ Len(<<job[t].result.finished>>) = 1
    BY <2>1, OneRun
  <2> DEFINE all == <<job[t].result.finished>> \o job[t].result.checkpoints
  <2>3. /\ all \in Seq(Artifacts) /\ Len(all) >= 1 /\ all[1] = job[t].result.finished
    BY <2>1, <2>2
  <2>4. all # <<>> /\ Head(all) = all[1]
    BY <2>3
  <2>5. QED
    BY <2>1, <2>3, <2>4 DEF ToPersist, Finished
<1>3. QED
  BY <1>1, <1>2 DEF TypeOK

LEMMA LoadInit == Init => LoadInv
<1> SUFFICES ASSUME Init PROVE LoadInv
  OBVIOUS
<1>1. FinishedFirst /\ ReadIsWhole
  <2>1. \A a \in Trainers \union Readers : pc[a] \in {"idle", "absent"}
    BY DEF Init
  <2>2. QED
    BY <2>1 DEF FinishedFirst, Persists, ReadIsWhole
<1>2. TornIsOpen
  BY DEF Init, TornIsOpen
<1>3. RecordedIsWhole
  <2>1. CASE manifest = <<>>
    BY <2>1 DEF RecordedIsWhole
  <2>2. CASE \E run \in Runs : run.model \in legacy /\ manifest = <<run>>
    <3>1. PICK run \in Runs : run.model \in legacy /\ manifest = <<run>>
      BY <2>2
    <3>2. Whole(run.model)
      BY <3>1 DEF Init, Whole, Readable
    <3>3. QED
      BY <3>1, <3>2 DEF RecordedIsWhole
  <2>3. QED
    BY <2>1, <2>2 DEF Init
<1>4. QED
  BY <1>1, <1>2, <1>3 DEF LoadInv

\* Behind a file that is done the finished model is persisted or its next file due.
LEMMA AdvancePersists ==
  ASSUME TypeOK, NEW t \in Trainers, job[t] \in Jobs, job' = job,
         todo[t] = ToPersist(job[t].result), Advance(t),
         \A p \in 1..part[t] : PartDone(Finished(t), p)'
  PROVE  \/ /\ todo'[t] = ToPersist(job'[t].result)
            /\ \A p \in 1..(part'[t] - 1) : PartDone(Finished(t), p)'
         \/ Persistent(Finished(t))'
<1>1. part \in [Trainers -> 1..3] /\ Finished(t)' = Finished(t)
  BY DEF TypeOK, Finished
<1>2. CASE part[t] < 3
  <2>1. part'[t] = part[t] + 1 /\ todo' = todo
    BY <1>1, <1>2 DEF Advance
  <2>2. part'[t] - 1 = part[t]
    BY <1>1, <2>1
  <2>3. QED
    BY <2>1, <2>2
<1>3. CASE part[t] = 3
  <2>1. PartDone(Finished(t), 1)' /\ PartDone(Finished(t), 2)'
    BY <1>3
  <2>2. Parts[2] # "sidecar"
    BY DEF Parts
  <2>3. QED
    BY <2>1, <2>2 DEF PartDone, Persistent
<1>4. QED
  BY <1>1, <1>2, <1>3

LEMMA PersistentStays ==
  ASSUME TypeOK, OpensAbsent, Sole, [Next]_vars, NEW m \in Artifacts
  PROVE  /\ Persistent(m) => Persistent(m)'
         /\ \A p \in 1..3 : PartDone(m, p) => PartDone(m, p)'
BY WholeFilesStay DEF Persistent, PartDone

\* A trainer on its own keeps its own promise.
LEMMA PersistsStep ==
  ASSUME TypeOK, OpensAbsent, Undisturbed, LoadInv, Next, NEW t \in Trainers, Trains(t),
         crashes' = 0
  PROVE  Persists(t)'
<1> DEFINE m == Finished(t)
<1>1. /\ pc[t] # "absent" /\ \A u \in Trainers \ {t} : pc[u] = "absent"
      /\ Sole /\ crashes = 0 /\ Persists(t) /\ TornIsOpen
  BY OthersAreAbsent DEF Undisturbed, LoadInv, FinishedFirst
<1>2. CASE ReadManifest(t)
  <2>1. /\ pc'[t] = "persist" /\ part'[t] = 1
        /\ todo'[t] = ToPersist(job'[t].result)
    BY <1>2 DEF ReadManifest, Moves, Goto, TypeOK
  <2>2. QED
    BY <2>1 DEF Persists
<1>3. ASSUME UNCHANGED job, job[t] \in Jobs
      PROVE  /\ Finished(t)' = m /\ m \in Artifacts
             /\ Persistent(m) => Persistent(Finished(t))'
             /\ \A p \in 1..3 : PartDone(m, p) => PartDone(Finished(t), p)'
  <2>1. PICK n \in Artifacts : n = m
    BY <1>3, ModelTypes
  <2>2. (Finished(t) = n)'
    BY <1>3, <2>1 DEF Finished
  <2>3. Persistent(n) => Persistent(n)'
    BY <1>1, PersistentStays
  <2>4. \A p \in 1..3 : PartDone(n, p) => PartDone(n, p)'
    BY <1>1, PersistentStays
  <2>5. Persistent(m) => Persistent(Finished(t))'
    BY <2>1, <2>2, <2>3 DEF Persistent
  <2>6. \A p \in 1..3 : PartDone(m, p) => PartDone(Finished(t), p)'
    BY <2>1, <2>2, <2>4 DEF PartDone
  <2>7. QED
    BY <2>1, <2>2, <2>5, <2>6
\* The file it is at is done: written now, or found whole, since no other trainer
\* has it open.
<1>4. ASSUME (CheckFile(t) /\ Skips(t)) \/ FillFile(t) \/ PutFile(t),
             todo[t] = ToPersist(job[t].result), UNCHANGED job, job[t] \in Jobs
      PROVE  \E p \in 1..3 : p = part[t] /\ PartDone(Finished(t), p)'
  <2>1. Current(t) = m /\ m \in Artifacts /\ part[t] \in 1..3
    BY <1>4, ModelTypes DEF Current, TypeOK
  <2>2. files \in [Artifacts -> [1..3 -> {"absent", "torn", "whole"}]]
    BY DEF TypeOK
  <2>3. PICK n \in Artifacts, p \in 1..3 : n = m /\ p = part[t]
    BY <2>1
  <2>4. PartDone(n, p)'
    <3>1. CASE CheckFile(t) /\ Skips(t)
      <4>1. pc[t] = "persist"
        BY <3>1 DEF CheckFile
      <4>2. files[n][p] # "torn"
        BY <1>1, <4>1 DEF TornIsOpen
      <4>3. PartDone(n, p)
        BY <2>1, <2>2, <2>3, <3>1, <4>2 DEF Skips, PartDone
      <4>4. QED
        BY <1>1, <4>3, PersistentStays
    <3>2. CASE FillFile(t) \/ PutFile(t)
      <4>1. files'[n][p] = "whole"
        BY <2>1, <2>2, <2>3, <3>2 DEF FillFile, PutFile
      <4>2. QED
        BY <4>1 DEF PartDone
    <3>3. QED
      BY <1>4, <3>1, <3>2
  <2>5. (Finished(t) = n)'
    BY <1>4, <2>3 DEF Finished
  <2>6. QED
    BY <2>3, <2>4, <2>5
<1>5. CASE (CheckFile(t) /\ Skips(t)) \/ FillFile(t) \/ PutFile(t)
  <2>1. /\ UNCHANGED job /\ pc[t] \in {"persist", "create", "fill"}
        /\ job[t] \in Jobs /\ part[t] \in 1..3 /\ pc'[t] = "persist"
    BY <1>5 DEF CheckFile, FillFile, PutFile, Moves, Goto, TypeOK
  <2>2. Advance(t)
    BY <1>5 DEF CheckFile, FillFile, PutFile
  <2>3. CASE Persistent(m)
    BY <1>3, <2>1, <2>3 DEF Persists
  <2>4. CASE /\ todo[t] = ToPersist(job[t].result)
             /\ \A p \in 1..(part[t] - 1) : PartDone(m, p)
    <3>1. \A p \in 1..(part[t] - 1) : PartDone(Finished(t), p)'
      BY <1>3, <2>1, <2>4
    <3>2. \A p \in 1..part[t] : PartDone(Finished(t), p)'
      BY <1>4, <1>5, <2>1, <2>4, <3>1
    <3>3. \/ /\ todo'[t] = ToPersist(job'[t].result)
             /\ \A p \in 1..(part'[t] - 1) : PartDone(Finished(t), p)'
          \/ Persistent(Finished(t))'
      BY <2>1, <2>2, <2>4, <3>2, AdvancePersists
    <3>4. QED
      BY <2>1, <3>3 DEF Persists
  <2>5. QED
    BY <1>1, <2>1, <2>3, <2>4 DEF Persists
<1>6. CASE (CheckFile(t) /\ ~Skips(t)) \/ CreateFile(t)
  <2>1. /\ UNCHANGED <<job, todo, part>> /\ pc[t] \in {"persist", "create", "fill"}
        /\ job[t] \in Jobs /\ part[t] \in 1..3 /\ pc'[t] \in {"create", "fill"}
    BY <1>6 DEF CheckFile, CreateFile, Moves, Goto, TypeOK
  <2>2. CASE Persistent(m)
    BY <1>3, <2>1, <2>2 DEF Persists
  <2>3. CASE /\ todo[t] = ToPersist(job[t].result)
             /\ \A p \in 1..(part[t] - 1) : PartDone(m, p)
    <3>1. \A p \in 1..(part[t] - 1) : PartDone(Finished(t), p)'
      BY <1>3, <2>1, <2>3
    <3>2. QED
      BY <2>1, <2>3, <3>1 DEF Persists
  <2>4. QED
    BY <1>1, <2>1, <2>2, <2>3 DEF Persists
<1>7. CASE Compare(t)
  <2>1. /\ UNCHANGED <<job, todo, part>> /\ pc[t] = "persist" /\ todo[t] = <<>>
        /\ job[t] \in Jobs /\ pc'[t] \in {"publish", "kept", "refused"}
    BY <1>7 DEF Compare, Moves, Goto, TypeOK
  <2>2. Persistent(m)
    BY <1>1, <2>1, ModelTypes DEF Persists
  <2>3. QED
    BY <1>3, <2>1, <2>2 DEF Persists
<1>8. CASE Publish(t) \/ Return(t) \/ Crash(t)
  <2>1. pc'[t] \in {"published", "idle"}
    BY <1>8 DEF Publish, Return, Crash, Forget, Moves, Goto, TypeOK
  <2>2. QED
    BY <2>1 DEF Persists
<1>9. QED
  BY <1>2, <1>5, <1>6, <1>7, <1>8 DEF Trains, Save, CheckFile

LEMMA TornStep ==
  ASSUME TypeOK, OpensAbsent, Undisturbed, LoadInv, Next, NEW t \in Trainers, Trains(t),
         crashes' = 0
  PROVE  TornIsOpen'
<1> SUFFICES ASSUME NEW m \in Artifacts, NEW p \in 1..3, files'[m][p] = "torn"
             PROVE  \E u \in Trainers : (pc[u] = "fill" /\ Current(u) = m /\ part[u] = p)'
  BY DEF TornIsOpen
<1>1. /\ \A u \in Trainers \ {t} : pc[u] = "absent"
      /\ TornIsOpen
      /\ files \in [Artifacts -> [1..3 -> {"absent", "torn", "whole"}]]
      /\ ~Crash(t)
  BY OthersAreAbsent DEF Undisturbed, LoadInv, TypeOK, Crash
<1>2. CASE CreateFile(t)
  <2>1. /\ todo[t] # <<>> /\ pc'[t] = "fill" /\ UNCHANGED <<todo, part>> /\ pc[t] = "create"
        /\ files' = [files EXCEPT ![Current(t)][part[t]] = "torn"]
    BY <1>2 DEF CreateFile, Moves, Goto, TypeOK
  <2>2. Current(t) \in Artifacts /\ part[t] \in 1..3
    BY <2>1, CurrentType DEF TypeOK
  <2>3. m = Current(t) /\ p = part[t]
    BY <1>1, <2>1, <2>2 DEF TornIsOpen
  <2>4. QED
    BY <2>1, <2>3 DEF Current
<1>3. CASE FillFile(t)
  <2>1. /\ todo[t] # <<>> /\ pc[t] = "fill"
        /\ files' = [files EXCEPT ![Current(t)][part[t]] = "whole"]
    BY <1>3 DEF FillFile, Moves, TypeOK
  <2>2. Current(t) \in Artifacts /\ part[t] \in 1..3
    BY <2>1, CurrentType DEF TypeOK
  <2>3. files[m][p] = "torn" /\ ~(m = Current(t) /\ p = part[t])
    BY <1>1, <2>1, <2>2
  <2>4. QED
    BY <1>1, <2>3 DEF TornIsOpen
<1>4. ASSUME pc[t] # "fill", files[m][p] = "torn" PROVE FALSE
  BY <1>1, <1>4 DEF TornIsOpen
<1>5. CASE PutFile(t)
  <2>1. /\ todo[t] # <<>> /\ pc[t] # "fill"
        /\ files' = [files EXCEPT ![Current(t)][part[t]] = "whole"]
    BY <1>5 DEF PutFile, Moves, TypeOK
  <2>2. Current(t) \in Artifacts /\ part[t] \in 1..3
    BY <2>1, CurrentType DEF TypeOK
  <2>3. files[m][p] = "torn"
    BY <1>1, <2>1, <2>2
  <2>4. QED
    BY <1>4, <2>1, <2>3
<1>6. CASE ReadManifest(t) \/ CheckFile(t) \/ Compare(t) \/ Publish(t) \/ Return(t)
  <2>1. files' = files /\ pc[t] # "fill"
    BY <1>6 DEF ReadManifest, CheckFile, Compare, Publish, Return, Forget, Moves
  <2>2. QED
    BY <1>4, <2>1
<1>7. QED
  BY <1>1, <1>2, <1>3, <1>5, <1>6 DEF Trains, Save

LEMMA RecordedStep ==
  ASSUME TypeOK, OpensAbsent, Undisturbed, LoadInv, SoleInv, Next, NEW t \in Trainers, Trains(t)
  PROVE  RecordedIsWhole'
<1>1. \A m \in Artifacts : Whole(m) => Whole(m)'
  BY WholeStays DEF Undisturbed
<1>2. \A i \in 1..Len(manifest) : manifest[i].model \in Artifacts /\ Whole(manifest[i].model)
  BY ModelTypes DEF LoadInv, RecordedIsWhole
<1>3. ASSUME NEW run, \/ \E i \in 1..Len(manifest) : run = manifest[i]
                      \/ run.model \in Artifacts /\ Whole(run.model)
      PROVE  \E m \in Artifacts : m = run.model /\ Whole(m)'
  BY <1>1, <1>2, <1>3
<1>4. CASE manifest' = manifest
  <2>1. SUFFICES ASSUME NEW i \in 1..Len(manifest) PROVE (Whole(manifest[i].model))'
    BY <1>4 DEF RecordedIsWhole
  <2>2. PICK m \in Artifacts : m = manifest[i].model /\ Whole(m)'
    BY <1>1, <1>2
  <2>3. (manifest[i].model = m)'
    BY <1>4, <2>2
  <2>4. QED
    BY <2>2, <2>3
<1>5. CASE Publish(t)
  <2>1. /\ job[t] \in Jobs /\ seen[t] = manifest /\ Persistent(Finished(t))
        /\ manifest \in Seq(Runs)
    BY <1>5 DEF Publish, Moves, TypeOK, SoleInv, Records, LoadInv, FinishedFirst, Persists
  <2>2. PICK k \in 0..Len(manifest) : manifest' = Inserted(manifest, k, Run(job[t]))
    BY <1>5, <2>1 DEF Publish
  <2>3. Run(job[t]).model \in Artifacts /\ Whole(Run(job[t]).model)
    BY <2>1, RunFields, ModelTypes DEF Finished, Persistent, Whole, Readable
  <2>4. SUFFICES ASSUME NEW i \in 1..(Len(manifest) + 1) PROVE (Whole(manifest[i].model))'
    <3>1. Len(manifest') = Len(manifest) + 1
      BY <2>1, <2>2, InsertedTypes, RunTypes
    <3>2. QED
      BY <3>1 DEF RecordedIsWhole
  <2>5. \/ \E j \in 1..Len(manifest) : manifest'[i] = manifest[j]
        \/ manifest'[i] = Run(job[t])
    <3>1. Len(manifest) \in Nat
      BY <2>1, LenProperties
    <3>2. manifest'[i] = IF i <= k THEN manifest[i]
                         ELSE IF i = k + 1 THEN Run(job[t]) ELSE manifest[i - 1]
      BY <2>2 DEF Inserted
    <3>3. QED
      BY <3>1, <3>2
  <2>6. PICK m \in Artifacts : m = manifest'[i].model /\ Whole(m)'
    BY <1>3, <2>3, <2>5
  <2>7. (manifest[i].model = m)'
    BY <2>6
  <2>8. QED
    BY <2>6, <2>7
<1>6. ASSUME ~Publish(t) PROVE manifest' = manifest
  BY <1>6 DEF Trains, Save, ReadManifest, CheckFile, CreateFile, FillFile, PutFile, Compare,
              Return, Crash, Forget
<1>7. QED
  BY <1>4, <1>5, <1>6

LEMMA TrainerKeepsReaders ==
  ASSUME TypeOK, OpensAbsent, Undisturbed, LoadInv, Next, NEW t \in Trainers, Trains(t)
  PROVE  ReadIsWhole'
<1>1. \A m \in Artifacts : Whole(m) => Whole(m)'
  BY WholeStays DEF Undisturbed
<1>2. model' = model /\ \A r \in Readers : pc'[r] = pc[r]
  BY OthersAreAbsent
  DEF Undisturbed, Trains, Save, ReadManifest, CheckFile, CreateFile, FillFile, PutFile, Compare,
      Publish, Return, Crash, Forget
<1>3. SUFFICES ASSUME NEW r \in Readers, pc[r] \in {"envelope", "sidecar"}
               PROVE  (model[r] \in Artifacts /\ Whole(model[r]))'
  BY <1>2 DEF ReadIsWhole, LoadInv
<1>4. Whole(model[r])
  BY <1>3 DEF ReadIsWhole, LoadInv
<1>5. model[r] \in Artifacts
  BY <1>3 DEF ReadIsWhole, LoadInv
<1>6. PICK m \in Artifacts : m = model[r] /\ Whole(m)'
  BY <1>1, <1>4, <1>5
<1>7. (model[r] = m)'
  BY <1>2, <1>6
<1>8. QED
  BY <1>6, <1>7

\* A reader changes no file and no manifest, and takes up only what is whole.
LEMMA ReaderStep ==
  ASSUME TypeOK, LoadInv, NEW r \in Readers, Load(r), UNCHANGED settings
  PROVE  LoadInv'
<1> USE ProcessesAssumption
<1>1. /\ UNCHANGED <<manifest, files, job, seen, todo, part, crashes, legacy>>
      /\ \A t \in Trainers : pc'[t] = pc[t]
  BY LoadKeepsFiles DEF settings
<1>2. FinishedFirst' /\ TornIsOpen' /\ RecordedIsWhole'
  BY <1>1
  DEF LoadInv, FinishedFirst, Persists, Persistent, PartDone, Finished, TornIsOpen, Current,
      RecordedIsWhole, Whole, Readable
<1>3. \A s \in Readers \ {r} : pc'[s] = pc[s] /\ model'[s] = model[s]
  BY DEF Load, SelectRun, SelectPinned, ReadEnvelope, ReadSidecar, Answer, Resolve, Moves, Goto,
         TypeOK
<1>4. /\ pc'[r] \in {"envelope", "sidecar"} => model'[r] \in Artifacts /\ Whole(model'[r])
      /\ pc'[r] # "unreadable"
  <2>1. CASE SelectRun(r)
    <3>1. \/ \E i \in 1..Len(manifest) : Resolve(r, "envelope", manifest[i].model)
          \/ Resolve(r, "lookup", NoId)
      BY <2>1 DEF SelectRun
    <3>2. \A i \in 1..Len(manifest) : manifest[i].model \in Artifacts /\ Whole(manifest[i].model)
      BY ModelTypes DEF LoadInv, RecordedIsWhole
    <3>3. QED
      BY <3>1, <3>2 DEF Resolve, Moves, Goto, TypeOK
  <2>2. CASE SelectPinned(r)
    <3>1. \/ \E m \in Artifacts : Whole(m) /\ Resolve(r, "envelope", m)
          \/ Resolve(r, "lookup", NoId)
      BY <2>2 DEF SelectPinned, LoadInv, RecordedIsWhole
    <3>2. QED
      BY <3>1 DEF Resolve, Moves, Goto, TypeOK
  <2>3. CASE ReadEnvelope(r)
    <3>1. pc[r] = "envelope" /\ model'[r] = model[r]
      BY <2>3 DEF ReadEnvelope, Moves
    <3>2. model[r] \in Artifacts /\ Whole(model[r])
      BY <3>1 DEF LoadInv, ReadIsWhole
    <3>3. pc'[r] = "sidecar"
      BY <2>3, <3>2 DEF ReadEnvelope, Whole, Moves, Goto, TypeOK
    <3>4. QED
      BY <3>1, <3>2, <3>3
  <2>4. CASE ReadSidecar(r)
    <3>1. pc[r] = "sidecar"
      BY <2>4 DEF ReadSidecar, Moves
    <3>2. Whole(model[r])
      BY <3>1 DEF LoadInv, ReadIsWhole
    <3>3. pc'[r] = "loaded"
      BY <2>4, <3>2 DEF ReadSidecar, Whole, Moves, Goto, TypeOK
    <3>4. QED
      BY <3>3
  <2>5. CASE Answer(r)
    BY <2>5 DEF Answer, Goto, TypeOK
  <2>6. QED
    BY <2>1, <2>2, <2>3, <2>4, <2>5 DEF Load
<1>5. ReadIsWhole'
  BY <1>1, <1>3, <1>4 DEF LoadInv, ReadIsWhole, Whole, Readable
<1>6. QED
  BY <1>2, <1>5 DEF LoadInv

LEMMA LoadStep ==
  TypeOK /\ OpensAbsent /\ (Sole => SoleInv) /\ (Undisturbed => LoadInv) /\ [Next]_vars
    => (Undisturbed' => LoadInv')
<1> SUFFICES ASSUME TypeOK, OpensAbsent, Sole => SoleInv, Undisturbed => LoadInv, [Next]_vars,
                    Undisturbed'
             PROVE  LoadInv'
  OBVIOUS
<1>1. crashes \in Nat /\ crashes' = 0
  BY MaxCrashesAssumption DEF TypeOK, Undisturbed
<1>2. UNCHANGED settings
  BY DEF Next, vars
<1>3. crashes = 0
  <2>1. ASSUME NEW t \in Trainers, Trains(t) PROVE crashes' \in {crashes, crashes + 1}
    BY <2>1 DEF Trains, Save, ReadManifest, CheckFile, CreateFile, FillFile, PutFile, Compare,
                Publish, Return, Crash
  <2>2. crashes' \in {crashes, crashes + 1}
    BY <2>1, LoadKeepsFiles DEF Next, Trains, vars
  <2>3. QED
    BY <1>1, <2>2
<1>4. Undisturbed
  BY <1>2, <1>3, SoleStays DEF Undisturbed, NothingHidden, settings
<1>5. CASE UNCHANGED vars
  BY <1>4, <1>5
  DEF vars, settings, LoadInv, FinishedFirst, Persists, Persistent, PartDone, Finished, TornIsOpen,
      Current, RecordedIsWhole, ReadIsWhole, Whole, Readable
<1>6. ASSUME Next, NEW t \in Trainers, Trains(t) PROVE LoadInv'
  <2>1. FinishedFirst'
    <3>1. SUFFICES ASSUME NEW u \in Trainers \ {t} PROVE Persists(u)'
      BY <1>1, <1>4, <1>6, PersistsStep DEF FinishedFirst
    <3>2. pc'[u] = "absent"
      BY <1>4, <1>6, OthersAreAbsent DEF Undisturbed
    <3>3. QED
      BY <3>2 DEF Persists
  <2>2. TornIsOpen' /\ ReadIsWhole'
    BY <1>1, <1>4, <1>6, TornStep, TrainerKeepsReaders
  <2>3. RecordedIsWhole'
    BY <1>4, <1>6, RecordedStep DEF Undisturbed
  <2>4. QED
    BY <2>1, <2>2, <2>3 DEF LoadInv
<1>7. QED
  BY <1>2, <1>4, <1>5, <1>6, ReaderStep DEF Next, Trains

\* Inference that selects a run loads its model where one process trains the group
\* and was not stopped halfway: the finished model is persisted, its weights before
\* its envelope, before the manifest names it (save_run, select_run, load_model).
THEOREM SelectedModelsLoad == Spec => []SelectedIsLoadable
<1>1. (Undisturbed => LoadInv) => SelectedIsLoadable
  BY DEF Undisturbed, LoadInv, ReadIsWhole, SelectedIsLoadable
<1>2. Init => OpensAbsent /\ (Undisturbed => LoadInv)
  BY OpensInit, LoadInit
<1>3. Spec => [](Undisturbed => LoadInv)
  BY <1>2, SoleInvariant, OpensInvariant, LoadStep, PTL DEF Spec
<1>4. QED
  BY <1>1, <1>3, PTL
=============================================================================
