------------------------------ MODULE Manifest ------------------------------
(***************************************************************************)
(* The runs a group's manifest lists (iosislib.core.model.ModelStore):     *)
(* sequences of records with the data time a run was trained at.           *)
(***************************************************************************)
EXTENDS Integers, Sequences

\* append, then a stable sort by trained_at: run goes behind the first k.
AtTheEnd(runs, k, run) == k = Len(runs)   \* mutant of GoesBehind
GoesBehind(runs, k, run) ==
  /\ \A i \in 1..k : runs[i].at <= run.at
  /\ \A i \in (k + 1)..Len(runs) : runs[i].at > run.at
Inserted(runs, k, run) ==
  [i \in 1..(Len(runs) + 1) |->
     IF i <= k THEN runs[i] ELSE IF i = k + 1 THEN run ELSE runs[i - 1]]

Sorted(runs) == \A i, k \in 1..Len(runs) : i < k => runs[i].at <= runs[k].at

\* select_run: the last listed of the runs with trained_at <= at is index i.
SelectsLast(runs, at, i) == i = Len(runs)  \* mutant of Selects: whatever its trained_at
Selects(runs, at, i) == runs[i].at <= at /\ \A k \in (i + 1)..Len(runs) : runs[k].at > at
=============================================================================
