------------------------------- MODULE RunLog -------------------------------
(***************************************************************************)
(* What a group's manifest promises to those who train and to those who    *)
(* infer (TrainingTSFN and InferenceTSFN, iosislib.core.model): a log of   *)
(* finished runs in the order of their trained_at.  Retraining appends a   *)
(* run and never replaces one; a model that was recorded is not recorded   *)
(* again; among runs of the same time the one recorded last comes last,    *)
(* which is the one an as-of selection picks.                              *)
(***************************************************************************)
EXTENDS Naturals, Sequences

CONSTANT Runs  \* the runs that may be recorded

VARIABLE log

\* The log with run put behind the first k.
Inserted(runs, k, run) ==
  [i \in 1..(Len(runs) + 1) |->
     IF i <= k THEN runs[i] ELSE IF i = k + 1 THEN run ELSE runs[i - 1]]

Recorded(model) == \E i \in 1..Len(log) : log[i].model = model

\* A group has no runs yet, or one that an older release left.
LogInit == log = <<>> \/ \E run \in Runs : log = <<run>>

Record(run) ==
  /\ ~Recorded(run.model)
  /\ \E k \in 0..Len(log) :
       /\ \A i \in 1..k : log[i].at <= run.at
       /\ \A i \in (k + 1)..Len(log) : log[i].at > run.at
       /\ log' = Inserted(log, k, run)

LogNext == \E run \in Runs : Record(run)

LogSpec == LogInit /\ [][LogNext]_log
=============================================================================
