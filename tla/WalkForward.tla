----------------------------- MODULE WalkForward -----------------------------
(***************************************************************************)
(* iosislib.core.model.SupervisedModelTSFN.batch: one walk-forward pass    *)
(* over a frame in time order.  A scheduler cuts the rows into segments    *)
(* and says where the model is fitted anew, a ChronologicalSplitter cuts   *)
(* the rows seen so far into training, validation and test rows, and each  *)
(* segment is predicted with the model at hand.                            *)
(*                                                                         *)
(* Rows are numbered from 0 and a range of rows is half-open.  A model is  *)
(* abstracted to the rows it was fitted on, a segment's metric to one of   *)
(* Values; what fitting computes is left out.                              *)
(***************************************************************************)
EXTENDS Integers, Sequences

CONSTANTS
  MaxRows,     \* bound on the rows of the frame
  Schedulers,  \* declared schedulers: sets of the basic ones, any of which acts
  Splitters,   \* declared splitters
  Values       \* values a segment's metric may take

Frozen == [kind |-> "frozen"]
Every(n) == [kind |-> "every", rows |-> n]
Metric(threshold, check) == [kind |-> "metric", threshold |-> threshold, rows |-> check]

IsBasic(s) ==
  \/ s = Frozen
  \/ s.kind = "every" /\ s.rows \in Nat \ {0} /\ s = Every(s.rows)
  \/ s.kind = "metric" /\ s.rows \in Nat \ {0} /\ s.threshold \in Int
     /\ s = Metric(s.threshold, s.rows)

\* A size is a number of rows (den = 0) or a fraction num / den of them.
IsSize(z) == z \in [num : Nat, den : Nat] /\ (z.den # 0 => z.num < z.den)

ASSUME MaxRowsAssumption == MaxRows \in Nat \ {0}
ASSUME SchedulersAssumption == \A set \in Schedulers : set # {} /\ \A s \in set : IsBasic(s)
ASSUME SplittersAssumption ==
  \A s \in Splitters :
    /\ IsSize(s.validation) /\ IsSize(s.test)
    /\ s.gap \in Nat /\ s.purge \in Nat /\ s.batch \in Nat
ASSUME ValuesAssumption == Values \subseteq Int

VARIABLES
  total,      \* rows of the frame
  scheduler,  \* the node's scheduler
  splitter,   \* the node's splitter; batch is the batch_size that drop_last needs
  pc,         \* "decide", "fit", "predict", "done", "failed"
  why,        \* what raised: "none", "decision", "split" or "metric"
  cursor,     \* rows seen
  last,       \* last_retrain_at
  count,      \* retrain_count
  metric,     \* the previous segment's metric: one value or none
  decision,   \* the scheduler's decision
  model,      \* the active model
  outputs     \* segments predicted, with the model each was predicted by

vars == <<total, scheduler, splitter, pc, why, cursor, last, count, metric, decision,
          model, outputs>>

-----------------------------------------------------------------------------
(* Schedulers *)

RetrainsAt(s) ==
  \/ s.kind = "every" /\ cursor > 0 /\ cursor - last >= s.rows
  \/ s.kind = "metric" /\ \E v \in metric : v > s.threshold

\* Rows a basic scheduler lets pass from here, the end of the frame aside.
Boundary(s) ==
  IF s.kind = "every" THEN cursor + (IF RetrainsAt(s) THEN s.rows ELSE s.rows - (cursor - last))
  ELSE IF s.kind = "metric" THEN cursor + s.rows ELSE total

Until(s) == IF Boundary(s) <= total THEN Boundary(s) ELSE total

\* Scheduler.decide's checks of what a basic scheduler answers.
IsValid(s) == Until(s) > cursor /\ (RetrainsAt(s) => cursor > 0)

StopsLast(s) == \A other \in scheduler : Until(other) <= Until(s)  \* mutant of StopsFirst
StopsFirst(s) == \A other \in scheduler : Until(s) <= Until(other)

-----------------------------------------------------------------------------
(* ChronologicalSplitter *)

Size(z, rows) == IF z.den = 0 THEN z.num ELSE (rows * z.num + z.den - 1) \div z.den

UnpurgedRows(rows) == rows                     \* mutant of LabelledRows
\* The last rows have no target yet: they belong to no part.
LabelledRows(rows) == rows - splitter.purge

TestSize(rows) == Size(splitter.test, LabelledRows(rows))
ValidationSize(rows) == Size(splitter.validation, LabelledRows(rows))
NoGap(size) == 0                               \* mutant of Gap
Gap(size) == IF size > 0 THEN splitter.gap ELSE 0

TestFrom(rows) == LabelledRows(rows) - TestSize(rows)
ValidationFrom(rows) == TestFrom(rows) - Gap(TestSize(rows)) - ValidationSize(rows)
TrainRows(rows) == ValidationFrom(rows) - Gap(ValidationSize(rows))

SplitRaises(rows) ==
  \/ splitter.purge >= rows
  \/ TestSize(rows) > 0 /\ TestFrom(rows) < 0
  \/ ValidationSize(rows) > 0 /\ ValidationFrom(rows) < 0
  \/ TrainRows(rows) <= 0
  \/ TrainRows(rows) < splitter.batch

\* The rows that a fit looks at: training rows, and validation rows when there
\* are any.
LearnedRows(rows) ==
  IF ValidationSize(rows) > 0 THEN ValidationFrom(rows) + ValidationSize(rows)
  ELSE TrainRows(rows)

-----------------------------------------------------------------------------

\* A model fitted on rows below `upTo` at the boundary `at`, anew or starting
\* from the model before it.
Untrained == [trained |-> FALSE, upTo |-> 0, at |-> 0]
Fitted(upTo, at) == [trained |-> TRUE, upTo |-> upTo, at |-> at]
Pretrained == Fitted(0, 0)

NoDecision == [retrain |-> FALSE, until |-> 0]

Init ==
  /\ total \in 1..MaxRows
  /\ scheduler \in Schedulers
  /\ splitter \in Splitters
  /\ pc = "decide" /\ why = "none"
  /\ cursor = 0 /\ last = 0 /\ count = 0
  /\ metric = {}
  /\ decision = NoDecision
  /\ model \in {Untrained, Pretrained}
  /\ outputs = <<>>

Fail(reason) ==
  /\ pc' = "failed" /\ why' = reason
  /\ UNCHANGED <<total, scheduler, splitter, cursor, last, count, metric, decision,
                 model, outputs>>

Retrains == \E s \in scheduler : RetrainsAt(s)

\* AnyScheduler retrains when one of its schedulers does and stops at the first
\* of their boundaries; a scheduler of its own is the case of one.
Decide ==
  /\ pc = "decide"
  /\ \/ (\E s \in scheduler : ~IsValid(s)) /\ Fail("decision")
     \/ /\ \A s \in scheduler : IsValid(s)
        /\ \E s \in scheduler :
             /\ StopsFirst(s)
             /\ decision' = [retrain |-> Retrains, until |-> Until(s)]
        /\ pc' = IF Retrains THEN "fit" ELSE "predict"
        /\ UNCHANGED <<total, scheduler, splitter, why, cursor, last, count, metric,
                       model, outputs>>

\* The rows handed to the splitter: those before the boundary.
SeenAndNext == decision.until        \* mutant of SeenRows
SeenRows == cursor

\* Mutant of Fit: a split that raises is tried again instead of ending the pass.
FitAgain ==
  /\ pc = "fit"
  /\ pc' = IF SplitRaises(SeenRows) THEN "decide" ELSE "predict"
  /\ UNCHANGED <<total, scheduler, splitter, why, cursor, last, count, metric, decision,
                 model, outputs>>

Fit ==
  /\ pc = "fit"
  /\ \/ SplitRaises(SeenRows) /\ Fail("split")
     \/ /\ ~SplitRaises(SeenRows)
        /\ model' = Fitted(LearnedRows(SeenRows), cursor)
        /\ last' = cursor
        /\ count' = count + 1
        /\ pc' = "predict"
        /\ UNCHANGED <<total, scheduler, splitter, why, cursor, metric, decision, outputs>>

\* Metrics are computed for a trained model only; one that is not finite raises.
MetricsOf(m) == {{}} \union (IF m.trained THEN {{v} : v \in Values} ELSE {})

\* Mutant of Advance: the row at the boundary is left out.
SkipRow == cursor' = decision.until + 1
Advance == cursor' = decision.until

Predict ==
  /\ pc = "predict"
  /\ \/ model.trained /\ Fail("metric")
     \/ /\ metric' \in MetricsOf(model)
        /\ outputs' = Append(outputs, [from |-> cursor, to |-> decision.until, model |-> model])
        /\ Advance
        /\ pc' = IF cursor' < total THEN "decide" ELSE "done"
        /\ UNCHANGED <<total, scheduler, splitter, why, last, count, decision, model>>

Stop == pc \in {"done", "failed"} /\ UNCHANGED vars

Step == Decide \/ Fit \/ Predict

Next == Step \/ Stop

\* The pass is a loop of one thread.
Spec == Init /\ [][Next]_vars /\ WF_vars(Step)

-----------------------------------------------------------------------------
(* What a walk-forward pass promises *)

Rows == 0..MaxRows
ModelStates == [trained : BOOLEAN, upTo : Rows, at : Rows]

\* Every variable keeps its type; a decision that is acted on lies ahead.
TypeOK ==
  /\ total \in 1..MaxRows
  /\ scheduler \in Schedulers /\ splitter \in Splitters
  /\ pc \in {"decide", "fit", "predict", "done", "failed"}
  /\ why \in {"none", "decision", "split", "metric"}
  /\ cursor \in 0..total /\ last \in 0..cursor /\ count \in 0..cursor
  /\ metric \in {{}} \union {{v} : v \in Values}
  /\ decision \in [retrain : BOOLEAN, until : 0..total]
  /\ model \in ModelStates
  /\ outputs \in Seq([from : Rows, to : Rows, model : ModelStates])
  /\ pc \in {"fit", "predict"} => decision.until > cursor

\* Schedulers never answer what Scheduler.decide rejects, alone or combined: the
\* cursor advances, stays within the frame, and nothing is fitted without rows.
DecisionsAreValid == why # "decision"

\* The concatenated segments hold every row once and in order (pl.concat of the
\* outputs in batch), up to the cursor and in the end to the last row.
RowsArePredictedOnce ==
  /\ outputs = <<>> => cursor = 0
  /\ outputs # <<>> => outputs[1].from = 0 /\ outputs[Len(outputs)].to = cursor
  /\ \A i \in 1..Len(outputs) : outputs[i].from < outputs[i].to
  /\ \A i \in 1..(Len(outputs) - 1) : outputs[i].to = outputs[i + 1].from
  /\ pc = "done" => cursor = total

\* No row is predicted with a model that was fitted on it, on a later row, or on
\* a row whose target, known `purge` rows later, was not known by then
\* (ChronologicalSplitter's purge_window).
NoLookahead ==
  \A i \in 1..Len(outputs) :
    LET m == outputs[i].model IN
      m.upTo > 0 => m.upTo + splitter.purge <= outputs[i].from

\* With { every: n } alone or under any, no row is predicted by a model that is
\* n or more rows old, and the rows predicted without training are the first n
\* at most ("the first 100 predictions are NaN", docs/strategy-format.md).
ModelsAreRecent ==
  \A i \in 1..Len(outputs) : \A s \in scheduler :
    s.kind = "every" => outputs[i].to <= outputs[i].model.at + s.rows

\* { frozen: true } trains "once on the initial prefix" (docs/strategy-format.md): a
\* pass over a long frame ends with a trained model.
FrozenTrainsOnce == pc = "done" /\ scheduler = {Frozen} /\ total = MaxRows => model.trained

\* The parts of a split, [0, TrainRows), [ValidationFrom, ..) and [TestFrom, ..),
\* are in time order, a gap apart, and end before the purged rows.
SplitIsChronological ==
  pc = "fit" /\ ~SplitRaises(cursor) =>
    /\ 0 < TrainRows(cursor)
    /\ ValidationSize(cursor) > 0 => TrainRows(cursor) + splitter.gap <= ValidationFrom(cursor)
    /\ TestSize(cursor) > 0 =>
         LearnedRows(cursor) + splitter.gap <= TestFrom(cursor)
    /\ TestFrom(cursor) + TestSize(cursor) + splitter.purge <= cursor

\* Every pass ends: with all rows predicted, or with an error.
PassEnds == <>(pc \in {"done", "failed"})
=============================================================================
