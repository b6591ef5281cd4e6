------------------------- MODULE WalkForward_proofs -------------------------
(***************************************************************************)
(* Theorems about WalkForward for frames of any length, any combination of *)
(* basic schedulers and any splitter.  The inductive invariant is TypeOK   *)
(* with Place (where cursor, last and count stand to each other at each    *)
(* label), ModelInv (the model at hand was fitted at last, on rows whose   *)
(* targets were known there) and DueInv (the boundary that was decided     *)
(* comes no later than any `every` scheduler asks).  That a split is in    *)
(* time order follows from the types: it is arithmetic of the sizes.       *)
(*                                                                         *)
(* The second half is about ModelPolicy: for a history of any capacity and *)
(* a backtest of any length, a fit sees the newest rows in time order, and *)
(* with it what WalkForward promises of a pass over a frame holds of a     *)
(* policy that trains row by row.                                          *)
(***************************************************************************)
EXTENDS ModelPolicy, TLAPS, SequenceTheorems

-----------------------------------------------------------------------------
(* Sizes and splits *)

\* A size of a frame is a number of rows.
LEMMA SizeIsNat ==
  ASSUME NEW z, IsSize(z), NEW rows \in Nat
  PROVE  Size(z, rows) \in Nat
<1>1. z.num \in Nat /\ z.den \in Nat
  BY DEF IsSize
<1>2. CASE z.den = 0
  BY <1>1, <1>2 DEF Size
<1>3. CASE z.den # 0
  <2>1. PICK x \in Nat : x = rows * z.num
    BY <1>1
  <2>2. x + z.den - 1 \in Nat
    BY <1>1, <1>3, <2>1
  <2>3. (x + z.den - 1) \div z.den \in Nat
    BY <1>1, <1>3, <2>2
  <2>4. QED
    BY <1>3, <2>1, <2>3 DEF Size
<1>4. QED
  BY <1>2, <1>3

\* A split that does not raise learns from some rows, none of them among those
\* whose target is still unknown.
LEMMA LearnedRowsAreLabelled ==
  ASSUME splitter \in Splitters, NEW rows \in Nat, ~SplitRaises(rows)
  PROVE  /\ LearnedRows(rows) \in Nat \ {0}
         /\ LearnedRows(rows) + splitter.purge <= rows
<1>1. /\ IsSize(splitter.validation) /\ IsSize(splitter.test)
      /\ splitter.gap \in Nat /\ splitter.purge \in Nat
  BY SplittersAssumption
<1>2. splitter.purge < rows
  BY <1>1 DEF SplitRaises
<1>3. LabelledRows(rows) \in Nat /\ LabelledRows(rows) + splitter.purge = rows
  BY <1>1, <1>2 DEF LabelledRows
<1>4. TestSize(rows) \in Nat /\ ValidationSize(rows) \in Nat
  BY <1>1, <1>3, SizeIsNat DEF TestSize, ValidationSize
<1>5. Gap(TestSize(rows)) \in Nat /\ Gap(ValidationSize(rows)) \in Nat
  BY <1>1 DEF Gap
<1>6. TestFrom(rows) \in Int /\ TestFrom(rows) <= LabelledRows(rows)
  BY <1>3, <1>4 DEF TestFrom
<1>7. /\ ValidationFrom(rows) \in Int
      /\ ValidationFrom(rows) + ValidationSize(rows) <= LabelledRows(rows)
  BY <1>3, <1>4, <1>5, <1>6 DEF ValidationFrom
<1>8. TrainRows(rows) \in Int /\ TrainRows(rows) <= ValidationFrom(rows)
  BY <1>5, <1>7 DEF TrainRows
<1>9. TrainRows(rows) > 0
  BY <1>8 DEF SplitRaises
<1>10. QED
  BY <1>1, <1>3, <1>4, <1>7, <1>8, <1>9 DEF LearnedRows

-----------------------------------------------------------------------------
(* Schedulers *)

\* The numbers among the variables.
LEMMA Numbers ==
  ASSUME TypeOK
  PROVE  /\ total \in Nat /\ cursor \in Nat /\ last \in Nat /\ count \in Nat
         /\ cursor <= total /\ last <= cursor /\ count <= cursor /\ total <= MaxRows
<1>1. total \in 1..MaxRows /\ cursor \in 0..total /\ last \in 0..cursor /\ count \in 0..cursor
  BY DEF TypeOK
<1>2. QED
  BY <1>1, MaxRowsAssumption

\* What a basic scheduler is, by its kind.
LEMMA SchedulerRows ==
  ASSUME scheduler \in Schedulers, NEW s \in scheduler
  PROVE  /\ s.kind \in {"every", "metric"} => s.rows \in Nat \ {0}
         /\ s.kind = "metric" => s.threshold \in Int
         /\ s.kind \in {"every", "metric", "frozen"}
  BY SchedulersAssumption DEF IsBasic, Frozen

Running == {"decide", "fit", "predict"}

Place ==
  /\ pc \in Running => cursor < total
  /\ pc \in {"decide", "fit"} => cursor = 0 \/ last < cursor
  /\ pc = "fit" => cursor > 0
  /\ cursor = 0 => metric = {}
  /\ count <= last
  /\ pc = "done" => cursor = total

\* Boundaries of a running pass lie ahead, and no later than `every` asks.
LEMMA BoundariesAhead ==
  ASSUME TypeOK, Place, pc = "decide", NEW s \in scheduler
  PROVE  /\ IsValid(s)
         /\ Until(s) \in (cursor + 1)..total
         /\ s.kind = "every" =>
              /\ Until(s) <= cursor + s.rows
              /\ ~RetrainsAt(s) => Until(s) <= last + s.rows
<1> USE MaxRowsAssumption
<1>1. /\ total \in Nat /\ cursor \in Nat /\ last \in Nat /\ last <= cursor /\ cursor < total
      /\ cursor = 0 => metric = {}
      /\ scheduler \in Schedulers
  <2>1. scheduler \in Schedulers
    BY DEF TypeOK
  <2>2. QED
    BY <2>1, Numbers DEF Place, Running
<1>2. RetrainsAt(s) => cursor > 0
  BY <1>1 DEF RetrainsAt
<1>3. CASE s.kind = "every"
  <2>1. s.rows \in Nat \ {0}
    BY <1>1, <1>3, SchedulerRows
  <2>2. CASE RetrainsAt(s)
    <3>1. Boundary(s) = cursor + s.rows
      BY <1>3, <2>2 DEF Boundary
    <3>2. QED
      BY <1>1, <1>2, <2>1, <2>2, <3>1 DEF Until, IsValid
  <2>3. CASE ~RetrainsAt(s)
    <3>1. Boundary(s) = cursor + (s.rows - (cursor - last))
      BY <1>3, <2>3 DEF Boundary
    <3>2. cursor - last < s.rows
      BY <1>1, <1>3, <2>1, <2>3 DEF RetrainsAt
    <3>3. QED
      BY <1>1, <2>1, <2>3, <3>1, <3>2 DEF Until, IsValid
  <2>4. QED
    BY <2>2, <2>3
<1>4. CASE s.kind = "metric"
  <2>1. s.rows \in Nat \ {0} /\ Boundary(s) = cursor + s.rows
    BY <1>1, <1>4, SchedulerRows DEF Boundary
  <2>2. QED
    BY <1>1, <1>2, <1>4, <2>1 DEF Until, IsValid
<1>5. CASE s.kind = "frozen"
  <2>1. Boundary(s) = total
    BY <1>5 DEF Boundary
  <2>2. QED
    BY <1>1, <1>2, <1>5, <2>1 DEF Until, IsValid
<1>6. QED
  BY <1>1, <1>3, <1>4, <1>5, SchedulerRows

-----------------------------------------------------------------------------
(* The inductive invariant *)

ModelInv ==
  /\ model.at = last
  /\ model.upTo > 0 => model.upTo + splitter.purge <= model.at

DueInv ==
  \A s \in scheduler : s.kind = "every" =>
    /\ pc = "fit" => decision.until <= cursor + s.rows
    /\ pc = "predict" => decision.until <= last + s.rows

WalkInv ==
  /\ TypeOK /\ DecisionsAreValid /\ Place /\ ModelInv /\ DueInv
  /\ RowsArePredictedOnce /\ NoLookahead /\ ModelsAreRecent

\* The invariant holds of a pass that has not started.
LEMMA InitWalkInv == Init => WalkInv
<1> SUFFICES ASSUME Init PROVE WalkInv
  OBVIOUS
<1>1. model = Untrained \/ model = Pretrained
  BY DEF Init
<1>2. TypeOK
  <2>1. total \in Nat /\ cursor \in 0..total /\ last \in 0..cursor /\ count \in 0..cursor
    BY MaxRowsAssumption DEF Init
  <2>2. model \in ModelStates
    <3>1. 0 \in Rows
      BY MaxRowsAssumption DEF Rows
    <3>2. Untrained \in ModelStates
      BY <3>1 DEF ModelStates, Untrained
    <3>3. Pretrained \in ModelStates
      BY <3>1 DEF ModelStates, Pretrained, Fitted
    <3>4. QED
      BY <1>1, <3>2, <3>3
  <2>3. decision \in [retrain : BOOLEAN, until : 0..total]
    BY <2>1 DEF Init, NoDecision
  <2>4. outputs \in Seq([from : Rows, to : Rows, model : ModelStates])
    BY DEF Init
  <2>5. QED
    BY <2>1, <2>2, <2>3, <2>4 DEF Init, TypeOK
<1>3. Place
  BY MaxRowsAssumption DEF Init, Place, Running
<1>4. ModelInv
  BY <1>1 DEF Init, ModelInv, Untrained, Pretrained, Fitted
<1>5. DecisionsAreValid /\ DueInv
  BY DEF Init, DecisionsAreValid, DueInv
<1>6. Len(outputs) = 0
  BY DEF Init
<1>7. RowsArePredictedOnce /\ NoLookahead /\ ModelsAreRecent
  BY <1>6 DEF Init, RowsArePredictedOnce, NoLookahead, ModelsAreRecent
<1>8. QED
  BY <1>2, <1>3, <1>4, <1>5, <1>7 DEF WalkInv

\* Deciding keeps the invariant and never finds an answer to reject.
LEMMA DecideKeepsInv == WalkInv /\ Decide => WalkInv'
<1> SUFFICES ASSUME WalkInv, Decide PROVE WalkInv'
  OBVIOUS
<1> USE MaxRowsAssumption
<1>1. TypeOK /\ Place /\ pc = "decide"
  BY DEF WalkInv, Decide
<1>2. \A s \in scheduler : IsValid(s)
  BY <1>1, BoundariesAhead
<1>3. PICK first \in scheduler :
        StopsFirst(first) /\ decision' = [retrain |-> Retrains, until |-> Until(first)]
  BY <1>2 DEF Decide
<1>4. /\ pc' = IF Retrains THEN "fit" ELSE "predict"
      /\ UNCHANGED <<total, scheduler, splitter, why, cursor, last, count, metric, model,
                     outputs>>
  BY <1>2 DEF Decide
<1>5. decision'.until = Until(first) /\ Until(first) \in (cursor + 1)..total
  BY <1>1, <1>3, BoundariesAhead
<1>6. Retrains \in BOOLEAN
  BY DEF Retrains
<1>7. TypeOK'
  <2>1. decision' \in [retrain : BOOLEAN, until : 0..total]
    BY <1>1, <1>3, <1>5, <1>6, Numbers
  <2>2. pc' \in {"decide", "fit", "predict", "done", "failed"}
    BY <1>4
  <2>3. decision'.until > cursor
    BY <1>1, <1>5, Numbers
  <2>4. QED
    BY <1>1, <1>4, <2>1, <2>2, <2>3 DEF TypeOK
<1>8. Place'
  <2>1. Retrains => cursor > 0
    BY <1>2 DEF Retrains, IsValid
  <2>2. QED
    BY <1>1, <1>4, <2>1 DEF Place, Running
<1>9. DueInv'
  <2>1. SUFFICES ASSUME NEW s \in scheduler, s.kind = "every"
                 PROVE  /\ Until(first) <= cursor + s.rows
                        /\ ~Retrains => Until(first) <= last + s.rows
    BY <1>4, <1>5 DEF DueInv
  <2>2. Until(first) <= Until(s) /\ Until(s) \in Int /\ Until(first) \in Int
    <3>1. Until(first) <= Until(s)
      BY <1>3 DEF StopsFirst
    <3>2. QED
      BY <1>1, <3>1, Numbers, BoundariesAhead
  <2>3. Until(s) <= cursor + s.rows /\ (~RetrainsAt(s) => Until(s) <= last + s.rows)
    BY <1>1, <2>1, BoundariesAhead
  <2>4. s.rows \in Nat /\ cursor \in Int /\ last \in Int
    <3>1. scheduler \in Schedulers
      BY <1>1 DEF TypeOK
    <3>2. QED
      BY <1>1, <2>1, <3>1, Numbers, SchedulerRows
  <2>5. QED
    BY <2>2, <2>3, <2>4 DEF Retrains
<1>10. QED
  BY <1>1, <1>4, <1>7, <1>8, <1>9 DEF WalkInv, DecisionsAreValid, ModelInv,
     RowsArePredictedOnce, NoLookahead, ModelsAreRecent

\* Fitting keeps the invariant: the rows it learns from were labelled at cursor.
LEMMA FitKeepsInv == WalkInv /\ Fit => WalkInv'
<1> SUFFICES ASSUME WalkInv, Fit PROVE WalkInv'
  OBVIOUS
<1> USE MaxRowsAssumption
<1>1. TypeOK /\ Place /\ ModelInv /\ DueInv /\ DecisionsAreValid /\ pc = "fit"
  BY DEF WalkInv, Fit
<1>2. /\ total \in Nat /\ cursor \in Nat /\ last \in Nat /\ count \in Nat
      /\ cursor < total /\ total <= MaxRows /\ last < cursor /\ count <= last
      /\ scheduler \in Schedulers /\ splitter \in Splitters
  BY <1>1, Numbers DEF Place, Running, TypeOK
<1>3. CASE Fail("split")
  <2>1. TypeOK'
    BY <1>1, <1>3 DEF TypeOK, Fail
  <2>2. Place' /\ ModelInv' /\ DueInv' /\ DecisionsAreValid'
    BY <1>1, <1>3 DEF Place, Running, ModelInv, DueInv, DecisionsAreValid, Fail
  <2>3. QED
    BY <1>3, <2>1, <2>2 DEF WalkInv, Fail, RowsArePredictedOnce, NoLookahead, ModelsAreRecent
<1>4. CASE ~Fail("split")
  <2>1. /\ ~SplitRaises(cursor)
        /\ model' = Fitted(LearnedRows(cursor), cursor)
        /\ last' = cursor /\ count' = count + 1 /\ pc' = "predict"
        /\ UNCHANGED <<total, scheduler, splitter, why, cursor, metric, decision, outputs>>
    BY <1>4 DEF Fit, SeenRows
  <2>2. /\ LearnedRows(cursor) \in Nat \ {0}
        /\ LearnedRows(cursor) + splitter.purge <= cursor
    BY <1>2, <2>1, LearnedRowsAreLabelled
  <2>3. splitter.purge \in Nat
    BY <1>2, SplittersAssumption
  <2>4. TypeOK'
    <3>1. LearnedRows(cursor) \in Rows /\ cursor \in Rows
      BY <1>2, <2>2, <2>3 DEF Rows
    <3>2. model' \in ModelStates
      BY <2>1, <3>1 DEF Fitted, ModelStates
    <3>3. last' \in 0..cursor' /\ count' \in 0..cursor'
      BY <1>2, <2>1
    <3>4. QED
      BY <1>1, <2>1, <3>2, <3>3 DEF TypeOK
  <2>5. Place'
    BY <1>1, <1>2, <2>1 DEF Place, Running
  <2>6. ModelInv'
    BY <2>1, <2>2 DEF ModelInv, Fitted
  <2>7. DueInv'
    BY <1>1, <2>1 DEF DueInv
  <2>8. QED
    BY <1>1, <2>1, <2>4, <2>5, <2>6, <2>7 DEF WalkInv, DecisionsAreValid,
       RowsArePredictedOnce, NoLookahead, ModelsAreRecent
<1>5. QED
  BY <1>3, <1>4

\* Predicting keeps the invariant: the segment continues the ones before it and
\* its model is the one at hand.
LEMMA PredictKeepsInv == WalkInv /\ Predict => WalkInv'
<1> SUFFICES ASSUME WalkInv, Predict PROVE WalkInv'
  OBVIOUS
<1> USE MaxRowsAssumption
<1>1. /\ TypeOK /\ Place /\ ModelInv /\ DueInv /\ DecisionsAreValid /\ pc = "predict"
      /\ RowsArePredictedOnce /\ NoLookahead /\ ModelsAreRecent
  BY DEF WalkInv, Predict
<1>2. /\ total \in Nat /\ cursor \in Nat /\ last \in Nat /\ count \in Nat
      /\ cursor < total /\ total <= MaxRows /\ last <= cursor /\ count <= last
      /\ scheduler \in Schedulers /\ splitter \in Splitters
  BY <1>1, Numbers DEF Place, Running, TypeOK
<1>3. decision.until \in Nat /\ cursor < decision.until /\ decision.until <= total
  BY <1>1, <1>2 DEF TypeOK
<1>4. CASE Fail("metric")
  <2>1. TypeOK'
    BY <1>1, <1>4 DEF TypeOK, Fail
  <2>2. Place' /\ ModelInv' /\ DueInv' /\ DecisionsAreValid'
    BY <1>1, <1>4 DEF Place, Running, ModelInv, DueInv, DecisionsAreValid, Fail
  <2>3. QED
    BY <1>1, <1>4, <2>1, <2>2 DEF WalkInv, Fail, RowsArePredictedOnce, NoLookahead,
       ModelsAreRecent
<1>5. CASE ~Fail("metric")
  <2> DEFINE seg == [from |-> cursor, to |-> decision.until, model |-> model]
             Segments == [from : Rows, to : Rows, model : ModelStates]
  <2>1. /\ metric' \in MetricsOf(model) /\ outputs' = Append(outputs, seg)
        /\ cursor' = decision.until
        /\ pc' = IF decision.until < total THEN "decide" ELSE "done"
        /\ UNCHANGED <<total, scheduler, splitter, why, last, count, decision, model>>
    BY <1>5 DEF Predict, Advance
  <2>2. model \in ModelStates /\ outputs \in Seq(Segments)
    BY <1>1 DEF TypeOK
  <2>3. seg \in Segments
    BY <1>2, <1>3, <2>2 DEF Rows
  <2>4. /\ outputs' \in Seq(Segments) /\ Len(outputs') = Len(outputs) + 1
        /\ Len(outputs) \in Nat
        /\ \A i \in 1..Len(outputs) : outputs'[i] = outputs[i]
        /\ outputs'[Len(outputs) + 1] = seg
    BY <2>1, <2>2, <2>3
  <2>5. TypeOK'
    <3>1. metric' \in {{}} \union {{v} : v \in Values}
      BY <2>1 DEF MetricsOf
    <3>2. /\ cursor' \in 0..total' /\ last' \in 0..cursor' /\ count' \in 0..cursor'
          /\ pc' \in {"decide", "done"}
      BY <1>2, <1>3, <2>1
    <3>3. QED
      BY <1>1, <2>1, <2>4, <3>1, <3>2 DEF TypeOK
  <2>6. Place'
    BY <1>2, <1>3, <2>1 DEF Place, Running
  <2>7. ModelInv' /\ DueInv' /\ DecisionsAreValid'
    BY <1>1, <2>1 DEF ModelInv, DueInv, DecisionsAreValid
  <2>8. RowsArePredictedOnce'
    <3>1. /\ Len(outputs') >= 1 /\ outputs'[Len(outputs')].to = cursor'
          /\ pc' = "done" => cursor' = total'
      BY <1>2, <1>3, <2>1, <2>4
    <3>2. outputs' # <<>>
      BY <2>1, <2>2, <2>4
    <3>3. outputs'[1].from = 0
      BY <1>1, <2>2, <2>4 DEF RowsArePredictedOnce
    <3>4. ASSUME NEW i \in 1..Len(outputs') PROVE outputs'[i].from < outputs'[i].to
      BY <1>1, <1>3, <2>4 DEF RowsArePredictedOnce
    <3>5. ASSUME NEW i \in 1..(Len(outputs') - 1)
          PROVE  outputs'[i].to = outputs'[i + 1].from
      <4>1. i \in 1..Len(outputs) /\ outputs'[i] = outputs[i]
        BY <2>4
      <4>2. CASE i = Len(outputs)
        <5>1. outputs # <<>>
          BY <4>1
        <5>2. outputs[i].to = cursor
          BY <1>1, <4>2, <5>1 DEF RowsArePredictedOnce
        <5>3. QED
          BY <2>4, <4>1, <4>2, <5>2
      <4>3. CASE i # Len(outputs)
        <5>1. i \in 1..(Len(outputs) - 1) /\ outputs'[i + 1] = outputs[i + 1]
          BY <2>4, <4>1, <4>3
        <5>2. QED
          BY <1>1, <4>1, <5>1 DEF RowsArePredictedOnce
      <4>4. QED
        BY <4>2, <4>3
    <3>6. QED
      BY <3>1, <3>2, <3>3, <3>4, <3>5 DEF RowsArePredictedOnce
  <2>9. NoLookahead'
    <3>1. splitter.purge \in Nat /\ model.at \in Nat /\ model.upTo \in Nat
      BY <1>2, <2>2, SplittersAssumption DEF ModelStates, Rows
    <3>2. model.upTo > 0 => model.upTo + splitter.purge <= cursor
      BY <1>1, <1>2, <3>1 DEF ModelInv
    <3>3. QED
      BY <1>1, <2>1, <2>4, <3>2 DEF NoLookahead
  <2>10. ModelsAreRecent'
    <3>1. ASSUME NEW i \in 1..Len(outputs'), NEW s \in scheduler, s.kind = "every"
          PROVE  outputs'[i].to <= outputs'[i].model.at + s.rows
      <4>1. CASE i \in 1..Len(outputs)
        BY <1>1, <2>4, <3>1, <4>1 DEF ModelsAreRecent
      <4>2. CASE i = Len(outputs) + 1
        <5>1. decision.until <= last + s.rows /\ model.at = last
          BY <1>1, <3>1 DEF DueInv, ModelInv
        <5>2. QED
          BY <2>4, <4>2, <5>1
      <4>3. QED
        BY <2>4, <4>1, <4>2
    <3>2. QED
      BY <2>1, <3>1 DEF ModelsAreRecent
  <2>11. QED
    BY <2>5, <2>6, <2>7, <2>8, <2>9, <2>10 DEF WalkInv
<1>6. QED
  BY <1>4, <1>5

\* The invariant is inductive.
LEMMA NextKeepsInv == WalkInv /\ [Next]_vars => WalkInv'
<1> SUFFICES ASSUME WalkInv, [Next]_vars PROVE WalkInv'
  OBVIOUS
<1>1. CASE Decide
  BY <1>1, DecideKeepsInv
<1>2. CASE Fit
  BY <1>2, FitKeepsInv
<1>3. CASE Predict
  BY <1>3, PredictKeepsInv
<1>4. CASE UNCHANGED vars
  BY <1>4 DEF vars, WalkInv, TypeOK, DecisionsAreValid, Place, ModelInv, DueInv,
     RowsArePredictedOnce, NoLookahead, ModelsAreRecent
<1>5. QED
  BY <1>1, <1>2, <1>3, <1>4 DEF Next, Step, Stop

LEMMA WalkInvHolds == Spec => []WalkInv
<1>1. QED
  BY InitWalkInv, NextKeepsInv, PTL DEF Spec

-----------------------------------------------------------------------------
(* Theorems *)

\* The variables keep their types and a boundary that is acted on lies ahead,
\* for frames of any length.
THEOREM TypeCorrect == Spec => []TypeOK
<1>1. WalkInv => TypeOK
  BY DEF WalkInv
<1>2. QED
  BY <1>1, WalkInvHolds, PTL

\* However schedulers are combined, Scheduler.decide never rejects what the one that
\* is asked answers (AnyScheduler, Scheduler.decide).
THEOREM DecisionsStayValid == Spec => []DecisionsAreValid
<1>1. WalkInv => DecisionsAreValid
  BY DEF WalkInv
<1>2. QED
  BY <1>1, WalkInvHolds, PTL

\* The segments partition the rows up to the cursor, in order
\* (SupervisedModelTSFN.batch).
THEOREM SegmentsPartition == Spec => []RowsArePredictedOnce
<1>1. WalkInv => RowsArePredictedOnce
  BY DEF WalkInv
<1>2. QED
  BY <1>1, WalkInvHolds, PTL

\* No prediction depends on a row or a target that was not known at its boundary
\* (SupervisedModelTSFN.batch, ChronologicalSplitter).
THEOREM PredictionsHaveNoLookahead == Spec => []NoLookahead
<1>1. WalkInv => NoLookahead
  BY DEF WalkInv
<1>2. QED
  BY <1>1, WalkInvHolds, PTL

\* Under `every: n`, alone or combined, models are younger than n rows
\* (EveryNTicksScheduler, AnyScheduler).
THEOREM ModelsStayRecent == Spec => []ModelsAreRecent
<1>1. WalkInv => ModelsAreRecent
  BY DEF WalkInv
<1>2. QED
  BY <1>1, WalkInvHolds, PTL

\* The parts of a split that does not raise, wherever a fit takes place.
LEMMA PartsAreApart ==
  ASSUME splitter \in Splitters, NEW rows \in Nat, ~SplitRaises(rows)
  PROVE  /\ 0 < TrainRows(rows)
         /\ ValidationSize(rows) > 0 => TrainRows(rows) + splitter.gap <= ValidationFrom(rows)
         /\ TestSize(rows) > 0 => LearnedRows(rows) + splitter.gap <= TestFrom(rows)
         /\ TestFrom(rows) + TestSize(rows) + splitter.purge <= rows
<1>1. /\ IsSize(splitter.validation) /\ IsSize(splitter.test)
      /\ splitter.gap \in Nat /\ splitter.purge \in Nat
  BY SplittersAssumption
<1>2. LabelledRows(rows) \in Nat /\ LabelledRows(rows) + splitter.purge = rows
  BY <1>1 DEF LabelledRows, SplitRaises
<1>3. TestSize(rows) \in Nat /\ ValidationSize(rows) \in Nat
  BY <1>1, <1>2, SizeIsNat DEF TestSize, ValidationSize
<1>4. TestFrom(rows) \in Int /\ TestFrom(rows) + TestSize(rows) = LabelledRows(rows)
  BY <1>2, <1>3 DEF TestFrom
<1>5. /\ ValidationFrom(rows) \in Int
      /\ ValidationFrom(rows) + ValidationSize(rows) + Gap(TestSize(rows)) = TestFrom(rows)
  BY <1>1, <1>3, <1>4 DEF ValidationFrom, Gap
<1>6. /\ TrainRows(rows) \in Int
      /\ TrainRows(rows) + Gap(ValidationSize(rows)) = ValidationFrom(rows)
  BY <1>1, <1>3, <1>5 DEF TrainRows, Gap
<1>7. 0 < TrainRows(rows)
  BY <1>6 DEF SplitRaises
<1>8. ValidationSize(rows) > 0 => TrainRows(rows) + splitter.gap <= ValidationFrom(rows)
  BY <1>1, <1>3, <1>5, <1>6 DEF Gap
<1>9. TestSize(rows) > 0 => LearnedRows(rows) + splitter.gap <= TestFrom(rows)
  BY <1>1, <1>3, <1>4, <1>5, <1>6 DEF Gap, LearnedRows
<1>10. QED
  BY <1>1, <1>2, <1>4, <1>7, <1>8, <1>9

\* Whatever a splitter's sizes, gap and purge, the parts it fits on are in time
\* order, apart, and before the rows without a target (ChronologicalSplitter).
THEOREM SplitsAreChronological == Spec => []SplitIsChronological
<1>1. TypeOK => SplitIsChronological
  BY PartsAreApart, Numbers DEF TypeOK, SplitIsChronological
<1>2. QED
  BY <1>1, TypeCorrect, PTL

-----------------------------------------------------------------------------
(* The ring *)

\* Counting around a ring, at most once.
LEMMA Wraps ==
  ASSUME NEW h \in Nat \ {0}
  PROVE  /\ \A a \in 0..(h - 1) : a % h = a
         /\ \A a \in h..(2 * h - 1) : a % h = a - h
<1>1. \A a \in 0..(h - 1) : a % h = a
  OBVIOUS
<1>2. \A a \in h..(2 * h - 1) : a % h = a - h
  <2> SUFFICES ASSUME NEW a \in h..(2 * h - 1) PROVE a % h = a - h
    OBVIOUS
  <2>1. a = h * (a \div h) + (a % h) /\ a % h \in 0..(h - 1) /\ a \div h \in Int
    OBVIOUS
  <2>2. a \div h = 1
    BY <2>1
  <2>3. QED
    BY <2>1, <2>2
<1>3. QED
  BY <1>1, <1>2

\* The ring holds the newest rows that it has room for, oldest first, and starts
\* at the first slot until it is full.
RingInv ==
  /\ history \in Nat \ {0} /\ start \in 0..(history - 1)
  /\ slots \in [0..(history - 1) -> Int]
  /\ size = IF cursor < history THEN cursor ELSE history
  /\ size < history => start = 0
  /\ \A i \in 1..size : Remembered[i] = cursor - size + i - 1

\* Where the next row goes, and the slots that keep theirs.
LEMMA RememberedRows ==
  ASSUME RingInv, cursor \in Nat, Remember(cursor), cursor' = cursor + 1
  PROVE  RingInv'
<1> DEFINE h == history
           at == (start + size) % h
           s == size'
           t == start'
<1>1. /\ h \in Nat \ {0} /\ start \in 0..(h - 1) /\ slots \in [0..(h - 1) -> Int] /\ h' = h
      /\ slots' = [slots EXCEPT ![at] = cursor] /\ cursor \in Nat
  BY DEF RingInv, Remember
<1>2. \A a \in 0..(h - 1) : a % h = a
  BY <1>1, Wraps
<1>3. \A a \in h..(2 * h - 1) : a % h = a - h
  BY <1>1, Wraps
<1>4. \A i \in 1..size : slots[(start + i - 1) % h] = cursor - size + i - 1
  BY DEF RingInv, Remembered
<1>5. CASE size < h
  <2>1. /\ size = cursor /\ cursor < h /\ start = 0 /\ s = size + 1 /\ t = 0 /\ at = size
        /\ size \in Nat
    BY <1>1, <1>2, <1>5 DEF RingInv, Remember
  <2>2. ASSUME NEW i \in 1..s PROVE slots'[(t + i - 1) % h] = cursor' - s + i - 1
    <3>1. t + i - 1 = i - 1 /\ i - 1 \in 0..(h - 1) /\ (i - 1) % h = i - 1
      <4>1. t + i - 1 = i - 1 /\ i - 1 \in 0..(h - 1)
        BY <1>1, <2>1
      <4>2. QED
        BY <1>2, <4>1
    <3>2. CASE i = s
      BY <1>1, <2>1, <3>1, <3>2
    <3>3. CASE i # s
      <4>1. i \in 1..size /\ slots[i - 1] = i - 1 /\ i - 1 # at
        BY <1>4, <2>1, <3>1, <3>3
      <4>2. QED
        BY <1>1, <2>1, <3>1, <4>1
    <3>4. QED
      BY <3>2, <3>3
  <2>3. /\ t \in 0..(h - 1) /\ slots' \in [0..(h - 1) -> Int] /\ (s < h => t = 0)
        /\ s = IF cursor' < h THEN cursor' ELSE h
    BY <1>1, <2>1
  <2>4. Remembered' = [i \in 1..s |-> slots'[(t + i - 1) % h]]
    BY <1>1 DEF Remembered
  <2>5. \A i \in 1..s : Remembered'[i] = cursor' - s + i - 1
    BY <2>2, <2>4
  <2>6. QED
    BY <1>1, <2>3, <2>5 DEF RingInv
<1>6. CASE ~(size < h)
  <2>1. /\ size = h /\ h <= cursor /\ s = h /\ t = (start + 1) % h /\ at = start
    <3>1. size = h /\ h <= cursor
      BY <1>1, <1>6 DEF RingInv
    <3>2. start + h \in h..(2 * h - 1) /\ (start + h) - h = start
      BY <1>1
    <3>3. (start + h) % h = (start + h) - h
      BY <1>3, <3>2
    <3>4. at = start
      BY <3>1, <3>2, <3>3
    <3>5. QED
      BY <1>1, <1>6, <3>1, <3>4 DEF Remember
  <2>2. t = IF start = h - 1 THEN 0 ELSE start + 1
    <3>1. CASE start = h - 1
      BY <1>1, <1>3, <2>1, <3>1
    <3>2. CASE start # h - 1
      BY <1>1, <1>2, <2>1, <3>2
    <3>3. QED
      BY <3>1, <3>2
  <2>3. ASSUME NEW i \in 1..h PROVE slots'[(t + i - 1) % h] = cursor' - h + i - 1
    <3>1. CASE i = h
      <4>1. (t + i - 1) % h = start
        <5>1. CASE start = h - 1
          <6>1. t + i - 1 = h - 1 /\ h - 1 \in 0..(h - 1)
            BY <1>1, <2>2, <3>1, <5>1
          <6>2. QED
            BY <1>2, <5>1, <6>1
        <5>2. CASE start # h - 1
          <6>1. t + i - 1 = start + h /\ start + h \in h..(2 * h - 1)
            BY <1>1, <2>2, <3>1, <5>2
          <6>2. (start + h) % h = (start + h) - h
            BY <1>3, <6>1
          <6>3. (t + i - 1) % h = (start + h) % h
            BY <6>1, Zenon
          <6>4. (start + h) - h = start
            BY <1>1
          <6>5. QED
            BY <6>2, <6>3, <6>4, Zenon
        <5>3. QED
          BY <5>1, <5>2
      <4>2. slots'[start] = cursor
        BY <1>1, <2>1
      <4>3. cursor' - h + i - 1 = cursor
        BY <1>1, <3>1
      <4>4. QED
        BY <4>1, <4>2, <4>3
    <3>2. CASE i # h
      <4> DEFINE j == i + 1
      <4>1. j \in 1..h /\ i \in Int
        BY <1>1, <3>2
      <4>2. /\ (t + i - 1) % h = (start + j - 1) % h /\ (start + j - 1) % h # start
            /\ (start + j - 1) % h \in 0..(h - 1)
        <5>1. CASE start + i <= h - 1
          <6>1. start + i \in 0..(h - 1) /\ t + i - 1 = start + i /\ start + j - 1 = start + i
            BY <1>1, <2>2, <3>2, <5>1
          <6>2. (start + i) % h = start + i
            BY <1>2, <6>1
          <6>3. QED
            BY <1>1, <6>1, <6>2
        <5>2. CASE ~(start + i <= h - 1)
          <6>1. start + i \in h..(2 * h - 1) /\ start + j - 1 = start + i /\ start + i - h < start
            BY <1>1, <3>2, <5>2
          <6>2. (start + i) % h = start + i - h
            <7>1. (start + i) % h = (start + i) - h
              BY <1>3, <6>1
            <7>2. QED
              BY <1>1, <7>1
          <6>3. (t + i - 1) % h = start + i - h
            <7>1. CASE start = h - 1
              <8>1. t + i - 1 = start + i - h /\ i - 1 \in 0..(h - 1) /\ t + i - 1 = i - 1
                BY <1>1, <2>2, <7>1
              <8>2. QED
                BY <1>2, <8>1
            <7>2. CASE start # h - 1
              BY <1>1, <2>2, <6>1, <6>2, <7>2
            <7>3. QED
              BY <7>1, <7>2
          <6>4. start + i - h \in 0..(h - 1) /\ start + i - h # start
            BY <1>1, <6>1
          <6>5. QED
            BY <6>1, <6>2, <6>3, <6>4
        <5>3. QED
          BY <5>1, <5>2
      <4>3. slots[(start + j - 1) % h] = cursor - h + j - 1
        BY <1>4, <2>1, <4>1
      <4>4. slots'[(t + i - 1) % h] = slots[(start + j - 1) % h]
        BY <1>1, <2>1, <4>2
      <4>5. QED
        BY <1>1, <4>1, <4>3, <4>4
    <3>3. QED
      BY <3>1, <3>2
  <2>4. Remembered' = [i \in 1..s |-> slots'[(t + i - 1) % h]]
    BY <1>1 DEF Remembered
  <2>5. \A i \in 1..s : Remembered'[i] = cursor' - s + i - 1
    BY <2>1, <2>3, <2>4
  <2>6. /\ t \in 0..(h - 1) /\ slots' \in [0..(h - 1) -> Int]
        /\ s = IF cursor' < h THEN cursor' ELSE h
    BY <1>1, <2>1, <2>2
  <2>7. ~(s < h)
    BY <1>1, <2>1
  <2>8. QED
    BY <1>1, <2>5, <2>6, <2>7 DEF RingInv
<1>7. QED
  BY <1>5, <1>6

-----------------------------------------------------------------------------
(* The inductive invariant *)

\* A decision that is still in force asks for no boundary later than `every` does.
InForce ==
  pc = "decide" /\ cursor < decision.until =>
    \A s \in scheduler : s.kind = "every" => decision.until <= last + s.rows

PolicyInv == WalkInv /\ RingInv /\ InForce

\* The slots are untouched by what leaves the buffer and the cursor alone.
LEMMA RingStays ==
  ASSUME RingInv, UNCHANGED buffer, UNCHANGED cursor
  PROVE  RingInv'
BY DEF RingInv, buffer, Remembered

\* The invariant holds of a policy that has seen no row.
LEMMA InitPolicyInv == PolicyInit => PolicyInv
<1> SUFFICES ASSUME PolicyInit PROVE PolicyInv
  OBVIOUS
<1>1. WalkInv
  BY InitWalkInv DEF PolicyInit
<1>2. history \in Nat \ {0} /\ cursor = 0 /\ size = 0 /\ start = 0
  BY HistoriesAssumption DEF PolicyInit, Init
<1>3. RingInv
  <2>1. slots \in [0..(history - 1) -> Int]
    BY DEF PolicyInit, Nothing
  <2>2. QED
    BY <1>2, <2>1 DEF RingInv
<1>4. InForce
  <2>1. decision.until = 0
    BY DEF PolicyInit, Init, NoDecision
  <2>2. QED
    BY <1>2, <2>1 DEF InForce
<1>5. QED
  BY <1>1, <1>3, <1>4 DEF PolicyInv

\* What raises ends the pass and changes nothing else.
LEMMA FailKeepsInv ==
  ASSUME PolicyInv, NEW reason \in {"split", "metric"}, Fail(reason), UNCHANGED buffer
  PROVE  PolicyInv'
<1>1. /\ TypeOK /\ Place /\ ModelInv /\ DueInv /\ DecisionsAreValid
      /\ RowsArePredictedOnce /\ NoLookahead /\ ModelsAreRecent /\ RingInv
  BY DEF PolicyInv, WalkInv
<1>2. TypeOK'
  BY <1>1 DEF TypeOK, Fail
<1>3. Place' /\ ModelInv' /\ DueInv' /\ DecisionsAreValid' /\ InForce'
  BY <1>1 DEF Place, Running, ModelInv, DueInv, DecisionsAreValid, InForce, Fail
<1>4. RowsArePredictedOnce' /\ NoLookahead' /\ ModelsAreRecent'
  BY <1>1 DEF Fail, RowsArePredictedOnce, NoLookahead, ModelsAreRecent
<1>5. RingInv'
  BY <1>1, RingStays DEF Fail
<1>6. QED
  BY <1>2, <1>3, <1>4, <1>5 DEF PolicyInv, WalkInv

\* Consulting the scheduler at its boundary, and keeping its decision before it.
LEMMA ConsultKeepsInv == PolicyInv /\ Consult => PolicyInv'
<1> SUFFICES ASSUME PolicyInv, Consult PROVE PolicyInv'
  OBVIOUS
<1>1. /\ TypeOK /\ Place /\ ModelInv /\ DueInv /\ DecisionsAreValid
      /\ RowsArePredictedOnce /\ NoLookahead /\ ModelsAreRecent /\ RingInv /\ InForce
      /\ WalkInv /\ pc = "decide" /\ UNCHANGED buffer
  BY DEF PolicyInv, WalkInv, Consult
<1>2. CASE Decide
  <2>1. WalkInv'
    BY <1>1, <1>2, DecideKeepsInv
  <2>2. \A s \in scheduler : IsValid(s)
    BY <1>1, BoundariesAhead
  <2>3. cursor' = cursor /\ pc' # "decide"
    BY <1>2, <2>2 DEF Decide
  <2>4. RingInv'
    BY <1>1, <2>3, RingStays
  <2>5. QED
    BY <2>1, <2>3, <2>4 DEF PolicyInv, InForce
<1>3. CASE ~Decide
  <2>1. /\ cursor < decision.until /\ pc' = "predict"
        /\ UNCHANGED <<total, scheduler, splitter, why, cursor, last, count, metric,
                       decision, model, outputs>>
    BY <1>3 DEF Consult
  <2>2. TypeOK'
    <3>1. decision.until > cursor
      BY <1>1, <2>1, Numbers DEF TypeOK
    <3>2. QED
      BY <1>1, <2>1, <3>1 DEF TypeOK
  <2>3. Place' /\ ModelInv' /\ DecisionsAreValid' /\ InForce'
    BY <1>1, <2>1 DEF Place, Running, ModelInv, DecisionsAreValid, InForce
  <2>4. DueInv'
    BY <1>1, <2>1 DEF DueInv, InForce
  <2>5. RowsArePredictedOnce' /\ NoLookahead' /\ ModelsAreRecent'
    BY <1>1, <2>1 DEF RowsArePredictedOnce, NoLookahead, ModelsAreRecent
  <2>6. RingInv'
    BY <1>1, <2>1, RingStays
  <2>7. QED
    BY <2>2, <2>3, <2>4, <2>5, <2>6 DEF PolicyInv, WalkInv
<1>4. QED
  BY <1>2, <1>3

\* The newest of the oldest k remembered rows.
LEMMA NewestRemembered ==
  ASSUME RingInv, cursor \in Nat, NEW k \in 1..size
  PROVE  Max({Remembered[i] : i \in 1..k}) = cursor - size + k - 1
<1> DEFINE S == {Remembered[i] : i \in 1..k}
           m == cursor - size + k - 1
<1>1. size \in Nat /\ k \in Nat
  BY DEF RingInv
<1>2. \A i \in 1..k : Remembered[i] = cursor - size + i - 1
  BY <1>1 DEF RingInv
<1>3. m \in S /\ \A x \in S : x \in Int /\ m >= x
  BY <1>1, <1>2
<1>4. (CHOOSE x \in S : \A y \in S : x >= y) = m
  <2>1. \A x \in S : (\A y \in S : x >= y) => x = m
    BY <1>1, <1>3
  <2> HIDE DEF S, m
  <2>2. QED
    BY <1>3, <2>1
<1>5. QED
  BY <1>4 DEF Max

\* Fitting on the remembered rows: the targets of those it learns from were known.
LEMMA FitRememberedKeepsInv == PolicyInv /\ FitRemembered => PolicyInv'
<1> SUFFICES ASSUME PolicyInv, FitRemembered PROVE PolicyInv'
  OBVIOUS
<1> USE MaxRowsAssumption
<1>1. /\ TypeOK /\ Place /\ ModelInv /\ DueInv /\ DecisionsAreValid
      /\ RowsArePredictedOnce /\ NoLookahead /\ ModelsAreRecent /\ RingInv
      /\ pc = "fit" /\ UNCHANGED buffer
  BY DEF PolicyInv, WalkInv, FitRemembered
<1>2. /\ total \in Nat /\ cursor \in Nat /\ last \in Nat /\ count \in Nat
      /\ cursor < total /\ total <= MaxRows /\ last < cursor /\ count <= last
      /\ scheduler \in Schedulers /\ splitter \in Splitters
  BY <1>1, Numbers DEF Place, Running, TypeOK
<1>3. size \in Nat /\ size <= cursor
  BY <1>1, <1>2 DEF RingInv
<1>4. CASE Fail("split")
  BY <1>1, <1>4, FailKeepsInv
<1>5. CASE ~Fail("split")
  <2> DEFINE learned == LearnedRows(size)
             upTo == Max({Remembered[i] : i \in 1..learned}) + 1
  <2>1. /\ ~SplitRaises(size) /\ model' = Fitted(upTo, cursor)
        /\ last' = cursor /\ count' = count + 1 /\ pc' = "predict"
        /\ UNCHANGED <<total, scheduler, splitter, why, cursor, metric, decision, outputs>>
    BY <1>5 DEF FitRemembered
  <2>2. learned \in Nat \ {0} /\ learned + splitter.purge <= size
    BY <1>2, <1>3, <2>1, LearnedRowsAreLabelled
  <2>3. splitter.purge \in Nat
    BY <1>2, SplittersAssumption
  <2>4. upTo = cursor - size + learned
    <3>1. learned \in 1..size
      BY <1>3, <2>2, <2>3
    <3>2. Max({Remembered[i] : i \in 1..learned}) = cursor - size + learned - 1
      BY <1>1, <1>2, <3>1, NewestRemembered
    <3>3. QED
      BY <1>2, <1>3, <2>2, <3>2
  <2>5. upTo \in Rows /\ cursor \in Rows /\ upTo + splitter.purge <= cursor
    BY <1>2, <1>3, <2>2, <2>3, <2>4 DEF Rows
  <2> HIDE DEF upTo
  <2>6. TypeOK'
    <3>1. model' \in ModelStates
      BY <2>1, <2>5 DEF Fitted, ModelStates
    <3>2. last' \in 0..cursor' /\ count' \in 0..cursor'
      BY <1>2, <2>1
    <3>3. QED
      BY <1>1, <2>1, <3>1, <3>2 DEF TypeOK
  <2>7. Place'
    BY <1>1, <1>2, <2>1 DEF Place, Running
  <2>8. ModelInv'
    BY <2>1, <2>5 DEF ModelInv, Fitted
  <2>9. DueInv' /\ InForce' /\ DecisionsAreValid'
    BY <1>1, <2>1 DEF DueInv, InForce, DecisionsAreValid
  <2>10. RowsArePredictedOnce' /\ NoLookahead' /\ ModelsAreRecent'
    BY <1>1, <2>1 DEF RowsArePredictedOnce, NoLookahead, ModelsAreRecent
  <2>11. RingInv'
    BY <1>1, <2>1, RingStays
  <2>12. QED
    BY <2>6, <2>7, <2>8, <2>9, <2>10, <2>11 DEF PolicyInv, WalkInv
<1>6. QED
  BY <1>4, <1>5

\* Predicting one row and remembering it.
LEMMA PredictRowKeepsInv == PolicyInv /\ PredictRow => PolicyInv'
<1> SUFFICES ASSUME PolicyInv, PredictRow PROVE PolicyInv'
  OBVIOUS
<1> USE MaxRowsAssumption
<1>1. /\ TypeOK /\ Place /\ ModelInv /\ DueInv /\ DecisionsAreValid /\ pc = "predict"
      /\ RowsArePredictedOnce /\ NoLookahead /\ ModelsAreRecent /\ RingInv
  BY DEF PolicyInv, WalkInv, PredictRow
<1>2. /\ total \in Nat /\ cursor \in Nat /\ last \in Nat /\ count \in Nat
      /\ cursor < total /\ total <= MaxRows /\ last <= cursor /\ count <= last
      /\ scheduler \in Schedulers /\ splitter \in Splitters
  BY <1>1, Numbers DEF Place, Running, TypeOK
<1>3. decision.until \in Nat /\ cursor + 1 <= decision.until
  BY <1>1, <1>2 DEF TypeOK
<1>4. CASE Fail("metric") /\ UNCHANGED buffer
  BY <1>1, <1>4, FailKeepsInv
<1>5. CASE ~(Fail("metric") /\ UNCHANGED buffer)
  <2> DEFINE seg == [from |-> cursor, to |-> cursor + 1, model |-> model]
             Segments == [from : Rows, to : Rows, model : ModelStates]
  <2>1. /\ metric' \in (IF model.trained THEN MetricsOf(model) ELSE {metric})
        /\ outputs' = Append(outputs, seg)
        /\ Remember(cursor)
        /\ cursor' = cursor + 1
        /\ pc' = IF cursor + 1 < total THEN "decide" ELSE "done"
        /\ UNCHANGED <<total, scheduler, splitter, why, last, count, decision, model>>
    BY <1>5 DEF PredictRow
  <2>2. model \in ModelStates /\ outputs \in Seq(Segments)
    BY <1>1 DEF TypeOK
  <2>3. seg \in Segments
    BY <1>2, <2>2 DEF Rows
  <2>4. /\ outputs' \in Seq(Segments) /\ Len(outputs') = Len(outputs) + 1
        /\ Len(outputs) \in Nat
        /\ \A i \in 1..Len(outputs) : outputs'[i] = outputs[i]
        /\ outputs'[Len(outputs) + 1] = seg
    BY <2>1, <2>2, <2>3
  <2>5. TypeOK'
    <3>1. metric' \in {{}} \union {{v} : v \in Values}
      BY <1>1, <2>1 DEF MetricsOf, TypeOK
    <3>2. /\ cursor' \in 0..total' /\ last' \in 0..cursor' /\ count' \in 0..cursor'
          /\ pc' \in {"decide", "done"}
      BY <1>2, <2>1
    <3>3. QED
      BY <1>1, <2>1, <2>4, <3>1, <3>2 DEF TypeOK
  <2>6. Place'
    BY <1>2, <2>1 DEF Place, Running
  <2>7. ModelInv' /\ DueInv' /\ DecisionsAreValid' /\ InForce'
    BY <1>1, <2>1 DEF ModelInv, DueInv, DecisionsAreValid, InForce
  <2>8. RowsArePredictedOnce'
    <3>1. /\ Len(outputs') >= 1 /\ outputs'[Len(outputs')].to = cursor'
          /\ pc' = "done" => cursor' = total'
      BY <1>2, <2>1, <2>4
    <3>2. outputs' # <<>>
      BY <2>1, <2>2, <2>4
    <3>3. outputs'[1].from = 0
      BY <1>1, <2>2, <2>4 DEF RowsArePredictedOnce
    <3>4. ASSUME NEW i \in 1..Len(outputs') PROVE outputs'[i].from < outputs'[i].to
      BY <1>1, <1>2, <2>4 DEF RowsArePredictedOnce
    <3>5. ASSUME NEW i \in 1..(Len(outputs') - 1)
          PROVE  outputs'[i].to = outputs'[i + 1].from
      <4>1. i \in 1..Len(outputs) /\ outputs'[i] = outputs[i]
        BY <2>4
      <4>2. CASE i = Len(outputs)
        <5>1. outputs # <<>>
          BY <4>1
        <5>2. outputs[i].to = cursor
          BY <1>1, <4>2, <5>1 DEF RowsArePredictedOnce
        <5>3. QED
          BY <2>4, <4>1, <4>2, <5>2
      <4>3. CASE i # Len(outputs)
        <5>1. i \in 1..(Len(outputs) - 1) /\ outputs'[i + 1] = outputs[i + 1]
          BY <2>4, <4>1, <4>3
        <5>2. QED
          BY <1>1, <4>1, <5>1 DEF RowsArePredictedOnce
      <4>4. QED
        BY <4>2, <4>3
    <3>6. QED
      BY <3>1, <3>2, <3>3, <3>4, <3>5 DEF RowsArePredictedOnce
  <2>9. NoLookahead'
    <3>1. splitter.purge \in Nat /\ model.at \in Nat /\ model.upTo \in Nat
      BY <1>2, <2>2, SplittersAssumption DEF ModelStates, Rows
    <3>2. model.upTo > 0 => model.upTo + splitter.purge <= cursor
      BY <1>1, <1>2, <3>1 DEF ModelInv
    <3>3. QED
      BY <1>1, <2>1, <2>4, <3>2 DEF NoLookahead
  <2>10. ModelsAreRecent'
    <3>1. ASSUME NEW i \in 1..Len(outputs'), NEW s \in scheduler, s.kind = "every"
          PROVE  outputs'[i].to <= outputs'[i].model.at + s.rows
      <4>1. CASE i \in 1..Len(outputs)
        BY <1>1, <2>4, <3>1, <4>1 DEF ModelsAreRecent
      <4>2. CASE i = Len(outputs) + 1
        <5>1. decision.until <= last + s.rows /\ model.at = last /\ s.rows \in Nat
          BY <1>1, <1>2, <3>1, SchedulerRows DEF DueInv, ModelInv
        <5>2. cursor + 1 <= last + s.rows
          BY <1>2, <1>3, <5>1
        <5>3. QED
          BY <2>4, <4>2, <5>1, <5>2
      <4>3. QED
        BY <2>4, <4>1, <4>2
    <3>2. QED
      BY <2>1, <3>1 DEF ModelsAreRecent
  <2>11. RingInv'
    BY <1>1, <1>2, <2>1, RememberedRows
  <2>12. QED
    BY <2>5, <2>6, <2>7, <2>8, <2>9, <2>10, <2>11 DEF PolicyInv, WalkInv
<1>6. QED
  BY <1>4, <1>5

\* The invariant is inductive.
LEMMA PolicyKeepsInv == PolicyInv /\ [PolicyNext]_policyVars => PolicyInv'
<1> SUFFICES ASSUME PolicyInv, [PolicyNext]_policyVars PROVE PolicyInv'
  OBVIOUS
<1>1. CASE Consult
  BY <1>1, ConsultKeepsInv
<1>2. CASE FitRemembered
  BY <1>2, FitRememberedKeepsInv
<1>3. CASE PredictRow
  BY <1>3, PredictRowKeepsInv
<1>4. CASE UNCHANGED vars /\ UNCHANGED buffer
  <2>1. WalkInv'
    BY <1>4, NextKeepsInv DEF PolicyInv
  <2>2. RingInv'
    BY <1>4, RingStays DEF PolicyInv, vars
  <2>3. InForce'
    BY <1>4 DEF PolicyInv, InForce, vars
  <2>4. QED
    BY <2>1, <2>2, <2>3 DEF PolicyInv
<1>5. QED
  BY <1>1, <1>2, <1>3, <1>4 DEF PolicyNext, PolicyStep, Stop, policyVars

LEMMA PolicyInvHolds == PolicySpec => []PolicyInv
<1>1. QED
  BY InitPolicyInv, PolicyKeepsInv, PTL DEF PolicySpec

-----------------------------------------------------------------------------
(* Theorems *)

\* However often the ring wrapped, a fit is handed the newest rows in time order
\* (FeatureBuffer.append, FeatureBuffer.frame).
THEOREM FitsSeeTheNewestRows == PolicySpec => []HistoryIsRecent
<1>1. PolicyInv => HistoryIsRecent
  BY DEF PolicyInv, RingInv, HistoryIsRecent
<1>2. QED
  BY <1>1, PolicyInvHolds, PTL

\* A policy orders on no prediction that a row or a target of its future went into
\* (ModelPolicy.decide).
THEOREM PoliciesHaveNoLookahead == PolicySpec => []NoLookahead
<1>1. PolicyInv => NoLookahead
  BY DEF PolicyInv, WalkInv
<1>2. QED
  BY <1>1, PolicyInvHolds, PTL

\* Every row of the backtest is predicted once, in order (ModelPolicy.decide).
THEOREM PoliciesPredictOnce == PolicySpec => []RowsArePredictedOnce
<1>1. PolicyInv => RowsArePredictedOnce
  BY DEF PolicyInv, WalkInv
<1>2. QED
  BY <1>1, PolicyInvHolds, PTL

\* Asked only at the boundaries it named, `every: n` still keeps models younger
\* than n rows (ModelPolicy.decide, EveryNTicksScheduler).
THEOREM PolicyModelsStayRecent == PolicySpec => []ModelsAreRecent
<1>1. PolicyInv => ModelsAreRecent
  BY DEF PolicyInv, WalkInv
<1>2. QED
  BY <1>1, PolicyInvHolds, PTL

\* Asked only at the boundaries it named, no scheduler's answer is rejected
\* (ModelPolicy.decide, Scheduler.decide).
THEOREM PolicyDecisionsStayValid == PolicySpec => []DecisionsAreValid
<1>1. PolicyInv => DecisionsAreValid
  BY DEF PolicyInv, WalkInv
<1>2. QED
  BY <1>1, PolicyInvHolds, PTL
=============================================================================
