----------------------------- MODULE ModelPolicy -----------------------------
(***************************************************************************)
(* iosislib.backtest.policy.ModelPolicy.decide, called once for each row of *)
(* a backtest: the walk-forward pass of WalkForward as a trading policy     *)
(* makes it, one row at a time.  The scheduler is consulted only when the   *)
(* boundary it last named is reached, the model is fitted on the policy's   *)
(* own bounded history (FeatureBuffer) instead of a frame, and the row is   *)
(* put into the history behind its prediction.                              *)
(*                                                                         *)
(* cursor is rows_seen, decision.until next_schedule_at.  The history is a  *)
(* ring of history_rows slots, each holding the number of a row.            *)
(***************************************************************************)
EXTENDS WalkForward, FiniteSetsExt

CONSTANT Histories  \* capacities of the history, in rows

ASSUME HistoriesAssumption == Histories \subseteq Nat \ {0}

VARIABLES
  history,  \* history_rows
  slots,    \* the row in each slot of the ring
  start,    \* slot of the oldest row
  size      \* slots in use

buffer == <<history, slots, start, size>>
policyVars == <<vars, buffer>>

Nothing == -1  \* in a slot of np.empty

PolicyInit ==
  /\ Init
  /\ history \in Histories
  /\ slots = [i \in 0..(history - 1) |-> Nothing]
  /\ start = 0 /\ size = 0

-----------------------------------------------------------------------------
(* FeatureBuffer *)

\* Mutant of Remember: a full ring keeps its start.
RememberAtTheStart(row) ==
  /\ slots' = [slots EXCEPT ![(start + size) % history] = row]
  /\ size' = IF size < history THEN size + 1 ELSE size
  /\ UNCHANGED <<history, start>>

Remember(row) ==
  /\ slots' = [slots EXCEPT ![(start + size) % history] = row]
  /\ \/ size < history /\ size' = size + 1 /\ UNCHANGED start
     \/ size = history /\ start' = (start + 1) % history /\ UNCHANGED size
  /\ UNCHANGED history

\* The rows that frame() hands to the splitter.
Remembered == [i \in 1..size |-> slots[(start + i - 1) % history]]

-----------------------------------------------------------------------------

Consult ==
  /\ pc = "decide"
  /\ \/ cursor >= decision.until /\ Decide
     \/ /\ cursor < decision.until
        /\ pc' = "predict"
        /\ UNCHANGED <<total, scheduler, splitter, why, cursor, last, count, metric,
                       decision, model, outputs>>
  /\ UNCHANGED buffer

FitRemembered ==
  /\ pc = "fit"
  /\ \/ SplitRaises(size) /\ Fail("split")
     \/ /\ ~SplitRaises(size)
        /\ model' = Fitted(Max({Remembered[i] : i \in 1..LearnedRows(size)}) + 1, cursor)
        /\ last' = cursor
        /\ count' = count + 1
        /\ pc' = "predict"
        /\ UNCHANGED <<total, scheduler, splitter, why, cursor, metric, decision, outputs>>
  /\ UNCHANGED buffer

\* An untrained model orders nothing and leaves the metrics; a row, a prediction
\* or a target that is not finite raises.
PredictRow ==
  /\ pc = "predict"
  /\ \/ Fail("metric") /\ UNCHANGED buffer
     \/ /\ metric' \in IF model.trained THEN MetricsOf(model) ELSE {metric}
        /\ outputs' = Append(outputs, [from |-> cursor, to |-> cursor + 1, model |-> model])
        /\ Remember(cursor)
        /\ cursor' = cursor + 1
        /\ pc' = IF cursor' < total THEN "decide" ELSE "done"
        /\ UNCHANGED <<total, scheduler, splitter, why, last, count, decision, model>>

PolicyStep == Consult \/ FitRemembered \/ PredictRow

PolicyNext == PolicyStep \/ (Stop /\ UNCHANGED buffer)

\* BacktestTSFN.batch calls the policy, one row after the other.
PolicySpec == PolicyInit /\ [][PolicyNext]_policyVars /\ WF_policyVars(PolicyStep)

-----------------------------------------------------------------------------
(* What a policy that trains promises *)

\* A fit sees exactly the newest rows that the history has room for, oldest first:
\* ChronologicalSplitter takes their order for time, however often the ring wrapped.
HistoryIsRecent ==
  pc = "fit" /\ size > 0 =>
    /\ size = IF cursor < history THEN cursor ELSE history
    /\ \A i \in 1..size : Remembered[i] = cursor - size + i - 1
=============================================================================
