----------------------------- MODULE Evaluation -----------------------------
(***************************************************************************)
(* What executing a graph computes: for each node of the dependency order  *)
(* the alignment of its inputs, the checks before and after, its null      *)
(* policies and its function, over what its parents computed.  `d` and     *)
(* `id` are as in Declarations; results map IDs to [status, rows].         *)
(***************************************************************************)
EXTENDS Declarations

CONSTANTS
  Names,     \* the input names in the order sorted() gives them
  Stores     \* the model stores that hold a finished model of every group

ASSUME NamesAssumption == Names \in Seq(Range(Names))

-----------------------------------------------------------------------------
(* Executor._evaluate_node, TSFN.__call__ and the transforms *)

Failure(why) == [status |-> why, rows |-> <<>>]
Ok(rows) == [status |-> "ok", rows |-> rows]
NotRun == Failure("not run")

\* apply: what a function makes of rows with the columns it expects, no row where
\* it raises on the data.
Apply(fn, rows) ==
  LET Col(i) == [k \in DOMAIN rows |-> rows[k].cells[i]]
      Width(i) == fn.in.columns[i].width
      args == fn.args
      listed == args.input_columns
      Out(column) ==
        [k \in DOMAIN rows |-> [time |-> rows[k].time, cells |-> [value |-> column[k]]]]
      Itemwise(F(_)) == Out([k \in DOMAIN rows |-> Each(F, rows[k].cells["value"], Width("value"))])
      Both(F(_, _)) ==
        Out([k \in DOMAIN rows |->
               Pairwise(F, rows[k].cells["left"], rows[k].cells["right"], Width("left"))])
      Pair(F(_, _, _)) ==
        Out([k \in DOMAIN rows |->
               F(rows[k].cells["left"], rows[k].cells["right"], Width("left"))])
  IN  CASE fn.op = "lag" -> Out(Lag(Col("value"), Width("value"), args.periods))
        [] fn.op = "lead" -> Out(Lead(Col("value"), Width("value"), args.periods))
        [] fn.op = "delta" -> Out(Delta(Col("value"), Width("value"), args.periods))
        [] fn.op = "pct_change" -> Out(PctChange(Col("value"), args.periods))
        [] fn.op = "log_return" -> Out(LogReturn(Col("value"), args.periods))
        [] fn.op = "rolling_sum" -> Out(RollingSum(Col("value"), args))
        [] fn.op = "rolling_mean" -> Out(RollingMean(Col("value"), args))
        [] fn.op = "rolling_max" -> Out(RollingMax(Col("value"), args))
        [] fn.op = "rolling_min" -> Out(RollingMin(Col("value"), args))
        [] fn.op = "rolling_median" -> Out(RollingMedian(Col("value"), args))
        [] fn.op = "rolling_quantile" -> Out(RollingQuantile(Col("value"), args))
        [] fn.op = "rolling_var" -> Out(RollingVar(Col("value"), args))
        [] fn.op = "rolling_std" -> Out(RollingStd(Col("value"), args))
        [] fn.op = "rolling_z_score" -> Out(RollingZScore(Col("value"), args))
        [] fn.op = "rolling_percentile_rank" -> Out(RollingPercentileRank(Col("value"), args))
        [] fn.op = "ewm_mean" -> Out(EwmMean(Col("value"), args))
        [] fn.op = "ewm_std" -> Out(EwmStd(Col("value"), args))
        [] fn.op = "rolling_cov" -> Out(RollingCov(Col("left"), Col("right"), args))
        [] fn.op = "rolling_cov_matrix" ->
             Out(RollingCovMatrix([c \in DOMAIN listed |-> Col(listed[c])], args))
        [] fn.op = "log" -> Itemwise(Log)
        [] fn.op = "logit" -> Itemwise(Logit)
        [] fn.op = "sqrt" -> Itemwise(Sqrt)
        [] fn.op = "abs" -> Itemwise(Abs)
        [] fn.op = "sign" -> Itemwise(Sign)
        [] fn.op = "negate" -> Itemwise(Negate)
        [] fn.op = "clip" -> Itemwise(LAMBDA c : Clip(c, args.lower, args.upper))
        [] fn.op = "power" -> Itemwise(LAMBDA c : Power(c, args.exponent))
        [] fn.op = "spread" -> Both(Spread)
        [] fn.op = "product" -> Both(Product)
        [] fn.op = "ratio" -> Pair(Ratio)
        [] fn.op = "log_ratio" -> Pair(LogRatio)
        [] fn.op = "feature_packer" ->
             Out([k \in DOMAIN rows |->
                    Pack([c \in DOMAIN listed |-> rows[k].cells[listed[c]]],
                         [c \in DOMAIN listed |-> Width(listed[c])])])
        [] fn.op = "feature_unpacker" ->
             [k \in DOMAIN rows |->
                [time |-> rows[k].time, cells |-> Unpack(rows[k].cells["value"], Width("value"))]]
        [] Kind(fn.op) \in {"metric", "error_metric"} ->
             LET inputs == IF Kind(fn.op) = "metric" THEN <<"value">> ELSE <<"left", "right">>
                 value == Measured(fn.op, args, [k \in DOMAIN rows |->
                            [c \in DOMAIN inputs |-> rows[k].cells[inputs[c]]]])
             IN  IF value = Null THEN <<>>
                 ELSE <<[time |-> rows[Len(rows)].time, cells |-> [value |-> value]]>>
        [] fn.op = "trainer" -> <<>>
        [] fn.op = "model" ->
             Out([k \in DOMAIN rows |->
                    [j \in 1..fn.out.columns.value.width |->
                       Component(rows[k].cells["features"], Width("features"), 1)]])
        [] fn.op = "backtest" -> Out(Col("signal"))

\* validate_input_schema and validate_output_schema: the cells have the type.
Fits(cell, type) ==
  type.width > 0 => cell = Null \/ DOMAIN cell = 1..type.width

\* Functions that raise on what they find: a metric that is undefined, a model whose
\* store has no finished one.
Refuses(fn, computed) ==
  \/ computed = <<>> /\ Kind(fn.op) \in {"metric", "error_metric"}
  \/ computed # <<>> /\ fn.op = "model" /\ fn.args.model_dir \notin Stores

\* What a function made, once it is checked against what it declared.
Outcome(node, computed) ==
  LET declared == node.fn.out.columns
  IN  IF Refuses(node.fn, computed) THEN Failure("data")
      ELSE IF \E k \in DOMAIN computed :
                \/ DOMAIN computed[k].cells # DOMAIN declared
                \/ \E c \in DOMAIN declared : ~Fits(computed[k].cells[c], declared[c])
        THEN Failure("output")
      ELSE Ok(computed)

\* What a node's inputs are bound to.
Bindings(id, results, node) ==
  [i \in Bound(node) |->
     [frame |-> results[id[ParentOf(node, i)]].rows, column |-> node.bindings[i].output,
      tolerance |-> IF i \in DOMAIN node.tolerances THEN node.tolerances[i] ELSE Null]]

\* The rows apply is given.
Prepared(id, results, node) ==
  LET columns == Where(Names, {k \in DOMAIN Names : Names[k] \in Expected(node)})
      widths == [i \in Expected(node) |-> node.fn.in.columns[i].width]
  IN  Prepare(Align(Bindings(id, results, node)), columns, widths, Handlers(node), node.fills)

\* align_inputs, the schema check, the null policies and apply, with the error
\* each of them raises.
Evaluate(d, id, results, sources, node) ==
  LET bound == Bound(node)
      Up(i) == results[id[ParentOf(node, i)]]
      Out(i) == d[ParentOf(node, i)].fn.out
      Output(i) == node.bindings[i].output
      prepared == Prepared(id, results, node)
  IN  IF bound = {} THEN
        IF node.fn.op = "source" THEN Ok(sources[node.fn.args.feed]) ELSE Failure("no input frame")
      ELSE IF \E i \in bound : Up(i) = NotRun THEN Failure("parent")
      ELSE IF \E i \in bound : Up(i).status # "ok" THEN Failure("upstream")
      ELSE IF \E i \in bound : node.fn.in.time = NoTime \/ Out(i).time # node.fn.in.time
        THEN Failure("time")
      ELSE IF \E i \in bound : Output(i) \notin DOMAIN Out(i).columns THEN Failure("column")
      ELSE IF ~(Expected(node) \subseteq bound) THEN Failure("column")
      ELSE IF \E i \in Expected(node) : Out(i).columns[Output(i)] # node.fn.in.columns[i]
        THEN Failure("type")
      ELSE IF \E i \in Expected(node) : Handlers(node)[i] = "fill" /\ i \notin DOMAIN node.fills
        THEN Failure("fill")
      ELSE IF prepared.raised THEN Failure("nulls")
      ELSE Outcome(node, Apply(node.fn, prepared.rows))

\* IDs in the order their hashes sort, the last built first.
Rank(d) == [n \in 1..Len(d) |-> -n]
Listed(d) == [n \in 1..Len(d) |-> n]
OrderOf(d, id, listed, rank) ==
  Order(d, id, Terminals(d, id, Members(id, listed)), rank, Names)

\* One execution: the nodes of the order, each over what its parents computed.
Execute(d, id, sources) ==
  LET order == OrderOf(d, id, Listed(d), Rank(d))
      results[k \in 0..Len(order)] ==
        LET before == results[k - 1]
            n == order[k]
        IN  IF k = 0 THEN [m \in 1..Len(d) |-> NotRun]
            ELSE [before EXCEPT ![id[n]] = Evaluate(d, id, before, sources, d[n])]
  IN  results[Len(order)]
=============================================================================
