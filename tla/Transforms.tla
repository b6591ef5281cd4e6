----------------------------- MODULE Transforms -----------------------------
(***************************************************************************)
(* The functions of iosislib.tsfn.transforms and iosislib.metrics: which   *)
(* configurations they accept, the signatures they resolve against the     *)
(* columns they are bound to, and what they compute.                       *)
(*                                                                         *)
(* A column type is [dtype, width], width 0 for a scalar; a function's only*)
(* input is "value", or "left" and "right", and its only output "value",   *)
(* whatever the configured column names.  Irrational results are           *)
(* represented by a rational that keeps their order and sign: a logarithm  *)
(* by its argument, a root by the signed square.                           *)
(***************************************************************************)
EXTENDS Frames

Kind(op) ==
  CASE op \in {"abs", "sign", "sqrt", "power", "clip", "negate", "log", "logit"} -> "itemwise"
    [] op \in {"spread", "product", "ratio", "log_ratio"} -> "struct"
    [] op \in {"lag", "lead", "delta"} -> "shift"
    [] op \in {"pct_change", "log_return"} -> "return"
    [] op \in {"rolling_sum", "rolling_mean", "rolling_max", "rolling_min", "rolling_median",
               "rolling_quantile", "rolling_var", "rolling_std", "rolling_z_score",
               "rolling_percentile_rank"} -> "rolling"
    [] op \in {"ewm_mean", "ewm_std"} -> "ewm"
    [] op \in {"total_return", "max_drawdown", "sharpe"} -> "metric"
    [] op \in {"mse", "mae"} -> "error_metric"
    [] op \in {"model", "trainer"} -> "supervised"
    [] OTHER -> op

\* The functions that are modelled.
Operations ==
  {"source", "abs", "sign", "sqrt", "power", "clip", "negate", "log", "logit",
   "spread", "product", "ratio", "log_ratio", "lag", "lead", "delta", "pct_change", "log_return",
   "rolling_sum", "rolling_mean", "rolling_max", "rolling_min", "rolling_median",
   "rolling_quantile", "rolling_var", "rolling_std", "rolling_z_score",
   "rolling_percentile_rank", "rolling_cov", "rolling_cov_matrix", "ewm_mean", "ewm_std",
   "feature_packer", "feature_unpacker", "total_return", "max_drawdown", "sharpe",
   "mse", "mae", "model", "trainer", "backtest"}

\* The fields of the config dataclasses, at the values the model starts from.
Defaults ==
  [periods |-> 1, min_samples |-> 1, ddof |-> 1, quantile |-> [num |-> 1, den |-> 2],
   interpolation |-> "linear", method |-> "average", alpha |-> [num |-> 1, den |-> 2],
   adjust |-> TRUE, exponent |-> 2, lower |-> Null, upper |-> Null,
   input_columns |-> <<>>, features |-> Null, drop_nonfinite |-> FALSE]

\* __post_init__ of the configs.
ValidPeriods(args) == args.periods \in Nat \ {0}
ValidWindow(args) == ValidPeriods(args) /\ args.min_samples \in 1..args.periods
ValidDdof(args) == args.ddof \in 0..(args.periods - 1)
ValidColumns(args, least) ==
  /\ args.input_columns \in Seq(Range(args.input_columns))
  /\ Len(args.input_columns) >= least /\ IsInjective(args.input_columns)
ValidConfig(op, args) ==
  CASE Kind(op) \in {"shift", "return"} -> ValidPeriods(args)
    [] op = "rolling_var" -> ValidWindow(args) /\ ValidDdof(args)
    [] op = "rolling_quantile" ->
         ValidWindow(args) /\ ~Less(args.quantile, Zero) /\ ~Less(One, args.quantile)
    [] Kind(op) = "rolling" /\ op \notin {"rolling_var", "rolling_quantile"} -> ValidWindow(args)
    [] Kind(op) = "ewm" ->
         Less(Zero, args.alpha) /\ ~Less(One, args.alpha) /\ args.min_samples >= 1
    [] op = "rolling_cov" -> ValidWindow(args) /\ ValidDdof(args)
    [] op = "rolling_cov_matrix" ->
         ValidColumns(args, 2) /\ ValidWindow(args) /\ ValidDdof(args)
    [] op = "clip" ->
         /\ args.lower # Null \/ args.upper # Null
         /\ args.lower # Null /\ args.upper # Null => ~Less(Val(args.upper), Val(args.lower))
    [] op = "feature_packer" -> ValidColumns(args, 1)
    [] op = "feature_unpacker" -> args.features # Null => args.features[1] >= 1
    [] OTHER -> TRUE

-----------------------------------------------------------------------------
(* resolve_signature: `bound` maps the inputs that are bound to a column    *)
(* their parent has to that column's type                                   *)

Float == [dtype |-> "float", width |-> 0]
Vector(width) == [dtype |-> "float", width |-> width]
FlatSize(width) == IF width = 0 THEN 1 ELSE width
Castable == {"float", "flag"}            \* numeric and boolean

FeatureNames == <<"feature_0", "feature_1", "feature_2", "feature_3">>

\* The shape of a bound column, and the declared one of an unbound input.
WidthOf(bound, input) == IF input \in DOMAIN bound THEN bound[input].width ELSE 0
FloatOf(bound, input) == Vector(WidthOf(bound, input))

Resolvable(op, args, bound) ==
  CASE Kind(op) = "struct" -> WidthOf(bound, "left") = WidthOf(bound, "right")
    [] op = "feature_packer" ->
         \A c \in Range(args.input_columns) \intersect DOMAIN bound : bound[c].dtype \in Castable
    [] op = "feature_unpacker" ->
         IF "value" \in DOMAIN bound
           THEN args.features # Null => args.features[1] = FlatSize(bound.value.width)
           ELSE args.features # Null
    [] Kind(op) = "supervised" -> {"features", "target"} \subseteq DOMAIN bound
    [] OTHER -> TRUE

InputColumns(op, args, bound) ==
  CASE Kind(op) \in {"itemwise", "shift"} -> [value |-> FloatOf(bound, "value")]
    [] Kind(op) = "struct" ->
         [left |-> FloatOf(bound, "left"), right |-> FloatOf(bound, "right")]
    [] Kind(op) \in {"return", "rolling", "ewm", "metric"} -> [value |-> Float]
    [] Kind(op) \in {"rolling_cov", "error_metric"} -> [left |-> Float, right |-> Float]
    [] op = "rolling_cov_matrix" -> [c \in Range(args.input_columns) |-> Float]
    [] op = "feature_packer" ->
         [c \in Range(args.input_columns) |->
            IF c \in DOMAIN bound THEN bound[c] ELSE Float]
    [] op = "feature_unpacker" ->
         [value |-> IF "value" \in DOMAIN bound THEN bound.value
                    ELSE Vector(args.features[1])]
    [] Kind(op) = "supervised" ->
         [features |-> FloatOf(bound, "features"), target |-> FloatOf(bound, "target")]
    [] op = "backtest" -> [signal |-> Float]

OutputColumns(op, args, bound) ==
  CASE Kind(op) \in {"itemwise", "shift"} -> [value |-> FloatOf(bound, "value")]
    [] Kind(op) = "struct" -> [value |-> FloatOf(bound, "left")]
    [] op = "rolling_cov_matrix" ->
         [value |-> Vector(Len(args.input_columns) * Len(args.input_columns))]
    [] op = "feature_packer" ->
         LET in == InputColumns(op, args, bound)
             listed == args.input_columns
             size[k \in 0..Len(listed)] ==
               IF k = 0 THEN 0 ELSE size[k - 1] + FlatSize(in[listed[k]].width)
         IN  [value |-> Vector(size[Len(listed)])]
    [] op = "feature_unpacker" ->
         LET in == InputColumns(op, args, bound)
         IN  [c \in {FeatureNames[j] : j \in 1..FlatSize(in.value.width)} |-> Float]
    [] op = "model" -> [value |-> Vector(FlatSize(bound.target.width))]
    [] op = "trainer" -> [c \in {} |-> Float]
    [] OTHER -> [value |-> Float]

NoTime == "none"     \* the time axis of FrameSignature.empty()
Utc == "utc"         \* the time axis of every transform
Batch == {"model", "trainer", "backtest", "total_return", "max_drawdown", "sharpe", "mse", "mae"}

\* A configured function with its resolved signatures.
Function(op, args, bound) ==
  [op |-> op, args |-> args,
   in |-> IF op = "source" THEN [time |-> NoTime, columns |-> [c \in {} |-> Float]]
          ELSE [time |-> Utc, columns |-> InputColumns(op, args, bound)],
   out |-> IF op = "source" THEN [time |-> args.time, columns |-> [value |-> args.type]]
           ELSE [time |-> Utc, columns |-> OutputColumns(op, args, bound)],
   lookahead |-> op = "lead",
   allows |-> IF Kind(op) = "supervised" THEN {"target"} ELSE {},
   batch |-> op \in Batch,
   nulls |-> IF op \in Batch THEN "error" ELSE "propagate"]

-----------------------------------------------------------------------------
(* Shifts of a column: a sequence of cells in time order *)

Shift(column, periods) ==
  [k \in DOMAIN column |-> IF k - periods \in DOMAIN column THEN column[k - periods] ELSE Null]

\* Where there is no earlier vector there is a vector of nulls.
Lag(column, width, periods) ==
  LET earlier == Shift(column, periods)
  IN  [k \in DOMAIN column |->
         IF width > 0 /\ earlier[k] = Null THEN [j \in 1..width |-> Null] ELSE earlier[k]]
Lead(column, width, periods) == Shift(column, -periods)
Delta(column, width, periods) ==
  LET lag == Lag(column, width, periods)
      Difference(a, b) == Lift(Minus, a, b)
  IN  [k \in DOMAIN column |-> Pairwise(Difference, column[k], lag[k], width)]

\* Mutant of PctChange: nothing is asked of the prior value.
PctChangeOfAny(column, periods) ==
  [k \in DOMAIN column |->
     Lift(LAMBDA v, p : Over(Minus(v, p), p), column[k], Shift(column, periods)[k])]

PctChange(column, periods) ==
  LET prior == Shift(column, periods) IN
    [k \in DOMAIN column |->
       IF column[k] = Null \/ prior[k] = Null \/ IsZero(Val(prior[k])) THEN Null
       ELSE <<Over(Minus(Val(column[k]), Val(prior[k])), Val(prior[k]))>>]

\* log(value) - log(prior)
LogReturn(column, periods) ==
  LET prior == Shift(column, periods) IN
    [k \in DOMAIN column |->
       IF column[k] # Null /\ prior[k] # Null /\ IsPositive(Val(column[k])) /\ IsPositive(Val(prior[k]))
         THEN <<Over(Val(column[k]), Val(prior[k]))>> ELSE Null]

-----------------------------------------------------------------------------
(* Windows *)

\* Mutant of Window: the window is centred on the row.
CentredWindow(column, k, periods) ==
  SelectSeq(SubSeq(column, Max({1, k - periods + 2}), Min({k + 1, Len(column)})),
            LAMBDA c : c # Null)

\* The observations of the window that ends at row k, oldest first.
Window(column, k, periods) ==
  SelectSeq(SubSeq(column, Max({1, k - periods + 1}), k), LAMBDA c : c # Null)

Count(n) == [num |-> n, den |-> 1]
Total(cells) == FoldLeft(LAMBDA q, c : Plus(q, Val(c)), Zero, cells)
Mean(cells) == Over(Total(cells), Count(Len(cells)))
Deviation(cells, k) == Minus(Val(cells[k]), Mean(cells))
\* The sum of the products of the deviations of paired observations.
Codeviation(xs, ys) ==
  Total([k \in DOMAIN xs |-> <<Times(Deviation(xs, k), Deviation(ys, k))>>])
Largest(cells) == FoldLeft(LAMBDA q, c : IF Less(q, Val(c)) THEN Val(c) ELSE q,
                           Val(cells[1]), cells)
Smallest(cells) == FoldLeft(LAMBDA q, c : IF Less(Val(c), q) THEN Val(c) ELSE q,
                            Val(cells[1]), cells)

\* RollingUnaryTSFN: one value per window with enough observations.
Rolled(column, args, Reduce(_)) ==
  [k \in DOMAIN column |->
     LET window == Window(column, k, args.periods)
     IN  IF Len(window) < args.min_samples THEN Null ELSE Reduce(window)]

RollingSum(column, args) == Rolled(column, args, LAMBDA w : <<Total(w)>>)
RollingMean(column, args) == Rolled(column, args, LAMBDA w : <<Mean(w)>>)
RollingMax(column, args) == Rolled(column, args, LAMBDA w : <<Largest(w)>>)
RollingMin(column, args) == Rolled(column, args, LAMBDA w : <<Smallest(w)>>)

Covariance(xs, ys, ddof) ==
  IF Len(xs) <= ddof THEN Null ELSE <<Over(Codeviation(xs, ys), Count(Len(xs) - ddof))>>
RollingVar(column, args) == Rolled(column, args, LAMBDA w : Covariance(w, w, args.ddof))
RollingStd(column, args) == RollingVar(column, [args EXCEPT !.ddof = 1])

\* (value - mean) / std, or null where the deviation is zero or missing.
RollingZScore(column, args) ==
  LET mean == RollingMean(column, args)
      std == RollingStd(column, args)
      Squared(q) == IF IsNegative(q) THEN Minus(Zero, Times(q, q)) ELSE Times(q, q)
  IN  [k \in DOMAIN column |->
         IF column[k] = Null \/ std[k] = Null \/ ~IsPositive(Val(std[k])) THEN Null
         ELSE <<Over(Squared(Minus(Val(column[k]), Val(mean[k]))), Val(std[k]))>>]

\* The rank of the value in its window, from 0 for the smallest to 1 for the largest.
RollingPercentileRank(column, args) ==
  [k \in DOMAIN column |->
     LET window == Window(column, k, args.periods)
         v == Val(column[k])
         lower == {Val(window[j]) : j \in {i \in DOMAIN window : Less(Val(window[i]), v)}}
         below == Cardinality({j \in DOMAIN window : Less(Val(window[j]), v)})
         ties == Cardinality({j \in DOMAIN window : Val(window[j]) = v})
         rank == CASE args.method = "average" -> Rational(2 * below + ties + 1, 2)
                   [] args.method = "min" -> Count(below + 1)
                   [] args.method = "max" -> Count(below + ties)
                   [] args.method = "dense" -> Count(Cardinality(lower) + 1)
     IN  IF column[k] = Null \/ Len(window) < args.min_samples THEN Null
         ELSE IF Len(window) <= 1 THEN Whole(0)
         ELSE <<Over(Minus(rank, One), Count(Len(window) - 1))>>]

LOCAL SmallestFirst(window) == SortSeq(window, LAMBDA a, b : Less(Val(a), Val(b)))

RollingMedian(column, args) ==
  Rolled(column, args,
         LAMBDA w : LET s == SmallestFirst(w)
                        n == Len(w)
                    IN  <<Mean(<<s[(n + 1) \div 2], s[(n + 2) \div 2]>>)>>)

\* (n - 1) * quantile falls on an observation, or between two of them.
Interpolated(sorted, quantile, interpolation) ==
  LET at == (Len(sorted) - 1) * quantile.num
      low == at \div quantile.den + 1
      part == Rational(at % quantile.den, quantile.den)
      high == IF IsZero(part) THEN low ELSE low + 1
      rise == Minus(Val(sorted[high]), Val(sorted[low]))
      reached == Len(sorted) * quantile.num
      share == (reached + quantile.den - 1) \div quantile.den
  IN  CASE interpolation = "lower" -> sorted[low]
        [] interpolation = "higher" -> sorted[high]
        [] interpolation = "nearest" ->
             IF Less(part, [num |-> 1, den |-> 2]) THEN sorted[low] ELSE sorted[high]
        [] interpolation = "midpoint" -> <<Mean(<<sorted[low], sorted[high]>>)>>
        [] interpolation = "equiprobable" -> sorted[Max({1, share})]
        [] interpolation = "linear" -> <<Plus(Val(sorted[low]), Times(part, rise))>>

RollingQuantile(column, args) ==
  Rolled(column, args,
         LAMBDA w : Interpolated(SmallestFirst(w), args.quantile, args.interpolation))

\* The covariance of the rows of a window, null if one of them misses a value.
RollingCov(xs, ys, args) ==
  [k \in DOMAIN xs |->
     LET rows == Max({1, k - args.periods + 1})..k
         x == Window(xs, k, args.periods)
         y == Window(ys, k, args.periods)
     IN  IF \/ Cardinality(rows) < args.min_samples
            \/ Len(x) < Cardinality(rows) \/ Len(y) < Cardinality(rows)
           THEN Null ELSE Covariance(x, y, args.ddof)]

\* Row-major, the variances on the diagonal: these ignore what is missing.
RollingCovMatrix(columns, args) ==
  LET n == Len(columns)
      Entry(i, j) == IF i = j THEN RollingVar(columns[i], args)
                     ELSE RollingCov(columns[Min({i, j})], columns[Max({i, j})], args)
  IN  [k \in DOMAIN columns[1] |->
         [e \in 1..(n * n) |-> Entry((e - 1) \div n + 1, ((e - 1) % n) + 1)[k]]]

\* Exponential weights: at every row the weight of the past decays by 1 - alpha,
\* an observation then joins with weight 1, or alpha without adjustment.
EwmMoments(column, args) ==
  LET decay == Minus(One, args.alpha)
      new == IF args.adjust THEN One ELSE args.alpha
      Square(q) == Times(q, q)
      Start(q) == [mean |-> q, cov |-> Zero, old |-> One, sum |-> One, squares |-> One,
                   seen |-> 1]
      Observe(m, q) ==
        LET old == Times(m.old, decay)
            weight == Plus(old, new)
            mean == Over(Plus(Times(old, m.mean), Times(new, q)), weight)
            cov == Over(Plus(Times(old, Plus(m.cov, Square(Minus(m.mean, mean)))),
                             Times(new, Square(Minus(q, mean)))), weight)
            scale == IF args.adjust THEN One ELSE weight
        IN  [mean |-> mean, cov |-> cov, old |-> Over(weight, scale),
             sum |-> Over(Plus(Times(m.sum, decay), new), scale),
             squares |-> Over(Plus(Times(m.squares, Square(decay)), Square(new)), Square(scale)),
             seen |-> m.seen + 1]
      moments[k \in DOMAIN column] ==
        LET before == IF k = 1 THEN Null ELSE moments[k - 1]
        IN  CASE before = Null -> IF column[k] = Null THEN Null ELSE <<Start(Val(column[k]))>>
              [] before # Null /\ column[k] = Null ->
                   <<[Val(before) EXCEPT !.old = Times(@, decay), !.sum = Times(@, decay),
                                         !.squares = Times(@, Square(decay))]>>
              [] OTHER -> <<Observe(Val(before), Val(column[k]))>>
  IN  moments

EwmMean(column, args) ==
  LET moments == EwmMoments(column, args)
      MeanOf(m) == IF m.seen < args.min_samples THEN Null ELSE <<m.mean>>
  IN  [k \in DOMAIN column |->
         IF column[k] = Null THEN Null ELSE MeanOf(Val(moments[k]))]

\* Without bias; undefined until two observations exist.
EwmStd(column, args) ==
  LET moments == EwmMoments(column, args)
      StdOf(m, square) ==
        IF m.seen < Max({args.min_samples, 2}) \/ ~Less(m.squares, square) THEN Null
        ELSE <<Over(Times(m.cov, square), Minus(square, m.squares))>>
      Std(m) == StdOf(m, Times(m.sum, m.sum))
  IN  [k \in DOMAIN column |->
         IF column[k] = Null THEN Null ELSE Std(Val(moments[k]))]

-----------------------------------------------------------------------------
(* Transforms of a value, and of two values of a row *)

Spread(a, b) == Lift(Minus, a, b)
Product(a, b) == Lift(Times, a, b)

\* Mutant of Ratio: an infinite quotient is nulled in scalar columns only.
RatioOfScalars(a, b, width) ==
  LET Quotient(x, y) == Lift(Over, x, y)
      ratio == Pairwise(Quotient, a, b, width)
  IN  IF width = 0 /\ IsInfinite(ratio) THEN Null ELSE ratio

\* Only an infinite quotient becomes null: 0 / 0 stays NaN.
Ratio(a, b, width) ==
  LET Quotient(x, y) == Lift(Over, x, y)
      Known(c) == IF IsInfinite(c) THEN Null ELSE c
  IN  Each(Known, Pairwise(Quotient, a, b, width), width)

\* log(a / b): of scalars null unless both are positive, of vectors null where the
\* logarithm is not finite, so that two negative components have one.
LogRatio(a, b, width) ==
  LET Quotient(x, y) == Lift(Over, x, y)
      Logarithm(c) == IF c # Null /\ IsPositive(Val(c)) /\ IsFinite(c) THEN c ELSE Null
      positive == /\ a # Null /\ b # Null
                  /\ width = 0 => IsPositive(Val(a)) /\ IsPositive(Val(b))
  IN  IF positive THEN Each(Logarithm, Pairwise(Quotient, a, b, width), width) ELSE Null

Log(a) == IF a # Null /\ IsPositive(Val(a)) THEN a ELSE Null
Sqrt(a) == IF a # Null /\ ~Less(Val(a), Zero) THEN a ELSE Null
Abs(a) == IF a # Null /\ IsNegative(Val(a)) THEN <<Minus(Zero, Val(a))>> ELSE a
Negate(a) == Lift(Minus, Whole(0), a)
Sign(a) == IF a = Null \/ ~IsFinite(a) THEN a
           ELSE IF IsPositive(Val(a)) THEN Whole(1)
           ELSE IF IsZero(Val(a)) THEN Whole(0) ELSE Whole(-1)
Clip(a, lower, upper) ==
  IF a = Null THEN Null
  ELSE IF lower # Null /\ Less(Val(a), Val(lower)) THEN lower
  ELSE IF upper # Null /\ Less(Val(upper), Val(a)) THEN upper ELSE a
\* value ** exponent, or null where that is not finite.
Power(a, exponent) ==
  LET To(q) == IF exponent >= 0 THEN Rational(q.num ^ exponent, q.den ^ exponent)
               ELSE Rational(q.den ^ (-exponent), q.num ^ (-exponent))
  IN  IF a = Null \/ ~IsFinite(<<To(Val(a))>>) THEN Null ELSE <<To(Val(a))>>
\* log(p / (1 - p)) of a probability, null outside 0 and 1 and at them.
Logit(a) ==
  IF a # Null /\ Less(Zero, Val(a)) /\ Less(Val(a), One)
    THEN <<Over(Val(a), Minus(One, Val(a)))>> ELSE Null

-----------------------------------------------------------------------------
(* FeaturePacker and FeatureUnpacker *)

\* The cells of a row side by side; a missing vector is as many nulls.
Pack(cells, widths) ==
  LET packed[k \in 0..Len(cells)] ==
        IF k = 0 THEN <<>>
        ELSE packed[k - 1]
               \o [j \in 1..FlatSize(widths[k]) |-> Component(cells[k], widths[k], j)]
  IN  packed[Len(cells)]

Unpack(cell, width) ==
  [c \in {FeatureNames[j] : j \in 1..FlatSize(width)} |->
     Component(cell, width, CHOOSE j \in 1..FlatSize(width) : FeatureNames[j] = c)]

-----------------------------------------------------------------------------
(* MetricTSFN.batch: the value of a metric over the rows, one cell per input, *)
(* or a raise                                                                  *)

Metric(op, rows) ==
  LET column(c) == [k \in DOMAIN rows |-> rows[k][c]]
      first == Val(rows[1][1])
      last == Val(rows[Len(rows)][1])
      peaks == [k \in DOMAIN rows |-> <<Largest(SubSeq(column(1), 1, k))>>]
      drawdowns == [k \in DOMAIN rows |->
                      IF IsPositive(Val(peaks[k]))
                        THEN <<Over(Minus(Val(peaks[k]), Val(rows[k][1])), Val(peaks[k]))>>
                        ELSE Whole(0)]
      errors == [k \in DOMAIN rows |-> Spread(rows[k][1], rows[k][2])]
      std == Covariance(column(1), column(1), 1)
      squared == LET m == Mean(column(1)) IN
                 IF IsNegative(m) THEN Minus(Zero, Times(m, m)) ELSE Times(m, m)
  IN  CASE op = "total_return" ->
             IF IsPositive(first) THEN <<Minus(Over(last, first), One)>> ELSE Null
        [] op = "max_drawdown" ->
             IF \E k \in DOMAIN rows : IsPositive(Val(peaks[k])) THEN <<Largest(drawdowns)>> ELSE Null
        [] op = "sharpe" ->
             IF IsZero(Val(std)) THEN Null ELSE <<Over(squared, Val(std))>>
        [] op = "mse" -> <<Mean([k \in DOMAIN rows |-> Product(errors[k], errors[k])])>>
        [] op = "mae" -> <<Mean([k \in DOMAIN rows |-> Abs(errors[k])])>>

\* Null stands for the raise: a value that is not finite and not to be dropped, too
\* few rows, or a metric that is undefined.
Measured(op, args, rows) ==
  LET Sound(r) == \A c \in DOMAIN r : r[c] # Null /\ IsFinite(r[c])
      kept == Where(rows, {k \in DOMAIN rows : Sound(rows[k])})
      least == IF op \in {"mse", "mae"} THEN 1 ELSE 2
  IN  IF \/ ~args.drop_nonfinite /\ Len(kept) < Len(rows)
         \/ Len(kept) < least
        THEN Null ELSE Metric(op, kept)
=============================================================================
