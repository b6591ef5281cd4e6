---------------------------- MODULE MC_Pipeline ----------------------------
(* Pipeline for TLC: programs of three sources, two scalars and a vector,    *)
(* and two more nodes: the first of any function with any policy, the second *)
(* one over what is there.                                                   *)
EXTENDS Pipeline

Half == [num |-> 1, den |-> 2]
NoMap == [i \in {} |-> {}]
To(p) == [parent |-> p, output |-> "value"]

Decl(op, args, bindings) ==
  [op |-> op, args |-> args, bindings |-> bindings, tolerances |-> NoMap,
   handlers |-> NoMap, fills |-> NoMap, mat |-> <<>>]
Source(feed, time, type) == Decl("source", [feed |-> feed, time |-> time, type |-> type], NoMap)

MCFeeds ==
  [a |-> Float, b |-> Float, v |-> Vector(2), flags |-> [dtype |-> "flag", width |-> 0],
   elsewhere |-> Float]
MCSources == <<Source("a", Utc, Float), Source("b", Utc, Float), Source("v", Utc, Vector(2))>>
Flags == Source("flags", Utc, MCFeeds.flags)
Elsewhere == Source("elsewhere", "local", Float)

Over1(op, args, p) == Decl(op, args, [value |-> To(p)])
Over2(op, args, p, q) == Decl(op, args, [left |-> To(p), right |-> To(q)])

Windows == {[Defaults EXCEPT !.periods = p[1], !.min_samples = p[2]] : p \in {<<2, 1>>, <<3, 2>>}}
Wide == [Defaults EXCEPT !.periods = 3, !.min_samples = 2]

Interpolations == {"linear", "lower", "higher", "nearest", "midpoint", "equiprobable"}
Methods == {"average", "min", "max", "dense"}

\* Functions of one scalar, with the configurations tried, valid ones and others.
ScalarCalls ==
  ({"pct_change", "log_return", "total_return", "max_drawdown", "sharpe"} \X {Defaults})
    \union ({"rolling_sum", "rolling_mean", "rolling_max", "rolling_min", "rolling_median",
             "rolling_std", "rolling_z_score"} \X Windows)
    \union ({"rolling_var"} \X {[Wide EXCEPT !.ddof = n] : n \in {0, 1, 3}})
    \union ({"rolling_quantile"} \X {[Wide EXCEPT !.interpolation = i] : i \in Interpolations})
    \union ({"rolling_percentile_rank"} \X {[Wide EXCEPT !.method = m] : m \in Methods})
    \union ({"ewm_mean", "ewm_std"} \X {[Defaults EXCEPT !.adjust = x] : x \in BOOLEAN})
    \union ({"max_drawdown"} \X {[Defaults EXCEPT !.drop_nonfinite = TRUE]})
    \union ({"rolling_mean"} \X {[Defaults EXCEPT !.min_samples = 2]})

\* Functions of one column of any shape.
ShapedCalls ==
  ({"lag", "lead", "delta"} \X {[Defaults EXCEPT !.periods = p] : p \in {1, 2}})
    \union ({"abs", "sign", "sqrt", "negate", "log", "logit"} \X {Defaults})
    \union ({"power"} \X {[Defaults EXCEPT !.exponent = e] : e \in {2, -1}})
    \union ({"clip"} \X {Defaults, [Defaults EXCEPT !.lower = Whole(0), !.upper = Whole(1)]})

PairOps == {"spread", "product", "ratio", "log_ratio"}
PackBoth == [Defaults EXCEPT !.input_columns = <<"right", "left">>]
Matrix == [Wide EXCEPT !.input_columns = <<"left", "right">>]
Split(width) == [Defaults EXCEPT !.features = width]

\* Training and inference, with the parameters their identity leaves out.
Volatile(op) ==
  [model_dir |-> "here"]
    @@ IF op = "model" THEN [frozen |-> FALSE] ELSE [run_id |-> Null]
Supervised(op, group, p, q) ==
  [Decl(op, Defaults @@ [group |-> group] @@ Volatile(op),
        [features |-> To(p), target |-> To(q)])
     EXCEPT !.handlers = [features |-> "drop", target |-> "propagate"]]
Moved(decl) == [decl EXCEPT !.args.model_dir = "there"]
Variants(op, p, q) ==
  LET decl == Supervised(op, "g", p, q)
  IN  {Moved(decl), IF op = "model" THEN [decl EXCEPT !.args.frozen = TRUE]
                    ELSE [decl EXCEPT !.args.run_id = <<"run">>]}
Sinks(parents) ==
  {Supervised("model", "g", p, q) : p, q \in parents}
    \union {Decl("backtest", Defaults, [signal |-> To(p)]) : p \in parents}

Firsts ==
  {Over1(c[1], c[2], 1) : c \in ScalarCalls \union ShapedCalls}
    \union {Over1(c[1], c[2], 3) : c \in ShapedCalls}
    \union {Over2(op, Defaults, 1, 2) : op \in PairOps \union {"mse", "mae"}}
    \union {Over2("spread", Defaults, 1, 3), Over2("rolling_cov", Wide, 1, 2),
            Over2("rolling_cov_matrix", Matrix, 1, 2), Over2("feature_packer", PackBoth, 1, 2),
            Over2("feature_packer", PackBoth, 2, 3)}
    \union {Over1("feature_unpacker", Split(f), p) : f \in {<<>>, <<2>>}, p \in {1, 3}}
    \union {Supervised("trainer", "g", 3, 1), Moved(Supervised("model", "g", 3, 1))}
    \union Sinks({1, 3})

Policies == {"propagate", "drop", "fill", "error", "custom"}
WithPolicy(decl, i, policy) ==
  [decl EXCEPT !.handlers = [j \in {i} |-> policy],
               !.fills = IF policy = "fill" THEN [j \in {i} |-> Whole(1)] ELSE NoMap]
Good == Over2("spread", Defaults, 1, 2)

\* What a declaration may say of nulls and of age.
Careful ==
  {WithPolicy(Good, i, p) : i \in {"left", "right"}, p \in Policies}
    \union {[Good EXCEPT !.handlers = [left |-> p, right |-> q]] : p, q \in {"drop", "error"}}
    \union {WithPolicy(Over1("negate", Defaults, 3), "value", p) : p \in Policies}
    \union {[Good EXCEPT !.tolerances = [right |-> <<0>>]], [Good EXCEPT !.mat = <<TRUE>>]}

\* What may be wrong with a declaration, one thing at a time.
Odd ==
  {Flags, Elsewhere,
   Decl("lag", Defaults, NoMap),
   Decl("lag", Defaults, [value |-> [parent |-> 1, output |-> "other"]]),
   Decl("lag", Defaults, [value |-> To(1), extra |-> To(2)]),
   [Source("a", Utc, Float) EXCEPT !.bindings = [value |-> To(1)]],
   Over1("rolling_mean", Wide, 3),
   Over1("feature_unpacker", Split(<<3>>), 3),
   Decl("feature_unpacker", Split(<<2>>), NoMap),
   [Good EXCEPT !.bindings = [left |-> To(1)]],
   [Good EXCEPT !.handlers = [extra |-> "drop"]],
   [Good EXCEPT !.handlers = [extra |-> "fill"]],
   [Good EXCEPT !.handlers = [left |-> "fill"]],
   [Good EXCEPT !.fills = [left |-> Whole(1)]],
   [Decl("backtest", Defaults, [signal |-> To(1)]) EXCEPT !.mat = <<FALSE>>]}

\* The second node is built over the first, or is a variant of it.
Second(first) ==
  CASE first.op = "spread" /\ first.bindings = Good.bindings -> Careful
    [] first.op \in {"lag", "lead", "delta", "rolling_sum", "rolling_cov_matrix", "model"} ->
         {Over1(op, Defaults, 4) : op \in {"lag", "lead"}}
           \union {Over2("spread", Defaults, 1, 4), Over1("feature_unpacker", Split(<<>>), 4)}
           \union Sinks({3, 4})
           \union (IF first.op = "model" THEN Variants("model", 3, 1) ELSE {})
    [] first.op = "feature_packer" ->
         {Over2(op, Defaults, 3, 4) : op \in PairOps}
           \union {Over1("feature_unpacker", Split(<<>>), 4), Over2("feature_packer", PackBoth, 3, 4)}
    [] first.op = "trainer" ->
         {Supervised("trainer", g, 3, 2) : g \in {"g", "h"}}
           \union Variants("trainer", 3, 1) \union {Over1("lag", Defaults, 4)} \union Sinks({3})
    [] first.op = "source" -> {Over1("lag", Defaults, 4), Over2("feature_packer", PackBoth, 1, 4)}
    [] OTHER -> {}

\* The second node of a program is chosen by what the first one declares.
Declared(node) ==
  [op |-> node.fn.op, bindings |-> node.bindings]
MCNodes(built) ==
  IF Len(built) = 3 THEN Firsts \union Careful \union Odd ELSE Second(Declared(built[4]))

MCObservations ==
  {[a |-> <<Half>>, v |-> <<Whole(2), Null>>],
   [a |-> Whole(0), b |-> Whole(2), v |-> <<Whole(-1), <<Half>>>>],
   [a |-> Whole(2), b |-> Null]}
MCNames == <<"extra", "features", "left", "right", "signal", "target", "value">>
=============================================================================
