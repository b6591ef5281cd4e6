------------------------------- MODULE Frames -------------------------------
(***************************************************************************)
(* Numbers, cells and frames, and what iosislib does to a node's input     *)
(* before its function sees it: the causal alignment of its bindings       *)
(* (graph.Executor.align_inputs) and the null policies of                  *)
(* TSFN._prepare_input_nulls.                                              *)
(*                                                                         *)
(* A scalar cell is <<>> for null or <<q>> with q = [num, den] in lowest   *)
(* terms, den >= 0, where 1/0 is infinite and 0/0 is NaN; rationals stand  *)
(* for floats.  A cell of a column of width w > 0 is <<>> or a sequence of *)
(* w scalar cells.  A frame is a sequence of [time, cells], cells by       *)
(* column name, in time order.                                             *)
(***************************************************************************)
EXTENDS Integers, Sequences, SequencesExt, FiniteSetsExt

LOCAL Divisor[m \in Nat, n \in Nat] == IF n = 0 THEN m ELSE Divisor[n, m % n]
LOCAL Magnitude(n) == IF n < 0 THEN -n ELSE n

Null == <<>>
Rational(num, den) ==
  LET common == Divisor[Magnitude(num), Magnitude(den)]
      sign == IF den < 0 THEN -1 ELSE 1
  IN  IF common = 0 THEN [num |-> 0, den |-> 0]
      ELSE [num |-> sign * (num \div common), den |-> sign * (den \div common)]
Whole(n) == <<[num |-> n, den |-> 1]>>
Zero == [num |-> 0, den |-> 1]
One == [num |-> 1, den |-> 1]
Val(cell) == cell[1]

\* The members of a finite set of integers in increasing order, and the rows at
\* a set of positions: what is sorted and selected is so by its place.
InOrder(S) ==
  [k \in 1..Cardinality(S) |-> CHOOSE x \in S : Cardinality({y \in S : y < x}) = k - 1]
Where(rows, at) ==
  LET order == InOrder(at) IN [k \in DOMAIN order |-> rows[order[k]]]

Plus(p, q) == Rational(p.num * q.den + q.num * p.den, p.den * q.den)
Minus(p, q) == Rational(p.num * q.den - q.num * p.den, p.den * q.den)
Times(p, q) == Rational(p.num * q.num, p.den * q.den)
Over(p, q) == Rational(p.num * q.den, p.den * q.num)
Less(p, q) == p.num * q.den < q.num * p.den
IsZero(q) == q.num = 0 /\ q.den # 0
IsPositive(q) == q.num > 0
IsNegative(q) == q.num < 0

IsFinite(cell) == cell = Null \/ Val(cell).den # 0
IsInfinite(cell) == cell # Null /\ Val(cell).den = 0 /\ Val(cell).num # 0

\* An operation is null where an operand is.
Lift(Op(_, _), a, b) == IF a = Null \/ b = Null THEN Null ELSE <<Op(Val(a), Val(b))>>

-----------------------------------------------------------------------------
(* Cells of columns of any width *)

\* _column_null_expr and _series_null_count: a vector with a null in it is null.
IsMissing(cell, width) ==
  cell = Null \/ (width > 0 /\ \E j \in DOMAIN cell : cell[j] = Null)

\* _fill_column_null_expr: the fill takes the place of a null vector and of the
\* nulls in one.
Filled(cell, width, fill) ==
  CASE width = 0 -> IF cell = Null THEN fill ELSE cell
    [] width > 0 /\ cell = Null -> [j \in 1..width |-> fill]
    [] OTHER -> [j \in DOMAIN cell |-> IF cell[j] = Null THEN fill ELSE cell[j]]

\* The j-th component of a cell.
Component(cell, width, j) ==
  IF width = 0 THEN cell ELSE IF cell = Null THEN Null ELSE cell[j]

\* An operation on scalars, on each component.
Each(Op(_), cell, width) ==
  CASE width = 0 -> Op(cell)
    [] width > 0 /\ cell = Null -> Null
    [] OTHER -> [j \in DOMAIN cell |-> Op(cell[j])]

Pairwise(Op(_, _), a, b, width) ==
  CASE width = 0 -> Op(a, b)
    [] width > 0 /\ (a = Null \/ b = Null) -> Null
    [] OTHER -> [j \in DOMAIN a |-> Op(a[j], b[j])]

-----------------------------------------------------------------------------
(* align_inputs *)

TimesOf(frame) == {frame[k].time : k \in DOMAIN frame}

\* Mutant of AsOf: the first row at or after the time.
AsOfForward(frame, column, time, tolerance) ==
  LET coming == {k \in DOMAIN frame : frame[k].time >= time}
  IN  IF coming = {} THEN Null
      ELSE LET row == frame[Min(coming)]
           IN  IF tolerance # Null /\ row.time - time > tolerance[1] THEN Null
               ELSE row.cells[column]

\* join_asof: the last row at or before the time, unless it is older than the
\* tolerance <<age>>; <<>> is no tolerance.
AsOf(frame, column, time, tolerance) ==
  LET past == {k \in DOMAIN frame : frame[k].time <= time}
  IN  IF past = {} THEN Null
      ELSE LET row == frame[Max(past)]
           IN  IF tolerance # Null /\ time - row.time > tolerance[1] THEN Null
               ELSE row.cells[column]

\* The rows at the union of the parents' times.  `sources` maps an input to
\* [frame, column, tolerance].
Align(sources) ==
  LET timeline == UNION {TimesOf(sources[i].frame) : i \in DOMAIN sources}
      times == InOrder(timeline)
  IN  [k \in DOMAIN times |->
         [time |-> times[k],
          cells |-> [i \in DOMAIN sources |->
                       AsOf(sources[i].frame, sources[i].column, times[k],
                            sources[i].tolerance)]]]

-----------------------------------------------------------------------------
(* _prepare_input_nulls: `widths` and `policies` map the columns *)

Raised == [raised |-> TRUE, rows |-> <<>>]
Rows(rows) == [raised |-> FALSE, rows |-> rows]

\* A column's lazy policy.
Lazily(rows, column, width, policy, fill) ==
  CASE policy = "drop" ->
         Where(rows, {k \in DOMAIN rows : ~IsMissing(rows[k].cells[column], width)})
    [] policy = "fill" ->
         [k \in DOMAIN rows |-> [rows[k] EXCEPT !.cells[column] = Filled(@, width, fill)]]
    [] OTHER -> rows

\* A custom handler is the program's own: here, one that repeats the last value.
Handled(rows, column, width) ==
  LET known(k) == {j \in 1..k : ~IsMissing(rows[j].cells[column], width)}
  IN  [k \in DOMAIN rows |->
         IF known(k) = {} THEN rows[k]
         ELSE [rows[k] EXCEPT !.cells[column] = rows[Max(known(k))].cells[column]]]

\* _apply_eager_null_handlers, for a column, once every lazy policy is done.
Eagerly(prepared, column, width, policy) ==
  LET nulls == \E k \in DOMAIN prepared.rows :
                 IsMissing(prepared.rows[k].cells[column], width)
  IN  CASE prepared.raised -> Raised
        [] ~prepared.raised /\ nulls /\ policy = "error" -> Raised
        [] ~prepared.raised /\ nulls /\ policy = "custom" ->
             Rows(Handled(prepared.rows, column, width))
        [] OTHER -> prepared

\* Mutant of Prepare: a column is seen through before the next one is looked at.
PrepareColumnwise(rows, columns, widths, policies, fills) ==
  LET FillOf(c) == IF c \in DOMAIN fills THEN fills[c] ELSE Null
  IN  FoldLeft(LAMBDA p, c :
                 IF p.raised THEN p
                 ELSE Eagerly(Rows(Lazily(p.rows, c, widths[c], policies[c], FillOf(c))),
                              c, widths[c], policies[c]),
               Rows(rows), columns)

Prepare(rows, columns, widths, policies, fills) ==
  LET FillOf(c) == IF c \in DOMAIN fills THEN fills[c] ELSE Null
      lazy[k \in 0..Len(columns)] ==
        LET c == columns[k] IN
        IF k = 0 THEN rows ELSE Lazily(lazy[k - 1], c, widths[c], policies[c], FillOf(c))
      eager[k \in 0..Len(columns)] ==
        LET c == columns[k] IN
        IF k = 0 THEN Rows(lazy[Len(columns)])
        ELSE Eagerly(eager[k - 1], c, widths[c], policies[c])
  IN  eager[Len(columns)]
=============================================================================
