------------------------ MODULE DepthBacktest_proofs ------------------------
(***************************************************************************)
(* What DepthBacktest promises, for any number of assets, levels and rows. *)
(*                                                                         *)
(* Every row is a function of the book before it, so the one invariant     *)
(* (RowsExplainBook) names that function and each theorem is about it.     *)
(* What it computes is a nest of recursions: over the levels of a ladder,  *)
(* over the assets of the narrow path, and over the sums of the vector     *)
(* path.  Each recursion gets an invariant over its index, carried along   *)
(* by IntervalInduction on the set of the indices it holds at.             *)
(***************************************************************************)
EXTENDS DepthBacktest, Recursion, TLAPS

(* Sums *)

LEMMA SumIsPartial ==
  ASSUME NEW n, NEW amount
  PROVE  Sum(n, amount) = Partial(n, 0, amount)[n]
BY DEF Sum, Partial, Runs

LEMMA PartialPrefix ==
  ASSUME NEW n \in Nat, NEW m \in Nat, m <= n, NEW c, NEW amount
  PROVE  \A i \in 0..m : Partial(m, c, amount)[i] = Partial(n, c, amount)[i]
<1> DEFINE f == Partial(m, c, amount)
           g == Partial(n, c, amount)
           S == {i \in 0..m : f[i] = g[i]}
<1>1. /\ f[0] = c /\ \A i \in 1..m : f[i] = f[i - 1] + amount[i]
      /\ g[0] = c /\ \A i \in 1..n : g[i] = g[i - 1] + amount[i]
  BY PartialRuns
<1> HIDE DEF f, g
<1>2. 0 \in S /\ \A i \in 1..m : i - 1 \in S => i \in S
  BY <1>1
<1>3. 0..m \subseteq S
  <2> HIDE DEF S
  <2>1. QED
    BY <1>2, IntervalInduction
<1>4. QED
  BY <1>3 DEF f, g

LEMMA SumSteps ==
  ASSUME NEW amount
  PROVE  /\ Sum(0, amount) = 0
         /\ \A i \in Nat \ {0} : Sum(i, amount) = Sum(i - 1, amount) + amount[i]
<1>1. Sum(0, amount) = 0
  BY SumIsPartial, PartialRuns
<1>2. ASSUME NEW i \in Nat \ {0}
      PROVE  Sum(i, amount) = Sum(i - 1, amount) + amount[i]
  <2>1. i - 1 \in Nat /\ i - 1 <= i /\ i - 1 \in 0..(i - 1) /\ i \in 1..i
    OBVIOUS
  <2>2. Partial(i, 0, amount)[i] = Partial(i, 0, amount)[i - 1] + amount[i]
    BY <2>1, PartialRuns
  <2>3. Partial(i - 1, 0, amount)[i - 1] = Partial(i, 0, amount)[i - 1]
    BY <2>1, PartialPrefix
  <2>4. QED
    BY <2>2, <2>3, SumIsPartial
<1>3. QED
  BY <1>1, <1>2

LEMMA SumType ==
  ASSUME NEW n \in Nat, NEW amount, \A i \in 1..n : amount[i] \in Int
  PROVE  Sum(n, amount) \in Int
BY SumIsPartial, PartialType

-----------------------------------------------------------------------------
(* Walking a ladder *)

\* What is taken of the levels, best first, is what is needed or all there is.
LEMMA TakenBounds ==
  ASSUME NEW need \in Nat, NEW eligible \in [1..Levels -> Nat]
  PROVE  /\ Taken(need, eligible) \in [1..Levels -> Nat]
         /\ \A i \in 1..Levels : Taken(need, eligible)[i] <= eligible[i]
         /\ \A i \in 0..Levels : /\ Sum(i, eligible) \in Nat
                                 /\ Sum(i, Taken(need, eligible)) = Least(need, Sum(i, eligible))
<1> DEFINE t == Taken(need, eligible)
           S == {i \in 0..Levels : Sum(i, eligible) \in Nat /\ Sum(i, t) = Least(need, Sum(i, eligible))}
<1>1. Levels \in Nat
  BY LevelsAssumption
<1>2. \A i \in 1..Levels : /\ Sum(i, eligible) = Sum(i - 1, eligible) + eligible[i]
                           /\ Sum(i, t) = Sum(i - 1, t) + t[i]
                           /\ Sum(i, eligible) \in Int
  BY <1>1, SumSteps, SumType
<1>3. \A i \in 1..Levels : t[i] = Least(eligible[i], Most(need - Sum(i, eligible) + eligible[i], 0))
  BY DEF Taken
<1>4. t \in [1..Levels -> Nat] /\ \A i \in 1..Levels : t[i] <= eligible[i]
  <2>1. \A i \in 1..Levels : t[i] \in Nat /\ t[i] <= eligible[i]
    <3> HIDE DEF t
    <3>1. QED
      BY <1>2, <1>3 DEF Least, Most
  <2>2. QED
    BY <2>1 DEF Taken
<1> HIDE DEF t
<1>5. 0 \in S
  BY <1>1, SumSteps DEF Least
<1>6. ASSUME NEW i \in 1..Levels, i - 1 \in S PROVE i \in S
  <2>1. /\ Sum(i - 1, eligible) \in Nat /\ Sum(i - 1, t) = Least(need, Sum(i - 1, eligible))
        /\ eligible[i] \in Nat
    BY <1>6
  <2>2. Sum(i, eligible) \in Nat
    BY <1>2, <2>1
  <2>3. t[i] = Least(eligible[i], Most(need - Sum(i - 1, eligible), 0))
    BY <1>2, <1>3, <2>1
  <2>4. Sum(i, t) = Least(need, Sum(i, eligible))
    BY <1>2, <2>1, <2>3 DEF Least, Most
  <2>5. QED
    BY <2>2, <2>4
<1>7. 0..Levels \subseteq S
  <2> HIDE DEF S
  <2>1. QED
    BY <1>1, <1>5, <1>6, IntervalInduction
<1>8. QED
  BY <1>4, <1>7 DEF t

Legs == [1..Levels -> [px : Int, vol : Nat]]

LEMMA EligibleType ==
  ASSUME NEW leg \in Legs, NEW limit, NEW side
  PROVE  Eligible(leg, limit, side) \in [1..Levels -> Nat]
BY DEF Eligible, Legs

LEMMA WalkBounds ==
  ASSUME NEW leg \in Legs, NEW need \in Nat, NEW limit, NEW side
  PROVE  LET take == Walk(leg, need, limit, side)
         IN  /\ take \in [1..Levels -> Nat]
             /\ Filled(take) \in Nat /\ Filled(take) <= need
             /\ Cost(take, leg) \in Int
<1> DEFINE e == Eligible(leg, limit, side)
           take == Walk(leg, need, limit, side)
<1>1. e \in [1..Levels -> Nat] /\ Levels \in Nat /\ take = Taken(need, e)
  BY EligibleType, LevelsAssumption DEF Walk
<1> HIDE DEF e, take
<1>2. /\ take \in [1..Levels -> Nat] /\ Sum(Levels, e) \in Nat
      /\ Filled(take) = Least(need, Sum(Levels, e))
  BY <1>1, TakenBounds DEF Filled
<1>3. Filled(take) \in Nat /\ Filled(take) <= need
  BY <1>2 DEF Least
<1>4. Cost(take, leg) \in Int
  <2> DEFINE paid == [i \in 1..Levels |-> take[i] * leg[i].px]
  <2>1. \A i \in 1..Levels : take[i] \in Int /\ leg[i].px \in Int
    BY <1>2 DEF Legs
  <2>2. \A i \in 1..Levels : paid[i] \in Int
    BY <2>1, Products
  <2> HIDE DEF paid
  <2>3. Sum(Levels, paid) \in Int
    BY <1>1, <2>2, SumType
  <2>4. QED
    BY <2>3 DEF Cost, paid
<1>5. QED
  BY <1>2, <1>3, <1>4 DEF take

-----------------------------------------------------------------------------
(* Settling *)

Resting == [qty : Nat, px : Int]
Works == [Side -> [Assets -> Resting]]
Amounts == [Assets -> Int]

\* The books an executor goes through while it executes a row.
Rows ==
  [cash : Int, fees : Int, balance : Amounts, work : Works, equity : Int, forced : BOOLEAN,
   order : Amounts, unfilled : Amounts, cost : Amounts, volume : Amounts,
   ask : Amounts, limit : [Assets -> Int \cup {NoLimit}], cancel : [Assets -> BOOLEAN]]

Paid(signed, cost) == IF signed > 0 THEN cost ELSE -cost
EquityAfter(x, signed, cost, rate, mark) ==
  x.equity + (signed * mark - Paid(signed, cost)) * Unit - cost * rate
Passes(x, signed, cost, rate, mark) ==
  signed # 0 /\ (x.forced \/ EquityAfter(x, signed, cost, rate, mark) >= 0)

\* Books that differ in what rests only.
Same(x, y) ==
  /\ x.cash = y.cash /\ x.fees = y.fees /\ x.balance = y.balance
  /\ x.equity = y.equity /\ x.forced = y.forced
  /\ x.order = y.order /\ x.unfilled = y.unfilled /\ x.cost = y.cost /\ x.volume = y.volume
  /\ x.ask = y.ask /\ x.limit = y.limit /\ x.cancel = y.cancel

\* y is x after signed of asset a changed hands.
Exchanged(x, y, a, signed, cost, rate, mark) ==
  /\ y.cash = x.cash - (Paid(signed, cost) * Unit + cost * rate)
  /\ y.fees = x.fees + cost * rate
  /\ y.equity = EquityAfter(x, signed, cost, rate, mark)
  /\ y.balance = [x.balance EXCEPT ![a] = @ + signed]
  /\ y.order = [x.order EXCEPT ![a] = @ + signed]
  /\ y.cost = [x.cost EXCEPT ![a] = @ + cost]
  /\ y.volume = [x.volume EXCEPT ![a] = @ + Absolute(signed)]
  /\ y.work = x.work /\ y.forced = x.forced /\ y.unfilled = x.unfilled
  /\ y.ask = x.ask /\ y.limit = x.limit /\ y.cancel = x.cancel

LEMMA MoneyType ==
  ASSUME NEW x \in Rows, NEW signed \in Int, NEW cost \in Int, NEW rate \in Int, NEW mark \in Int
  PROVE  /\ Paid(signed, cost) * Unit \in Int /\ cost * rate \in Int
         /\ signed * mark \in Int /\ (signed * mark - Paid(signed, cost)) * Unit \in Int
         /\ EquityAfter(x, signed, cost, rate, mark) \in Int
<1>1. Unit \in Int /\ x.equity \in Int /\ Paid(signed, cost) \in Int
  BY MoneyAssumption DEF Rows, Paid
<1>2. Paid(signed, cost) * Unit \in Int /\ cost * rate \in Int /\ signed * mark \in Int
  BY <1>1, Products
<1>3. signed * mark - Paid(signed, cost) \in Int
  BY <1>1, <1>2
<1>4. (signed * mark - Paid(signed, cost)) * Unit \in Int
  BY <1>1, <1>3, Products
<1>5. QED
  BY <1>1, <1>2, <1>4 DEF EquityAfter

LEMMA SettleExchanges ==
  ASSUME NEW x \in Rows, NEW a \in Assets,
         NEW signed \in Int, NEW cost \in Int, NEW rate \in Int, NEW mark \in Int,
         Passes(x, signed, cost, rate, mark)
  PROVE  LET y == Settle(x, a, signed, cost, rate, mark)
         IN  y \in Rows /\ Exchanged(x, y, a, signed, cost, rate, mark) /\ y # x
<1> DEFINE m == Paid(signed, cost) * Unit + cost * rate
           e == EquityAfter(x, signed, cost, rate, mark)
           f == cost * rate
           z == [x EXCEPT !.equity = e, !.cash = @ - m, !.fees = @ + f, !.balance[a] = @ + signed,
                          !.order[a] = @ + signed, !.cost[a] = @ + cost,
                          !.volume[a] = @ + Absolute(signed)]
<1>1. m \in Int /\ e \in Int /\ f \in Int /\ Absolute(signed) \in Int /\ signed # 0
  <2>1. Paid(signed, cost) * Unit \in Int /\ f \in Int /\ e \in Int
    BY MoneyType
  <2>2. m \in Int
    BY <2>1
  <2>3. signed # 0 /\ Absolute(signed) \in Int
    BY DEF Passes, Absolute
  <2>4. QED
    BY <2>1, <2>2, <2>3
<1>2. Settle(x, a, signed, cost, rate, mark) = z
  <2>1. ~(signed = 0 \/ (~x.forced /\ e < 0))
    BY <1>1 DEF Passes
  <2>2. QED
    BY <2>1 DEF Settle, EquityAfter, Paid
<1>3. Exchanged(x, z, a, signed, cost, rate, mark)
  BY DEF Rows, Exchanged
<1> HIDE DEF m, e, f
<1>4. z \in Rows
  <2> DEFINE b == [x.balance EXCEPT ![a] = @ + signed]
             o == [x.order EXCEPT ![a] = @ + signed]
             c == [x.cost EXCEPT ![a] = @ + cost]
             v == [x.volume EXCEPT ![a] = @ + Absolute(signed)]
  <2>1. z = [x EXCEPT !.equity = e, !.cash = x.cash - m, !.fees = x.fees + f, !.balance = b,
                      !.order = o, !.cost = c, !.volume = v]
    BY DEF Rows
  <2>2. b \in Amounts /\ o \in Amounts /\ c \in Amounts /\ v \in Amounts
    <3>1. /\ x.balance \in Amounts /\ x.order \in Amounts
          /\ x.cost \in Amounts /\ x.volume \in Amounts
      BY DEF Rows
    <3>2. QED
      BY <1>1, <3>1 DEF Amounts
  <2>3. x.cash - m \in Int /\ x.fees + f \in Int
    BY <1>1 DEF Rows
  <2> HIDE DEF b, o, c, v, z
  <2>4. QED
    BY <1>1, <2>1, <2>2, <2>3 DEF Rows
<1>5. z.balance[a] # x.balance[a]
  BY <1>1 DEF Rows, Amounts
<1>6. QED
  BY <1>2, <1>3, <1>4, <1>5

LEMMA SettleHolds ==
  ASSUME NEW x \in Rows, NEW a \in Assets,
         NEW signed \in Int, NEW cost \in Int, NEW rate \in Int, NEW mark \in Int,
         ~Passes(x, signed, cost, rate, mark)
  PROVE  Settle(x, a, signed, cost, rate, mark) = x
<1>1. EquityAfter(x, signed, cost, rate, mark) \in Int
  BY MoneyType
<1>2. signed = 0 \/ (~x.forced /\ EquityAfter(x, signed, cost, rate, mark) < 0)
  BY <1>1 DEF Passes
<1>3. QED
  BY <1>2 DEF Settle, EquityAfter, Paid

\* A fill does the same to books that differ in what rests only.
LEMMA SettleSame ==
  ASSUME NEW x \in Rows, NEW y \in Rows, Same(x, y), NEW a \in Assets,
         NEW signed \in Int, NEW cost \in Int, NEW rate \in Int, NEW mark \in Int
  PROVE  LET x1 == Settle(x, a, signed, cost, rate, mark)
             y1 == Settle(y, a, signed, cost, rate, mark)
         IN  /\ x1 \in Rows /\ y1 \in Rows /\ Same(x1, y1)
             /\ x1.work = x.work /\ y1.work = y.work
             /\ x1 = x <=> y1 = y
<1>1. EquityAfter(x, signed, cost, rate, mark) = EquityAfter(y, signed, cost, rate, mark)
  BY DEF Same, EquityAfter
<1>2. CASE Passes(x, signed, cost, rate, mark)
  <2>1. Passes(y, signed, cost, rate, mark)
    BY <1>1, <1>2 DEF Passes, Same
  <2> DEFINE x1 == Settle(x, a, signed, cost, rate, mark)
             y1 == Settle(y, a, signed, cost, rate, mark)
  <2>2. /\ x1 \in Rows /\ Exchanged(x, x1, a, signed, cost, rate, mark) /\ x1 # x
        /\ y1 \in Rows /\ Exchanged(y, y1, a, signed, cost, rate, mark) /\ y1 # y
    BY <1>2, <2>1, SettleExchanges
  <2> HIDE DEF x1, y1
  <2>3. Same(x1, y1) /\ x1.work = x.work /\ y1.work = y.work
    BY <1>1, <2>2 DEF Same, Exchanged
  <2>4. QED
    BY <2>2, <2>3 DEF x1, y1
<1>3. CASE ~Passes(x, signed, cost, rate, mark)
  <2>1. ~Passes(y, signed, cost, rate, mark)
    BY <1>1, <1>3 DEF Passes, Same
  <2>2. QED
    BY <1>3, <2>1, SettleHolds
<1>4. QED
  BY <1>2, <1>3

-----------------------------------------------------------------------------
(* One asset *)

\* What a row gives the executor.
Given(in) ==
  /\ in.taker \in Int /\ in.maker \in Int /\ in.ladder \in Shown /\ in.order \in Amounts
  /\ in.limit \in [Assets -> Int \cup {NoLimit}] /\ in.cancel \in [Assets -> BOOLEAN]

LEMMA GivenTypes ==
  ASSUME NEW in, Given(in)
  PROVE  /\ in.taker \in Int /\ in.maker \in Int
         /\ \A a \in Assets, side \in Side : LegOf(in.ladder[a], side) \in Legs
         /\ Marks(in) \in Amounts /\ Asks(in) \in Amounts
         /\ \A a \in Assets : 0 < Marks(in)[a] /\ Marks(in)[a] <= Asks(in)[a]
<1>1. in.taker \in Int /\ in.maker \in Int
  BY DEF Given
<1>2. \A a \in Assets : /\ IsDepth(in.ladder[a]) /\ QuoteOf(in.ladder[a]) \in Quotes
                        /\ in.ladder[a] \in [bid : [1..Levels -> [px : Int, vol : Int]],
                                             ask : [1..Levels -> [px : Int, vol : Int]]]
  BY FrameAssumption DEF Given, Shown
<1>3. \A a \in Assets, side \in Side : LegOf(in.ladder[a], side) \in Legs
  <2> SUFFICES ASSUME NEW a \in Assets, NEW side \in Side
               PROVE  LegOf(in.ladder[a], side) \in Legs
    OBVIOUS
  <2> DEFINE leg == LegOf(in.ladder[a], side)
  <2>1. \A i \in 1..Levels : in.ladder[a].bid[i].vol >= 0 /\ in.ladder[a].ask[i].vol >= 0
    BY <1>2 DEF IsDepth
  <2>2. leg \in [1..Levels -> [px : Int, vol : Int]]
    BY <1>2 DEF LegOf
  <2>3. \A i \in 1..Levels : leg[i].vol >= 0
    BY <2>1 DEF LegOf
  <2> HIDE DEF leg
  <2>4. leg \in Legs
    BY <2>2, <2>3 DEF Legs
  <2>5. QED
    BY <2>4 DEF leg
<1>4. \A a \in Assets : LET q == QuoteOf(in.ladder[a])
                        IN  q.bid \in Int /\ q.ask \in Int /\ 0 < q.bid /\ q.bid <= q.ask
  BY <1>2, QuotesAssumption
<1>5. QED
  BY <1>1, <1>3, <1>4 DEF Marks, Asks, Amounts

\* What is taken of a leg of asset a, up to what is needed.
Takes(take, a, side, need, in) ==
  /\ Filled(take) \in Nat /\ Filled(take) <= need
  /\ Cost(take, LegOf(in.ladder[a], side)) \in Int

LEMMA WalkTakes ==
  ASSUME NEW in, Given(in), NEW a \in Assets, NEW side \in Side, NEW need \in Nat, NEW limit
  PROVE  Takes(Walk(LegOf(in.ladder[a], side), need, limit, side), a, side, need, in)
<1>1. LegOf(in.ladder[a], side) \in Legs
  BY GivenTypes
<1>2. QED
  BY <1>1, WalkBounds DEF Takes

\* A fill leaves the row's book as it is, or exchanges what is taken.
LEMMA FillCases ==
  ASSUME NEW in, Given(in), NEW x \in Rows, NEW a \in Assets, NEW side \in Side,
         NEW need, NEW take, Takes(take, a, side, need, in), NEW rate \in Int
  PROVE  LET signed == Sign(side) * Filled(take)
             cost == Cost(take, LegOf(in.ladder[a], side))
             y == Fill(x, a, side, take, rate, in)
         IN  /\ y \in Rows /\ signed \in Int /\ cost \in Int /\ Marks(in)[a] \in Int
             /\ y = x \/ (/\ y # x /\ Passes(x, signed, cost, rate, Marks(in)[a])
                          /\ Exchanged(x, y, a, signed, cost, rate, Marks(in)[a]))
<1> DEFINE signed == Sign(side) * Filled(take)
           cost == Cost(take, LegOf(in.ladder[a], side))
           mark == Marks(in)[a]
<1>1. signed \in Int /\ cost \in Int /\ mark \in Int
  BY GivenTypes DEF Amounts, Takes, Sign
<1>2. Fill(x, a, side, take, rate, in) = Settle(x, a, signed, cost, rate, mark)
  BY DEF Fill
<1> HIDE DEF signed, cost, mark
<1>3. CASE Passes(x, signed, cost, rate, mark)
  <2>1. /\ Settle(x, a, signed, cost, rate, mark) \in Rows
        /\ Exchanged(x, Settle(x, a, signed, cost, rate, mark), a, signed, cost, rate, mark)
        /\ Settle(x, a, signed, cost, rate, mark) # x
    BY <1>1, <1>3, SettleExchanges
  <2>2. QED
    BY <1>1, <1>2, <1>3, <2>1 DEF signed, cost, mark
<1>4. CASE ~Passes(x, signed, cost, rate, mark)
  <2>1. Settle(x, a, signed, cost, rate, mark) = x
    BY <1>1, <1>4, SettleHolds
  <2>2. QED
    BY <1>1, <1>2, <2>1 DEF signed, cost, mark
<1>5. QED
  BY <1>3, <1>4

LEMMA FillSame ==
  ASSUME NEW in, Given(in), NEW x \in Rows, NEW y \in Rows, Same(x, y),
         NEW a \in Assets, NEW side \in Side,
         NEW need, NEW take, Takes(take, a, side, need, in), NEW rate \in Int
  PROVE  LET x1 == Fill(x, a, side, take, rate, in)
             y1 == Fill(y, a, side, take, rate, in)
         IN  /\ x1 \in Rows /\ y1 \in Rows /\ Same(x1, y1)
             /\ x1.work = x.work /\ y1.work = y.work
             /\ x1 = x <=> y1 = y
<1> DEFINE signed == Sign(side) * Filled(take)
           cost == Cost(take, LegOf(in.ladder[a], side))
           mark == Marks(in)[a]
<1>1. signed \in Int /\ cost \in Int /\ mark \in Int
  BY GivenTypes DEF Amounts, Takes, Sign
<1>2. \A z : Fill(z, a, side, take, rate, in) = Settle(z, a, signed, cost, rate, mark)
  BY DEF Fill
<1> HIDE DEF signed, cost, mark
<1>3. LET x1 == Settle(x, a, signed, cost, rate, mark)
          y1 == Settle(y, a, signed, cost, rate, mark)
      IN  /\ x1 \in Rows /\ y1 \in Rows /\ Same(x1, y1)
          /\ x1.work = x.work /\ y1.work = y.work
          /\ x1 = x <=> y1 = y
  BY <1>1, SettleSame
<1>4. QED
  BY <1>2, <1>3

\* y is x after d of what rests on a side of asset a is filled.
WorkedBy(x, y, a, side, d) ==
  LET rest == x.work[side][a]
  IN  /\ d <= rest.qty
      /\ y.work = [x.work EXCEPT ![side][a] = [qty |-> rest.qty - d, px |-> rest.px]]
      /\ y.balance = [x.balance EXCEPT ![a] = @ + Sign(side) * d]
      /\ y.unfilled = x.unfilled /\ y.forced = x.forced
      /\ y.ask = x.ask /\ y.limit = x.limit /\ y.cancel = x.cancel

\* Matching a resting order, as both paths do it.
LEMMA SettleWorkingEffect ==
  ASSUME NEW in, Given(in), NEW x \in Rows, NEW a \in Assets, NEW side \in Side,
         NEW take, Takes(take, a, side, x.work[side][a].qty, in)
  PROVE  LET y == SettleWorking(x, a, side, take, in)
         IN  y \in Rows /\ \E d \in Nat : WorkedBy(x, y, a, side, d)
<1> DEFINE rest == x.work[side][a]
           signed == Sign(side) * Filled(take)
           cost == Cost(take, LegOf(in.ladder[a], side))
           y == Fill(x, a, side, take, in.maker, in)
           z == SettleWorking(x, a, side, take, in)
           Effect(d) == z \in Rows /\ WorkedBy(x, z, a, side, d)
<1>1. /\ x.work \in Works /\ rest \in Resting /\ x.balance \in Amounts
      /\ rest.qty \in Nat /\ rest.px \in Int /\ in.maker \in Int
      /\ Filled(take) \in Nat /\ Filled(take) <= rest.qty
  BY GivenTypes DEF Rows, Works, Resting, Takes
<1>2. y \in Rows /\ (y = x \/ Exchanged(x, y, a, signed, cost, in.maker, Marks(in)[a]))
  BY <1>1, FillCases
<1>3. z = IF y = x THEN x ELSE [y EXCEPT !.work[side][a].qty = @ - Filled(take)]
  BY DEF SettleWorking, Worked
<1> HIDE DEF z
<1>4. ASSUME y = x PROVE \E d \in Nat : Effect(d)
  <2>1. x.work = [x.work EXCEPT ![side][a] = [qty |-> rest.qty - 0, px |-> rest.px]]
    <3>1. rest = [qty |-> rest.qty - 0, px |-> rest.px]
      BY <1>1 DEF Resting
    <3>2. QED
      BY <1>1, <3>1 DEF Works
  <2>2. x.balance = [x.balance EXCEPT ![a] = @ + Sign(side) * 0]
    BY <1>1 DEF Amounts, Sign
  <2>3. z = x
    BY <1>3, <1>4
  <2>4. Effect(0)
    BY <1>1, <2>1, <2>2, <2>3 DEF WorkedBy
  <2> HIDE DEF Effect
  <2>5. QED
    BY <2>4
<1>5. ASSUME y # x PROVE \E d \in Nat : Effect(d)
  <2> DEFINE w == [x.work EXCEPT ![side][a] = [qty |-> rest.qty - Filled(take), px |-> rest.px]]
  <2>1. Exchanged(x, y, a, signed, cost, in.maker, Marks(in)[a])
    BY <1>2, <1>5
  <2>2. [y.work EXCEPT ![side][a].qty = @ - Filled(take)] = w
    <3>1. [rest EXCEPT !.qty = @ - Filled(take)] = [qty |-> rest.qty - Filled(take), px |-> rest.px]
      BY <1>1 DEF Resting
    <3>2. y.work = x.work
      BY <2>1 DEF Exchanged
    <3>3. QED
      BY <1>1, <3>1, <3>2 DEF Works
  <2>3. w \in Works
    <3>1. [qty |-> rest.qty - Filled(take), px |-> rest.px] \in Resting
      BY <1>1 DEF Resting
    <3>2. QED
      BY <1>1, <3>1 DEF Works
  <2>4. z = [y EXCEPT !.work = w]
    BY <1>3, <1>5, <2>2
  <2>5. /\ y.balance = [x.balance EXCEPT ![a] = @ + Sign(side) * Filled(take)]
        /\ y.unfilled = x.unfilled /\ y.forced = x.forced
        /\ y.ask = x.ask /\ y.limit = x.limit /\ y.cancel = x.cancel
    BY <2>1 DEF Exchanged
  <2> HIDE DEF y
  <2>6. /\ z \in Rows /\ z.work = w /\ z.balance = y.balance /\ z.unfilled = y.unfilled
        /\ z.forced = y.forced /\ z.ask = y.ask /\ z.limit = y.limit /\ z.cancel = y.cancel
    <3> HIDE DEF w
    <3>1. QED
      BY <1>2, <2>3, <2>4 DEF Rows
  <2>7. Effect(Filled(take))
    BY <1>1, <2>5, <2>6 DEF WorkedBy
  <2> HIDE DEF Effect
  <2>8. QED
    BY <1>1, <2>7
<1>6. \E d \in Nat : Effect(d)
  BY <1>4, <1>5
<1>7. QED
  BY <1>6 DEF z

LEMMA SettleWorkingSame ==
  ASSUME NEW in, Given(in), NEW x \in Rows, NEW y \in Rows, Same(x, y),
         NEW a \in Assets, NEW side \in Side, x.work[side][a] = y.work[side][a],
         NEW take, Takes(take, a, side, x.work[side][a].qty, in)
  PROVE  LET x1 == SettleWorking(x, a, side, take, in)
             y1 == SettleWorking(y, a, side, take, in)
         IN  Same(x1, y1) /\ x1.work[side][a] = y1.work[side][a]
<1> DEFINE x0 == Fill(x, a, side, take, in.maker, in)
           y0 == Fill(y, a, side, take, in.maker, in)
           x1 == SettleWorking(x, a, side, take, in)
           y1 == SettleWorking(y, a, side, take, in)
<1>1. in.maker \in Int /\ x.work \in Works /\ y.work \in Works
  BY GivenTypes DEF Rows
<1>2. /\ x0 \in Rows /\ y0 \in Rows /\ Same(x0, y0)
      /\ x0.work = x.work /\ y0.work = y.work /\ (x0 = x <=> y0 = y)
  BY <1>1, FillSame
<1>3. /\ x1 = IF x0 = x THEN x ELSE [x0 EXCEPT !.work[side][a].qty = @ - Filled(take)]
      /\ y1 = IF y0 = y THEN y ELSE [y0 EXCEPT !.work[side][a].qty = @ - Filled(take)]
  BY DEF SettleWorking, Worked
<1> DEFINE Goal == Same(x1, y1) /\ x1.work[side][a] = y1.work[side][a]
<1> HIDE DEF x0, y0, x1, y1
<1>4. ASSUME x0 = x PROVE Goal
  BY <1>2, <1>3, <1>4
<1>5. ASSUME x0 # x PROVE Goal
  <2>1. /\ x1 = [x0 EXCEPT !.work[side][a].qty = @ - Filled(take)]
        /\ y1 = [y0 EXCEPT !.work[side][a].qty = @ - Filled(take)]
    BY <1>2, <1>3, <1>5
  <2>2. Same(x1, y1)
    BY <1>2, <2>1 DEF Same, Rows
  <2>3. /\ x1.work[side][a] = [x0.work[side][a] EXCEPT !.qty = @ - Filled(take)]
        /\ y1.work[side][a] = [y0.work[side][a] EXCEPT !.qty = @ - Filled(take)]
    BY <1>1, <1>2, <2>1 DEF Rows, Works
  <2>4. QED
    BY <1>2, <2>2, <2>3
<1>6. Goal
  BY <1>4, <1>5
<1>7. QED
  BY <1>6 DEF x1, y1

\* What rests is matched by the row path as by the vector path.
RestTake(x, a, side, in) ==
  Walk(LegOf(in.ladder[a], side), x.work[side][a].qty, x.work[side][a].px, side)

LEMMA FillWorkingSettles ==
  ASSUME NEW in, Given(in), NEW x \in Rows, NEW a \in Assets, NEW side \in Side
  PROVE  /\ Takes(RestTake(x, a, side, in), a, side, x.work[side][a].qty, in)
         /\ FillWorking(x, a, side, in) = SettleWorking(x, a, side, RestTake(x, a, side, in), in)
<1> DEFINE take == RestTake(x, a, side, in)
           y == Fill(x, a, side, take, in.maker, in)
<1>1. x.work[side][a].qty \in Nat /\ in.maker \in Int
  BY GivenTypes DEF Rows, Works, Resting
<1>2. Takes(take, a, side, x.work[side][a].qty, in)
  BY <1>1, WalkTakes DEF RestTake
<1>3. CASE x.work[side][a].qty > 0
  <2>1. FillWorking(x, a, side, in) = Worked(x, y, a, side, Filled(take))
    BY <1>3 DEF FillWorking, RestTake
  <2>2. QED
    BY <1>2, <2>1 DEF SettleWorking
<1>4. CASE ~(x.work[side][a].qty > 0)
  <2>1. Filled(take) = 0
    <3> HIDE DEF take
    <3>1. QED
      BY <1>1, <1>2, <1>4 DEF Takes
  <2>2. Sign(side) * Filled(take) = 0
    BY <2>1 DEF Sign
  <2>3. y = x
    <3> HIDE DEF take
    <3>1. QED
      BY <1>1, <1>2, <2>2, FillCases DEF Passes
  <2>4. FillWorking(x, a, side, in) = x
    BY <1>4 DEF FillWorking
  <2>5. SettleWorking(x, a, side, take, in) = x
    BY <2>3 DEF SettleWorking, Worked
  <2>6. QED
    BY <1>2, <2>4, <2>5
<1>5. QED
  BY <1>3, <1>4

\* The row's order, for q of asset a.
Ordered(x, a, q, take, in) == Traded(x, Fill(x, a, SideOf(q), take, in.taker, in), a, q)

\* y is x after d of the row's order for q of asset a is filled.
OrderedBy(x, y, a, q, d) ==
  /\ d <= Absolute(q)
  /\ y.balance = [x.balance EXCEPT ![a] = @ + Sign(SideOf(q)) * d]
  /\ y.unfilled = [x.unfilled EXCEPT ![a] = q - Sign(SideOf(q)) * d]
  /\ y.work = x.work /\ y.forced = x.forced
  /\ y.ask = x.ask /\ y.limit = x.limit /\ y.cancel = x.cancel
  /\ d = 0 => y = [x EXCEPT !.unfilled[a] = q]

LEMMA OrderedEffect ==
  ASSUME NEW in, Given(in), NEW x \in Rows, NEW a \in Assets, NEW q \in Int,
         NEW take, Takes(take, a, SideOf(q), Absolute(q), in)
  PROVE  LET y == Ordered(x, a, q, take, in)
         IN  y \in Rows /\ \E d \in Nat : OrderedBy(x, y, a, q, d)
<1> DEFINE side == SideOf(q)
           y == Fill(x, a, side, take, in.taker, in)
           z == Ordered(x, a, q, take, in)
           left == q - (y.balance[a] - x.balance[a])
           Effect(d) == z \in Rows /\ OrderedBy(x, z, a, q, d)
<1>1. /\ side \in Side /\ Absolute(q) \in Nat /\ in.taker \in Int
      /\ Filled(take) \in Nat /\ Filled(take) <= Absolute(q) /\ Sign(side) \in {1, -1}
  BY GivenTypes DEF Side, SideOf, Absolute, Takes, Sign
<1> HIDE DEF side
<1>2. Takes(take, a, side, Absolute(q), in)
  BY DEF side
<1>3. /\ y \in Rows
      /\ \/ y = x
         \/ /\ Sign(side) * Filled(take) # 0
            /\ Exchanged(x, y, a, Sign(side) * Filled(take), Cost(take, LegOf(in.ladder[a], side)),
                         in.taker, Marks(in)[a])
  BY <1>1, <1>2, FillCases DEF Passes
<1>4. z = [y EXCEPT !.unfilled[a] = left]
  BY DEF Ordered, Traded, Left, side
<1> HIDE DEF y, z
<1>5. x.balance \in Amounts /\ y.balance \in Amounts /\ x.unfilled \in Amounts /\ y.unfilled \in Amounts
  BY <1>3 DEF Rows
<1>6. left \in Int
  BY <1>5 DEF Amounts
<1> HIDE DEF left
<1>7. /\ z \in Rows /\ z.unfilled = [y.unfilled EXCEPT ![a] = left]
      /\ z.balance = y.balance /\ z.work = y.work /\ z.forced = y.forced
      /\ z.ask = y.ask /\ z.limit = y.limit /\ z.cancel = y.cancel
  <2>1. [y.unfilled EXCEPT ![a] = left] \in Amounts
    BY <1>5, <1>6 DEF Amounts
  <2>2. z = [y EXCEPT !.unfilled = [y.unfilled EXCEPT ![a] = left]]
    BY <1>4
  <2>3. QED
    BY <1>3, <2>1, <2>2 DEF Rows
<1>8. ASSUME y = x PROVE Effect(0)
  <2>1. left = q
    BY <1>5, <1>8 DEF left, Amounts
  <2>2. z = [x EXCEPT !.unfilled[a] = q]
    BY <1>4, <1>8, <2>1
  <2>3. x.balance = [x.balance EXCEPT ![a] = @ + Sign(side) * 0]
    BY <1>1, <1>5 DEF Amounts
  <2>4. q - Sign(side) * 0 = q
    BY <1>1
  <2>5. QED
    BY <1>1, <1>7, <1>8, <2>1, <2>2, <2>3, <2>4 DEF OrderedBy, side
<1>9. ASSUME y # x PROVE Effect(Filled(take))
  <2> DEFINE signed == Sign(side) * Filled(take)
  <2>1. /\ y.balance = [x.balance EXCEPT ![a] = @ + signed] /\ y.unfilled = x.unfilled
        /\ y.work = x.work /\ y.forced = x.forced
        /\ y.ask = x.ask /\ y.limit = x.limit /\ y.cancel = x.cancel
    BY <1>3, <1>9 DEF Exchanged
  <2>2. signed \in Int
    BY <1>1
  <2>3. left = q - signed
    <3> HIDE DEF signed
    <3>1. QED
      BY <1>5, <2>1, <2>2 DEF left, Amounts
  <2>4. Filled(take) # 0
    BY <1>1, <1>3, <1>9
  <2>5. QED
    BY <1>1, <1>7, <2>1, <2>3, <2>4 DEF OrderedBy, side
<1> HIDE DEF Effect
<1>10. \E d \in Nat : Effect(d)
  <2>1. CASE y = x
    BY <1>8, <2>1
  <2>2. CASE y # x
    BY <1>1, <1>9, <2>2
  <2>3. QED
    BY <2>1, <2>2
<1>11. QED
  BY <1>10 DEF Effect, z

LEMMA OrderedSame ==
  ASSUME NEW in, Given(in), NEW x \in Rows, NEW y \in Rows, Same(x, y), NEW a \in Assets,
         NEW q \in Int, NEW take, Takes(take, a, SideOf(q), Absolute(q), in)
  PROVE  Same(Ordered(x, a, q, take, in), Ordered(y, a, q, take, in))
<1> DEFINE x0 == Fill(x, a, SideOf(q), take, in.taker, in)
           y0 == Fill(y, a, SideOf(q), take, in.taker, in)
<1>1. SideOf(q) \in Side /\ in.taker \in Int
  BY GivenTypes DEF Side, SideOf
<1>2. x0 \in Rows /\ y0 \in Rows /\ Same(x0, y0)
  BY <1>1, FillSame
<1>3. /\ Ordered(x, a, q, take, in) = [x0 EXCEPT !.unfilled[a] = q - (x0.balance[a] - x.balance[a])]
      /\ Ordered(y, a, q, take, in) = [y0 EXCEPT !.unfilled[a] = q - (y0.balance[a] - y.balance[a])]
  BY DEF Ordered, Traded, Left
<1> HIDE DEF x0, y0
<1>4. QED
  BY <1>2, <1>3 DEF Same, Rows

OrderTake(x, a, in) ==
  LET q == x.ask[a]
  IN  Walk(LegOf(in.ladder[a], SideOf(q)), Absolute(q), x.limit[a], SideOf(q))

RestedWork(w, a, q, left, limit) ==
  IF limit = NoLimit \/ left = 0 THEN w
  ELSE [w EXCEPT ![SideOf(q)][a] = [qty |-> Absolute(left), px |-> limit]]

LEMMA RestEffect ==
  ASSUME NEW x \in Rows, NEW a \in Assets, NEW q \in Int, NEW left \in Int,
         NEW limit \in Int \cup {NoLimit}
  PROVE  LET y == Rest(x, a, q, left, limit)
         IN  y \in Rows /\ Same(y, x) /\ y.work = RestedWork(x.work, a, q, left, limit)
<1> DEFINE w == [x.work EXCEPT ![SideOf(q)][a] = [qty |-> Absolute(left), px |-> limit]]
           y == Rest(x, a, q, left, limit)
<1>1. CASE limit = NoLimit \/ left = 0
  BY <1>1 DEF Rest, Same, RestedWork
<1>2. CASE ~(limit = NoLimit \/ left = 0)
  <2>1. Absolute(left) \in Nat /\ SideOf(q) \in Side /\ limit \in Int /\ x.work \in Works
    BY <1>2 DEF Absolute, SideOf, Side, Rows
  <2>2. [qty |-> Absolute(left), px |-> limit] \in Resting
    BY <2>1 DEF Resting
  <2>3. w \in Works
    BY <2>1, <2>2 DEF Works
  <2>4. y = [x EXCEPT !.work = w]
    BY <1>2 DEF Rest
  <2> HIDE DEF w, y
  <2>5. y \in Rows /\ Same(y, x) /\ y.work = w
    BY <2>3, <2>4 DEF Rows, Same
  <2>6. QED
    BY <1>2, <2>5 DEF w, y, RestedWork
<1>3. QED
  BY <1>1, <1>2

\* The row's order is matched by the row path as by the vector path, which rests
\* what is left of it only at the end.
LEMMA FillOrderRests ==
  ASSUME NEW in, Given(in), NEW x \in Rows, NEW a \in Assets, x.unfilled[a] = 0
  PROVE  LET y == Ordered(x, a, x.ask[a], OrderTake(x, a, in), in)
         IN  /\ Takes(OrderTake(x, a, in), a, SideOf(x.ask[a]), Absolute(x.ask[a]), in)
             /\ FillOrder(x, a, in) = Rest(y, a, x.ask[a], y.unfilled[a], x.limit[a])
<1> DEFINE q == x.ask[a]
           take == OrderTake(x, a, in)
           y == Ordered(x, a, q, take, in)
           y0 == Fill(x, a, SideOf(q), take, in.taker, in)
<1>1. q \in Int /\ SideOf(q) \in Side /\ Absolute(q) \in Nat /\ x.unfilled \in Amounts
  BY DEF Rows, Amounts, SideOf, Side, Absolute
<1>2. Takes(take, a, SideOf(q), Absolute(q), in)
  BY <1>1, WalkTakes DEF OrderTake
<1>3. PICK d \in Nat : y \in Rows /\ OrderedBy(x, y, a, q, d)
  <2> HIDE DEF q, take
  <2>1. QED
    BY <1>1, <1>2, OrderedEffect
<1>4. CASE q = 0
  <2>1. d = 0
    BY <1>3, <1>4 DEF Absolute, OrderedBy
  <2>2. y = x
    <3>1. y = [x EXCEPT !.unfilled[a] = 0]
      BY <1>3, <1>4, <2>1 DEF OrderedBy
    <3> HIDE DEF y
    <3>2. QED
      BY <3>1 DEF Rows, Amounts
  <2>3. FillOrder(x, a, in) = x
    BY <1>4 DEF FillOrder
  <2>4. Rest(y, a, q, y.unfilled[a], x.limit[a]) = x
    <3> HIDE DEF y
    <3>1. QED
      BY <2>2 DEF Rest
  <2>5. QED
    BY <1>2, <2>3, <2>4
<1>5. CASE q # 0
  <2>1. FillOrder(x, a, in) = Rest(y, a, q, Left(x, y0, a, q), x.limit[a])
    BY <1>5 DEF FillOrder, OrderTake, Ordered
  <2>2. y = [y0 EXCEPT !.unfilled[a] = Left(x, y0, a, q)]
    BY DEF Ordered, Traded
  <2>3. y0 \in Rows
    <3>1. in.taker \in Int
      BY GivenTypes
    <3> HIDE DEF q, take
    <3>2. QED
      BY <1>1, <1>2, <3>1, FillCases
  <2>4. y.unfilled[a] = Left(x, y0, a, q)
    <3> HIDE DEF y, y0
    <3>1. QED
      BY <2>2, <2>3 DEF Rows, Amounts
  <2>5. QED
    BY <1>2, <2>1, <2>4
<1>6. QED
  BY <1>4, <1>5

LEMMA CancelEffect ==
  ASSUME NEW x \in Rows, NEW a \in Assets
  PROVE  LET y == CancelWorking(x, a)
         IN  /\ y \in Rows /\ Same(y, x)
             /\ \A s \in Side, b \in Assets :
                  y.work[s][b] = IF b = a /\ x.cancel[a] THEN NoOrder ELSE x.work[s][b]
<1> DEFINE w == [x.work EXCEPT !["buy"][a] = NoOrder, !["sell"][a] = NoOrder]
           y == CancelWorking(x, a)
<1>1. x.work \in Works /\ NoOrder \in Resting
  BY DEF Rows, NoOrder, Resting
<1>2. w \in Works
  BY <1>1 DEF Works, Side
<1>3. \A s \in Side, b \in Assets : w[s][b] = IF b = a THEN NoOrder ELSE x.work[s][b]
  BY <1>1 DEF Works, Side
<1>4. CASE x.cancel[a]
  <2>1. y = [x EXCEPT !.work = w]
    BY <1>4 DEF CancelWorking
  <2> HIDE DEF w, y
  <2>2. y \in Rows /\ Same(y, x) /\ y.work = w
    BY <1>2, <2>1 DEF Rows, Same
  <2>3. QED
    BY <1>3, <1>4, <2>2 DEF y
<1>5. CASE ~x.cancel[a]
  BY <1>5 DEF CancelWorking, Same
<1>6. QED
  BY <1>4, <1>5

\* What a row leaves at rest of the order for q that it fills all but left of.
Rested(rest, s, left, limit) ==
  IF limit # NoLimit /\ Sign(s) * left > 0 THEN [qty |-> Absolute(left), px |-> limit] ELSE rest

LEMMA RestsLeft ==
  ASSUME NEW x \in Rows, NEW y \in Rows, NEW a \in Assets, NEW q \in Int, NEW d \in Nat,
         OrderedBy(x, y, a, q, d), NEW limit \in Int \cup {NoLimit}
  PROVE  LET z == Rest(y, a, q, y.unfilled[a], limit)
         IN  /\ z \in Rows /\ Same(z, y)
             /\ \A s \in Side, b \in Assets :
                  z.work[s][b] = IF b = a THEN Rested(x.work[s][a], s, z.unfilled[a], limit)
                                 ELSE x.work[s][b]
<1> DEFINE left == y.unfilled[a]
           z == Rest(y, a, q, left, limit)
<1>1. /\ left = q - Sign(SideOf(q)) * d /\ d <= Absolute(q) /\ y.work = x.work
      /\ x.work \in Works /\ left \in Int
  BY DEF OrderedBy, Rows, Amounts
<1>2. \A s \in Side : Sign(s) * left > 0 <=> s = SideOf(q) /\ left # 0
  <2> HIDE DEF left
  <2>1. QED
    BY <1>1 DEF Absolute, Sign, SideOf, Side
<1>3. z \in Rows /\ Same(z, y) /\ z.work = RestedWork(y.work, a, q, left, limit)
  <2> HIDE DEF left
  <2>1. QED
    BY <1>1, RestEffect
<1>4. z.unfilled[a] = left
  BY <1>3 DEF Same
<1> HIDE DEF z, left
<1>5. ASSUME NEW s \in Side, NEW b \in Assets
      PROVE  z.work[s][b] = IF b = a THEN Rested(x.work[s][a], s, z.unfilled[a], limit)
                            ELSE x.work[s][b]
  <2>1. CASE limit = NoLimit \/ left = 0
    <3>1. Rested(x.work[s][a], s, left, limit) = x.work[s][a]
      BY <1>2, <2>1 DEF Rested
    <3>2. QED
      BY <1>1, <1>3, <1>4, <2>1, <3>1 DEF RestedWork
  <2>2. CASE ~(limit = NoLimit \/ left = 0)
    <3>1. z.work = [x.work EXCEPT ![SideOf(q)][a] = [qty |-> Absolute(left), px |-> limit]]
      BY <1>1, <1>3, <2>2 DEF RestedWork
    <3>2. Rested(x.work[s][a], s, left, limit)
            = IF s = SideOf(q) THEN [qty |-> Absolute(left), px |-> limit] ELSE x.work[s][a]
      BY <1>2, <2>2 DEF Rested
    <3>3. QED
      BY <1>1, <1>4, <3>1, <3>2 DEF Works
  <2>3. QED
    BY <2>1, <2>2
<1>6. QED
  BY <1>3, <1>5 DEF z, left

\* The books a row path goes through for asset a: what it cancels, buys and sells
\* of what rests, and its order.
Bought(x, a, in) == FillWorking(CancelWorking(x, a), a, "buy", in)
Sold(x, a, in) == FillWorking(Bought(x, a, in), a, "sell", in)

\* What rests on side s after d of it is filled.
Reduced(rest, d) == [qty |-> rest.qty - d, px |-> rest.px]

\* y is x after asset a: bought and sold of what rested, d of the order for q.
Goes(x, y, a, bought, sold, d) ==
  LET q == x.ask[a]
      rest(s) == IF x.cancel[a] THEN NoOrder ELSE x.work[s][a]
      out(s) == IF s = "buy" THEN bought ELSE sold
  IN  /\ bought <= rest("buy").qty /\ sold <= rest("sell").qty /\ d <= Absolute(q)
      /\ y.balance = [x.balance EXCEPT ![a] = @ + bought - sold + Sign(SideOf(q)) * d]
      /\ y.unfilled = [x.unfilled EXCEPT ![a] = q - Sign(SideOf(q)) * d]
      /\ y.forced = x.forced /\ y.ask = x.ask /\ y.limit = x.limit /\ y.cancel = x.cancel
      /\ \A s \in Side, b \in Assets :
           y.work[s][b] = IF b = a THEN Rested(Reduced(rest(s), out(s)), s, y.unfilled[a], x.limit[a])
                          ELSE x.work[s][b]

LEMMA SoldEffect ==
  ASSUME NEW in, Given(in), NEW x \in Rows, NEW a \in Assets
  PROVE  LET c == CancelWorking(x, a)
             m == Bought(x, a, in)
             y == Sold(x, a, in)
         IN  /\ c \in Rows /\ m \in Rows /\ y \in Rows /\ Same(c, x)
             /\ m = SettleWorking(c, a, "buy", RestTake(c, a, "buy", in), in)
             /\ y = SettleWorking(m, a, "sell", RestTake(m, a, "sell", in), in)
             /\ Takes(RestTake(c, a, "buy", in), a, "buy", c.work["buy"][a].qty, in)
             /\ Takes(RestTake(m, a, "sell", in), a, "sell", m.work["sell"][a].qty, in)
             /\ \E bought \in Nat : WorkedBy(c, m, a, "buy", bought)
             /\ \E sold \in Nat : WorkedBy(m, y, a, "sell", sold)
<1> DEFINE c == CancelWorking(x, a)
           m == Bought(x, a, in)
           y == Sold(x, a, in)
<1>1. "buy" \in Side /\ "sell" \in Side
  BY DEF Side
<1>2. c \in Rows /\ Same(c, x)
  BY CancelEffect
<1>3. m = FillWorking(c, a, "buy", in) /\ y = FillWorking(m, a, "sell", in)
  BY DEF Bought, Sold
<1> HIDE DEF c, m, y
<1>4. /\ m = SettleWorking(c, a, "buy", RestTake(c, a, "buy", in), in)
      /\ Takes(RestTake(c, a, "buy", in), a, "buy", c.work["buy"][a].qty, in)
  BY <1>1, <1>2, <1>3, FillWorkingSettles
<1>5. m \in Rows /\ \E bought \in Nat : WorkedBy(c, m, a, "buy", bought)
  BY <1>1, <1>2, <1>4, SettleWorkingEffect
<1>6. /\ y = SettleWorking(m, a, "sell", RestTake(m, a, "sell", in), in)
      /\ Takes(RestTake(m, a, "sell", in), a, "sell", m.work["sell"][a].qty, in)
  BY <1>1, <1>3, <1>5, FillWorkingSettles
<1>7. y \in Rows /\ \E sold \in Nat : WorkedBy(m, y, a, "sell", sold)
  BY <1>1, <1>5, <1>6, SettleWorkingEffect
<1>8. QED
  BY <1>2, <1>4, <1>5, <1>6, <1>7 DEF c, m, y

LEMMA AssetEffect ==
  ASSUME NEW in, Given(in), NEW x \in Rows, NEW a \in Assets, x.unfilled[a] = 0
  PROVE  LET y == Asset(x, a, in)
         IN  y \in Rows /\ \E bought, sold, d \in Nat : Goes(x, y, a, bought, sold, d)
<1> DEFINE c == CancelWorking(x, a)
           m == Bought(x, a, in)
           z == Sold(x, a, in)
           q == x.ask[a]
           take == OrderTake(z, a, in)
           o == Ordered(z, a, q, take, in)
           y == Asset(x, a, in)
           limit == x.limit[a]
<1>1. c \in Rows /\ m \in Rows /\ z \in Rows /\ Same(c, x)
  BY SoldEffect
<1>2. PICK bought \in Nat : WorkedBy(c, m, a, "buy", bought)
  BY SoldEffect
<1>3. PICK sold \in Nat : WorkedBy(m, z, a, "sell", sold)
  BY SoldEffect
<1>4. \A s \in Side, b \in Assets :
        c.work[s][b] = IF b = a /\ x.cancel[a] THEN NoOrder ELSE x.work[s][b]
  BY CancelEffect
<1>5. y = FillOrder(z, a, in)
  BY DEF Asset, Sold, Bought
<1> HIDE DEF c, m, z, y
<1>6. /\ z.unfilled = x.unfilled /\ z.forced = x.forced /\ z.ask = x.ask /\ z.limit = x.limit
      /\ z.cancel = x.cancel
      /\ m.balance = [x.balance EXCEPT ![a] = @ + Sign("buy") * bought]
      /\ z.balance = [m.balance EXCEPT ![a] = @ + Sign("sell") * sold]
      /\ bought <= c.work["buy"][a].qty /\ sold <= m.work["sell"][a].qty
      /\ m.work = [c.work EXCEPT !["buy"][a] = Reduced(c.work["buy"][a], bought)]
      /\ z.work = [m.work EXCEPT !["sell"][a] = Reduced(m.work["sell"][a], sold)]
  BY <1>1, <1>2, <1>3 DEF Same, WorkedBy, Reduced
<1>7. q \in Int /\ limit \in Int \cup {NoLimit} /\ z.unfilled[a] = 0 /\ z.ask[a] = q /\ z.limit[a] = limit
  BY <1>6 DEF Rows, Amounts
<1> HIDE DEF take, q, limit
<1>8. /\ Takes(take, a, SideOf(q), Absolute(q), in)
      /\ y = Rest(o, a, q, o.unfilled[a], limit)
  BY <1>1, <1>5, <1>7, FillOrderRests DEF take
<1>9. o \in Rows /\ \E d \in Nat : OrderedBy(z, o, a, q, d)
  BY <1>1, <1>7, <1>8, OrderedEffect
<1> HIDE DEF o
<1>10. PICK d \in Nat : OrderedBy(z, o, a, q, d)
  BY <1>9
<1>11. /\ y \in Rows /\ Same(y, o)
       /\ \A s \in Side, b \in Assets :
            y.work[s][b] = IF b = a THEN Rested(z.work[s][a], s, y.unfilled[a], limit)
                           ELSE z.work[s][b]
  BY <1>1, <1>7, <1>8, <1>9, <1>10, RestsLeft
<1>12. /\ y.balance = [z.balance EXCEPT ![a] = @ + Sign(SideOf(q)) * d]
       /\ y.unfilled = [x.unfilled EXCEPT ![a] = q - Sign(SideOf(q)) * d]
       /\ y.forced = x.forced /\ y.ask = x.ask /\ y.limit = x.limit /\ y.cancel = x.cancel
       /\ d <= Absolute(q)
  BY <1>6, <1>10, <1>11 DEF OrderedBy, Same
<1>13. y.balance = [x.balance EXCEPT ![a] = @ + bought - sold + Sign(SideOf(q)) * d]
  <2>1. x.balance \in Amounts /\ Sign("buy") = 1 /\ Sign("sell") = -1 /\ Sign(SideOf(q)) * d \in Int
    BY DEF Rows, Sign
  <2>2. y.balance = [x.balance EXCEPT ![a] = ((@ + Sign("buy") * bought) + Sign("sell") * sold)
                                              + Sign(SideOf(q)) * d]
    BY <1>6, <1>12, <2>1 DEF Amounts
  <2>3. ((x.balance[a] + Sign("buy") * bought) + Sign("sell") * sold) + Sign(SideOf(q)) * d
          = x.balance[a] + bought - sold + Sign(SideOf(q)) * d
    BY <2>1 DEF Amounts
  <2>4. QED
    BY <2>2, <2>3
<1>14. \A s \in Side, b \in Assets :
         z.work[s][b] = IF b = a THEN Reduced(c.work[s][a], IF s = "buy" THEN bought ELSE sold)
                        ELSE x.work[s][b]
  <2>1. c.work \in Works
    BY <1>1 DEF Rows
  <2>2. \A s \in Side, b \in Assets :
          z.work[s][b] = IF b = a THEN Reduced(c.work[s][a], IF s = "buy" THEN bought ELSE sold)
                         ELSE c.work[s][b]
    BY <1>6, <2>1 DEF Works, Side
  <2>3. QED
    BY <1>4, <2>2
<1>15. /\ bought <= c.work["buy"][a].qty /\ sold <= c.work["sell"][a].qty
  BY <1>1, <1>6 DEF Rows, Works, Side
<1>16. Goes(x, y, a, bought, sold, d)
  <2>1. \A s \in Side : c.work[s][a] = IF x.cancel[a] THEN NoOrder ELSE x.work[s][a]
    BY <1>4
  <2>2. "buy" \in Side /\ "sell" \in Side
    BY DEF Side
  <2>3. \A s \in Side, b \in Assets :
         y.work[s][b] =
           IF b = a THEN Rested(Reduced(IF x.cancel[a] THEN NoOrder ELSE x.work[s][a],
                                        IF s = "buy" THEN bought ELSE sold), s, y.unfilled[a], limit)
           ELSE x.work[s][b]
    BY <1>11, <1>14, <2>1
  <2>4. QED
    BY <1>12, <1>13, <1>15, <2>1, <2>2, <2>3 DEF Goes, q, limit
<1>17. QED
  BY <1>11, <1>16 DEF y

-----------------------------------------------------------------------------
(* The two executors *)

\* n is the row path's book and w the vector path's, both before asset a.
Meets(n, w, a, kept, in) ==
  /\ n \in Rows /\ w \in Rows /\ Same(n, w)
  /\ n.ask = in.order /\ n.limit = in.limit /\ n.cancel = in.cancel /\ n.unfilled[a] = 0
  /\ kept \in Works
  /\ \A s \in Side : /\ kept[s][a] = IF in.cancel[a] THEN NoOrder ELSE n.work[s][a]
                     /\ w.work[s][a] = kept[s][a]

LEMMA AssetAgrees ==
  ASSUME NEW in, Given(in), NEW a \in Assets, NEW n, NEW w, NEW kept, Meets(n, w, a, kept, in)
  PROVE  LET n1 == Asset(n, a, in)
             w1 == SettleAsset(w, a, StageWorking(kept, in), StageOrders(in), in)
         IN  /\ w1 \in Rows /\ Same(n1, w1)
             /\ \A s \in Side, b \in Assets \ {a} : w1.work[s][b] = w.work[s][b]
             /\ \A s \in Side :
                  n1.work[s][a] = Rested(w1.work[s][a], s, n1.unfilled[a], in.limit[a])
<1> DEFINE c == CancelWorking(n, a)
           m == Bought(n, a, in)
           z == Sold(n, a, in)
           buys == RestTake(c, a, "buy", in)
           sells == RestTake(m, a, "sell", in)
           m1 == SettleWorking(w, a, "buy", buys, in)
           z1 == SettleWorking(m1, a, "sell", sells, in)
           q == in.order[a]
           take == OrderTake(z, a, in)
           o == Ordered(z, a, q, take, in)
           o1 == Ordered(z1, a, q, take, in)
           n1 == Asset(n, a, in)
           w1 == SettleAsset(w, a, StageWorking(kept, in), StageOrders(in), in)
<1>1. /\ n \in Rows /\ w \in Rows /\ Same(n, w) /\ "buy" \in Side /\ "sell" \in Side
      /\ n.ask = in.order /\ n.limit = in.limit /\ n.cancel = in.cancel /\ n.unfilled[a] = 0
      /\ q \in Int /\ in.limit[a] \in Int \cup {NoLimit}
  BY DEF Meets, Side, Given, Amounts
<1>2. /\ c \in Rows /\ m \in Rows /\ z \in Rows /\ Same(c, n)
      /\ m = SettleWorking(c, a, "buy", buys, in) /\ z = SettleWorking(m, a, "sell", sells, in)
      /\ Takes(buys, a, "buy", c.work["buy"][a].qty, in)
      /\ Takes(sells, a, "sell", m.work["sell"][a].qty, in)
      /\ \E bought \in Nat : WorkedBy(c, m, a, "buy", bought)
      /\ \E sold \in Nat : WorkedBy(m, z, a, "sell", sold)
  BY <1>1, SoldEffect
<1>3. \A s \in Side : c.work[s][a] = kept[s][a] /\ w.work[s][a] = kept[s][a]
  <2>1. \A s \in Side : c.work[s][a] = IF n.cancel[a] THEN NoOrder ELSE n.work[s][a]
    BY <1>1, CancelEffect
  <2>2. QED
    BY <2>1 DEF Meets
<1>4. n1 = FillOrder(z, a, in)
  BY DEF Asset, Sold, Bought
<1> HIDE DEF c, m, z, n1
<1>5. m.work["sell"][a] = kept["sell"][a]
  BY <1>1, <1>2, <1>3 DEF WorkedBy, Rows, Works
<1>6. buys = StageWorking(kept, in)["buy"][a] /\ sells = StageWorking(kept, in)["sell"][a]
  BY <1>1, <1>3, <1>5 DEF RestTake, StageWorking, StageTakes
<1>7. /\ z.ask = in.order /\ z.limit = in.limit /\ z.unfilled[a] = 0
  BY <1>1, <1>2 DEF WorkedBy, Same
<1>8. take = StageOrders(in)[SideOf(q)][a]
  <2>1. SideOf(q) \in Side /\ Most(Sign(SideOf(q)) * q, 0) = Absolute(q)
    BY <1>1 DEF SideOf, Side, Sign, Most, Absolute
  <2>2. StageOrders(in)[SideOf(q)][a]
          = Walk(LegOf(in.ladder[a], SideOf(q)), Most(Sign(SideOf(q)) * q, 0), in.limit[a], SideOf(q))
    BY <2>1 DEF StageOrders, StageTakes
  <2>3. take = Walk(LegOf(in.ladder[a], SideOf(q)), Absolute(q), in.limit[a], SideOf(q))
    BY <1>7 DEF OrderTake
  <2>4. QED
    BY <2>1, <2>2, <2>3
<1>9. w1 = o1
  BY <1>6, <1>8 DEF SettleAsset, SettleOrder, Ordered
<1> HIDE DEF buys, sells, m1, z1, q, take, o, o1, w1
<1>10. m1 \in Rows /\ \E bought \in Nat : WorkedBy(w, m1, a, "buy", bought)
  <2>1. c.work["buy"][a] = w.work["buy"][a]
    BY <1>1, <1>3
  <2>2. Takes(buys, a, "buy", w.work["buy"][a].qty, in)
    BY <1>2, <2>1
  <2>3. QED
    BY <1>1, <2>2, SettleWorkingEffect DEF m1
<1>11. Same(m, m1) /\ m.work["buy"][a] = m1.work["buy"][a]
  <2>1. Same(c, w)
    BY <1>1, <1>2 DEF Same
  <2>2. c.work["buy"][a] = w.work["buy"][a]
    BY <1>1, <1>3
  <2>3. QED
    BY <1>1, <1>2, <2>1, <2>2, SettleWorkingSame DEF m1
<1>12. \A s \in Side, b \in Assets : (b # a \/ s # "buy") => m1.work[s][b] = w.work[s][b]
  BY <1>1, <1>10 DEF WorkedBy, Rows, Works
<1>13. m1.work["sell"][a] = m.work["sell"][a]
  BY <1>1, <1>3, <1>5, <1>12
<1>14. z1 \in Rows /\ \E sold \in Nat : WorkedBy(m1, z1, a, "sell", sold)
  <2>1. Takes(sells, a, "sell", m1.work["sell"][a].qty, in)
    BY <1>2, <1>13
  <2>2. QED
    BY <1>1, <1>10, <2>1, SettleWorkingEffect DEF z1
<1>15. Same(z, z1) /\ z.work["sell"][a] = z1.work["sell"][a]
  BY <1>1, <1>2, <1>10, <1>11, <1>13, SettleWorkingSame DEF z1
<1>16. \A s \in Side, b \in Assets : (b # a \/ s # "sell") => z1.work[s][b] = m1.work[s][b]
  BY <1>1, <1>10, <1>14 DEF WorkedBy, Rows, Works
<1>17. z.work["buy"][a] = m.work["buy"][a]
  BY <1>1, <1>2 DEF WorkedBy, Rows, Works
<1>18. \A s \in Side : z.work[s][a] = z1.work[s][a]
  BY <1>1, <1>11, <1>15, <1>16, <1>17 DEF Side
<1>19. /\ Takes(take, a, SideOf(q), Absolute(q), in) /\ z.ask[a] = q
       /\ n1 = Rest(o, a, q, o.unfilled[a], in.limit[a])
  BY <1>2, <1>4, <1>7, FillOrderRests DEF q, take, o
<1>20. /\ o \in Rows /\ (\E d \in Nat : OrderedBy(z, o, a, q, d))
       /\ o1 \in Rows /\ (\E d \in Nat : OrderedBy(z1, o1, a, q, d))
  BY <1>1, <1>2, <1>14, <1>19, OrderedEffect DEF o, o1, q
<1>21. Same(o, o1)
  BY <1>1, <1>2, <1>14, <1>15, <1>19, OrderedSame DEF o, o1
<1>22. o1.work = z1.work
  BY <1>20 DEF OrderedBy
<1>23. PICK d \in Nat : OrderedBy(z, o, a, q, d)
  BY <1>20
<1>24. /\ n1 \in Rows /\ Same(n1, o)
       /\ \A s \in Side, b \in Assets :
            n1.work[s][b] = IF b = a THEN Rested(z.work[s][a], s, n1.unfilled[a], in.limit[a])
                            ELSE z.work[s][b]
  <2> DEFINE limit == in.limit[a]
  <2>1. /\ z \in Rows /\ o \in Rows /\ q \in Int /\ limit \in Int \cup {NoLimit}
        /\ n1 = Rest(o, a, q, o.unfilled[a], limit)
    BY <1>1, <1>2, <1>19, <1>20
  <2> HIDE DEF limit
  <2>2. /\ n1 \in Rows /\ Same(n1, o)
        /\ \A s \in Side, b \in Assets :
             n1.work[s][b] = IF b = a THEN Rested(z.work[s][a], s, n1.unfilled[a], limit)
                             ELSE z.work[s][b]
    BY <1>23, <2>1, RestsLeft
  <2>3. QED
    BY <2>2 DEF limit
<1>25. Same(n1, w1)
  BY <1>9, <1>21, <1>24 DEF Same
<1>26. \A s \in Side, b \in Assets \ {a} : w1.work[s][b] = w.work[s][b]
  BY <1>9, <1>12, <1>16, <1>22
<1>27. \A s \in Side : n1.work[s][a] = Rested(w1.work[s][a], s, n1.unfilled[a], in.limit[a])
  BY <1>9, <1>18, <1>22, <1>24
<1>28. QED
  BY <1>9, <1>20, <1>25, <1>26, <1>27 DEF n1, w1

-----------------------------------------------------------------------------
(* Asset by asset *)

NarrowRuns(f, n, b, in) ==
  f = [a \in 0..n |-> IF a = 0 THEN Begin(b, in) ELSE Asset(f[a - 1], a, in)]
NarrowBooks(b, in) == CHOOSE f : NarrowRuns(f, Width, b, in)

LEMMA NarrowRunsExist ==
  ASSUME NEW n \in Nat, NEW b, NEW in
  PROVE  \E f : NarrowRuns(f, n, b, in)
<1> DEFINE S == {m \in Nat : \E f : NarrowRuns(f, m, b, in)}
           first == Begin(b, in)
           Next1(x, a) == Asset(x, a, in)
<1>1. \A f, m : NarrowRuns(f, m, b, in) <=>
                f = [a \in 0..m |-> IF a = 0 THEN first ELSE Next1(f[a - 1], a)]
  BY DEF NarrowRuns
<1> HIDE DEF first, Next1
<1>2. 0 \in S
  <2> DEFINE f == [a \in 0..0 |-> first]
  <2>1. f = [a \in 0..0 |-> IF a = 0 THEN first ELSE Next1(f[a - 1], a)]
    OBVIOUS
  <2> HIDE DEF f
  <2>2. NarrowRuns(f, 0, b, in)
    BY <1>1, <2>1
  <2>3. QED
    BY <2>2
<1>3. ASSUME NEW m \in Nat, m \in S PROVE m + 1 \in S
  <2>1. PICK f : f = [a \in 0..m |-> IF a = 0 THEN first ELSE Next1(f[a - 1], a)]
    BY <1>1, <1>3
  <2> DEFINE g == [a \in 0..(m + 1) |-> IF a = m + 1 THEN Next1(f[m], m + 1) ELSE f[a]]
  <2>2. ASSUME NEW a \in 0..(m + 1)
        PROVE  g[a] = IF a = 0 THEN first ELSE Next1(g[a - 1], a)
    <3>1. CASE a = m + 1
      BY <3>1
    <3>2. CASE a # m + 1
      <4>1. a \in 0..m /\ g[a] = f[a] /\ (a # 0 => a - 1 \in 0..m /\ g[a - 1] = f[a - 1])
        BY <3>2
      <4> HIDE DEF g
      <4>2. QED
        BY <2>1, <4>1
    <3>3. QED
      BY <3>1, <3>2
  <2>3. g = [a \in 0..(m + 1) |-> IF a = 0 THEN first ELSE Next1(g[a - 1], a)]
    <3>1. DOMAIN g = 0..(m + 1)
      OBVIOUS
    <3>2. g = [a \in 0..(m + 1) |-> g[a]]
      OBVIOUS
    <3> HIDE DEF g
    <3>3. QED
      BY <2>2, <3>2
  <2>4. NarrowRuns(g, m + 1, b, in)
    <3> HIDE DEF g
    <3>1. QED
      BY <1>1, <2>3
  <2> HIDE DEF g
  <2>5. QED
    BY <2>4
<1>4. Nat \subseteq S
  <2> HIDE DEF S
  <2>1. QED
    BY <1>2, <1>3, SetInduction
<1>5. QED
  BY <1>4

LEMMA NarrowSteps ==
  ASSUME NEW b, NEW in
  PROVE  LET f == NarrowBooks(b, in)
         IN  /\ f[0] = Begin(b, in)
             /\ \A a \in Assets : f[a] = Asset(f[a - 1], a, in)
             /\ Narrow(b, in) = f[Width]
<1> DEFINE f == NarrowBooks(b, in)
<1>1. Width \in Nat
  BY WidthAssumption
<1>2. NarrowRuns(f, Width, b, in)
  BY <1>1, NarrowRunsExist DEF NarrowBooks
<1>3. Narrow(b, in) = f[Width]
  BY DEF Narrow, NarrowBooks, NarrowRuns
<1> HIDE DEF f
<1>4. f = [a \in 0..Width |-> IF a = 0 THEN Begin(b, in) ELSE Asset(f[a - 1], a, in)]
  BY <1>2 DEF NarrowRuns
<1>5. \A a \in 0..Width : f[a] = IF a = 0 THEN Begin(b, in) ELSE Asset(f[a - 1], a, in)
  BY <1>4, Zenon
<1>6. 0 \in 0..Width /\ \A a \in Assets : a \in 0..Width /\ a # 0
  BY <1>1 DEF Assets
<1>7. f[0] = Begin(b, in) /\ \A a \in Assets : f[a] = Asset(f[a - 1], a, in)
  BY <1>5, <1>6
<1>8. QED
  BY <1>3, <1>7 DEF f

\* What an account holds between rows.
Accounts == [cash : Int, fees : Int, balance : Amounts, work : Works]

LEMMA TotalType ==
  ASSUME NEW c \in Int, NEW amount \in Amounts
  PROVE  Total(c, amount) \in Int
<1>1. Width \in Nat /\ Width \in 0..Width /\ \A i \in 1..Width : amount[i] \in Int
  BY WidthAssumption DEF Amounts, Assets
<1>2. Total(c, amount) = Partial(Width, c, amount)[Width]
  BY DEF Total, Partial, Runs
<1>3. QED
  BY <1>1, <1>2, PartialType

LEMMA ValueType ==
  ASSUME NEW b \in Amounts, NEW price \in Amounts
  PROVE  Value(b, price) \in Amounts
<1>1. \A a \in Assets : b[a] \in Int /\ price[a] \in Int /\ Unit \in Int
  BY MoneyAssumption DEF Amounts
<1>2. \A a \in Assets : b[a] * price[a] * Unit \in Int
  BY <1>1, Products
<1>3. QED
  BY <1>2 DEF Value, Amounts

LEMMA BeginType ==
  ASSUME NEW in, Given(in), NEW b \in Accounts
  PROVE  LET x == Begin(b, in)
         IN  /\ x \in Rows /\ \A a \in Assets : x.unfilled[a] = 0
             /\ x.equity = Total(x.cash, Value(x.balance, Marks(in)))
             /\ x.forced \/ x.equity > 0
             /\ x.balance = b.balance
             /\ ~x.forced => /\ x.work = b.work /\ x.ask = in.order
                             /\ x.limit = in.limit /\ x.cancel = in.cancel
<1> DEFINE equity == Total(b.cash, Value(b.balance, Marks(in)))
           x == Begin(b, in)
<1>1. b.cash \in Int /\ b.fees \in Int /\ b.balance \in Amounts /\ b.work \in Works
  BY DEF Accounts
<1>2. equity \in Int
  BY <1>1, GivenTypes, ValueType, TotalType
<1>3. NoWork \in Works /\ None \in [Assets -> Int \cup {NoLimit}] /\ Keep \in [Assets -> BOOLEAN]
  BY DEF NoWork, NoOrder, Works, Resting, None, Keep
<1>4. Nothing \in Amounts /\ [a \in Assets |-> -b.balance[a]] \in Amounts
  BY <1>1 DEF Nothing, Amounts
<1>5. /\ in.order \in Amounts /\ in.limit \in [Assets -> Int \cup {NoLimit}]
      /\ in.cancel \in [Assets -> BOOLEAN]
  BY DEF Given
<1> HIDE DEF equity
<1>6. x = [cash |-> b.cash, fees |-> b.fees, balance |-> b.balance,
           work |-> IF Ruined(equity) THEN NoWork ELSE b.work,
           equity |-> equity, forced |-> Ruined(equity), order |-> Nothing, unfilled |-> Nothing,
           cost |-> Nothing, volume |-> Nothing,
           ask |-> IF Ruined(equity) THEN [a \in Assets |-> -b.balance[a]] ELSE in.order,
           limit |-> IF Ruined(equity) THEN None ELSE in.limit,
           cancel |-> IF Ruined(equity) THEN Keep ELSE in.cancel]
  BY DEF Begin, equity
<1> HIDE DEF x
<1>7. Ruined(equity) \in BOOLEAN /\ (Ruined(equity) <=> ~(equity > 0))
  BY <1>2 DEF Ruined
<1>8. x \in Rows
  BY <1>1, <1>2, <1>3, <1>4, <1>5, <1>6, <1>7 DEF Rows
<1>9. x.unfilled = Nothing /\ x.equity = equity /\ x.cash = b.cash /\ x.balance = b.balance
  BY <1>6
<1>10. x.forced = Ruined(equity)
  BY <1>6
<1>11. ~x.forced => /\ x.work = b.work /\ x.ask = in.order
                    /\ x.limit = in.limit /\ x.cancel = in.cancel
  BY <1>6, <1>10
<1>12. QED
  BY <1>7, <1>8, <1>9, <1>10, <1>11 DEF Nothing, equity, x

\* What y holds of asset c when x began the row: bought and sold of what rested,
\* d of the order filled, and the rest of it at rest.
Ends1(x, y, c, bought, sold, d) ==
  LET q == x.ask[c]
      rest(s) == IF x.cancel[c] THEN NoOrder ELSE x.work[s][c]
      out(s) == IF s = "buy" THEN bought ELSE sold
  IN  /\ bought <= rest("buy").qty /\ sold <= rest("sell").qty /\ d <= Absolute(q)
      /\ y.balance[c] = x.balance[c] + bought - sold + Sign(SideOf(q)) * d
      /\ y.unfilled[c] = q - Sign(SideOf(q)) * d
      /\ \A s \in Side :
           y.work[s][c] = Rested(Reduced(rest(s), out(s)), s, y.unfilled[c], x.limit[c])

Executes(x, y, c) == \E bought, sold, d \in Nat : Ends1(x, y, c, bought, sold, d)

Untouched(x, y, c) ==
  /\ y.balance[c] = x.balance[c] /\ y.unfilled[c] = x.unfilled[c]
  /\ \A s \in Side : y.work[s][c] = x.work[s][c]

\* y is x with the first a assets executed.
Reaches(x, y, a) ==
  /\ y \in Rows /\ y.forced = x.forced
  /\ y.ask = x.ask /\ y.limit = x.limit /\ y.cancel = x.cancel
  /\ \A c \in Assets : /\ c > a => Untouched(x, y, c)
                       /\ c <= a => Executes(x, y, c)

LEMMA ReachesNext ==
  ASSUME NEW in, Given(in), NEW x \in Rows, \A a \in Assets : x.unfilled[a] = 0,
         NEW a \in Assets, NEW y, Reaches(x, y, a - 1)
  PROVE  Reaches(x, Asset(y, a, in), a)
<1> DEFINE z == Asset(y, a, in)
<1>1. y \in Rows /\ y.unfilled[a] = 0 /\ Untouched(x, y, a) /\ a \in Int
  BY DEF Reaches, Untouched, Assets
<1>2. z \in Rows /\ \E bought, sold, d \in Nat : Goes(y, z, a, bought, sold, d)
  BY <1>1, AssetEffect
<1>3. PICK bought \in Nat, sold \in Nat, d \in Nat : Goes(y, z, a, bought, sold, d)
  BY <1>2
<1> HIDE DEF z
<1>4. /\ y.forced = x.forced /\ y.ask = x.ask /\ y.limit = x.limit /\ y.cancel = x.cancel
      /\ z.forced = x.forced /\ z.ask = x.ask /\ z.limit = x.limit /\ z.cancel = x.cancel
  BY <1>3 DEF Reaches, Goes
<1>5. \A c \in Assets \ {a} : /\ z.balance[c] = y.balance[c] /\ z.unfilled[c] = y.unfilled[c]
                              /\ \A s \in Side : z.work[s][c] = y.work[s][c]
  <2>1. y.balance \in Amounts /\ y.unfilled \in Amounts
    BY <1>1 DEF Rows
  <2>2. QED
    BY <1>3, <2>1 DEF Goes, Amounts
<1>6. Ends1(x, z, a, bought, sold, d)
  <2>1. /\ y.balance \in Amounts /\ y.unfilled \in Amounts /\ y.balance[a] = x.balance[a]
        /\ \A s \in Side : y.work[s][a] = x.work[s][a]
    BY <1>1 DEF Rows, Untouched
  <2>2. /\ z.balance[a] = x.balance[a] + bought - sold + Sign(SideOf(x.ask[a])) * d
        /\ z.unfilled[a] = x.ask[a] - Sign(SideOf(x.ask[a])) * d
    BY <1>3, <1>4, <2>1 DEF Goes, Amounts
  <2>3. "buy" \in Side /\ "sell" \in Side
    BY DEF Side
  <2> DEFINE rest(s) == IF x.cancel[a] THEN NoOrder ELSE x.work[s][a]
             out(s) == IF s = "buy" THEN bought ELSE sold
  <2>4. /\ \A s \in Side : rest(s) = IF y.cancel[a] THEN NoOrder ELSE y.work[s][a]
        /\ y.ask[a] = x.ask[a] /\ y.limit[a] = x.limit[a]
    BY <1>4, <2>1
  <2>5. bought <= rest("buy").qty /\ sold <= rest("sell").qty /\ d <= Absolute(x.ask[a])
    <3>1. /\ bought <= (IF y.cancel[a] THEN NoOrder ELSE y.work["buy"][a]).qty
          /\ sold <= (IF y.cancel[a] THEN NoOrder ELSE y.work["sell"][a]).qty
          /\ d <= Absolute(y.ask[a])
      BY <1>3 DEF Goes
    <3>2. /\ rest("buy") = IF y.cancel[a] THEN NoOrder ELSE y.work["buy"][a]
          /\ rest("sell") = IF y.cancel[a] THEN NoOrder ELSE y.work["sell"][a]
      BY <2>3, <2>4
    <3> HIDE DEF rest
    <3>3. QED
      BY <2>4, <3>1, <3>2
  <2>6. \A s \in Side :
          z.work[s][a] = Rested(Reduced(rest(s), out(s)), s, z.unfilled[a], x.limit[a])
    BY <1>3, <2>4 DEF Goes
  <2>7. Ends1(x, z, a, bought, sold, d)
    BY <2>2, <2>5, <2>6, Zenon DEF Ends1
  <2>8. QED
    BY <2>7
<1>7. Executes(x, z, a)
  BY <1>6 DEF Executes
<1>8. \A c \in Assets : c \in Int
  BY WidthAssumption DEF Assets
<1>9. ASSUME NEW c \in Assets, c > a PROVE Untouched(x, z, c)
  <2>1. Untouched(x, y, c) /\ c # a
    <3>1. c \in Int /\ a \in Int
      BY <1>1, <1>8
    <3>2. c > a - 1 /\ c # a
      BY <1>9, <3>1
    <3>3. QED
      BY <3>2 DEF Reaches
  <2>2. /\ z.balance[c] = y.balance[c] /\ z.unfilled[c] = y.unfilled[c]
        /\ \A s \in Side : z.work[s][c] = y.work[s][c]
    BY <1>5, <2>1
  <2>3. QED
    BY <2>1, <2>2 DEF Untouched
<1>10. ASSUME NEW c \in Assets, c < a PROVE Executes(x, z, c)
  <2>1. c # a /\ Executes(x, y, c)
    BY <1>1, <1>8, <1>10 DEF Reaches
  <2>2. PICK bo \in Nat, so \in Nat, e \in Nat : Ends1(x, y, c, bo, so, e)
    BY <2>1 DEF Executes
  <2>3. Ends1(x, z, c, bo, so, e)
    BY <1>5, <2>1, <2>2 DEF Ends1
  <2>4. QED
    BY <2>3 DEF Executes
<1>11. \A c \in Assets : (c > a => Untouched(x, z, c)) /\ (c <= a => Executes(x, z, c))
  <2> SUFFICES ASSUME NEW c \in Assets
               PROVE  (c > a => Untouched(x, z, c)) /\ (c <= a => Executes(x, z, c))
    OBVIOUS
  <2>1. c \in Int /\ a \in Int
    BY <1>1, <1>8
  <2>2. c > a \/ c < a \/ c = a
    BY <2>1
  <2>3. QED
    BY <1>7, <1>9, <1>10, <2>1, <2>2
<1>12. QED
  BY <1>2, <1>4, <1>11 DEF Reaches, z

LEMMA NarrowReaches ==
  ASSUME NEW in, Given(in), NEW b \in Accounts
  PROVE  \A a \in 0..Width : Reaches(Begin(b, in), NarrowBooks(b, in)[a], a)
<1> DEFINE f == NarrowBooks(b, in)
           x == Begin(b, in)
           S == {a \in 0..Width : Reaches(x, f[a], a)}
<1>1. x \in Rows /\ \A a \in Assets : x.unfilled[a] = 0
  BY BeginType
<1>2. f[0] = x /\ \A a \in Assets : f[a] = Asset(f[a - 1], a, in)
  BY NarrowSteps
<1>3. Width \in Nat /\ \A c \in Assets : c \in Int /\ c > 0
  BY WidthAssumption DEF Assets
<1> HIDE DEF f, x
<1>4. 0 \in S
  BY <1>1, <1>2, <1>3 DEF Reaches, Untouched
<1>5. ASSUME NEW a \in 1..Width, a - 1 \in S PROVE a \in S
  <2>1. a \in Assets /\ Reaches(x, f[a - 1], a - 1)
    BY <1>5 DEF Assets
  <2>2. Reaches(x, f[a], a)
    BY <1>1, <1>2, <2>1, ReachesNext
  <2>3. QED
    BY <2>2
<1>6. 0..Width \subseteq S
  <2> HIDE DEF S
  <2>1. QED
    BY <1>3, <1>4, <1>5, IntervalInduction
<1>7. QED
  BY <1>6 DEF f, x

-----------------------------------------------------------------------------
(* By stages *)

WideRuns(f, n, start, working, taken, in) ==
  f = [a \in 0..n |-> IF a = 0 THEN start ELSE SettleAsset(f[a - 1], a, working, taken, in)]
WideBooks(start, working, taken, in) ==
  CHOOSE f : WideRuns(f, Width, start, working, taken, in)

LEMMA WideRunsExist ==
  ASSUME NEW n \in Nat, NEW start, NEW working, NEW taken, NEW in
  PROVE  \E f : WideRuns(f, n, start, working, taken, in)
<1> DEFINE S == {m \in Nat : \E f : WideRuns(f, m, start, working, taken, in)}
           first == start
           Next1(x, a) == SettleAsset(x, a, working, taken, in)
<1>1. \A f, m : WideRuns(f, m, start, working, taken, in) <=>
                f = [a \in 0..m |-> IF a = 0 THEN first ELSE Next1(f[a - 1], a)]
  BY DEF WideRuns
<1> HIDE DEF first, Next1
<1>2. 0 \in S
  <2> DEFINE f == [a \in 0..0 |-> first]
  <2>1. f = [a \in 0..0 |-> IF a = 0 THEN first ELSE Next1(f[a - 1], a)]
    OBVIOUS
  <2> HIDE DEF f
  <2>2. WideRuns(f, 0, start, working, taken, in)
    BY <1>1, <2>1
  <2>3. QED
    BY <2>2
<1>3. ASSUME NEW m \in Nat, m \in S PROVE m + 1 \in S
  <2>1. PICK f : f = [a \in 0..m |-> IF a = 0 THEN first ELSE Next1(f[a - 1], a)]
    BY <1>1, <1>3
  <2> DEFINE g == [a \in 0..(m + 1) |-> IF a = m + 1 THEN Next1(f[m], m + 1) ELSE f[a]]
  <2>2. ASSUME NEW a \in 0..(m + 1)
        PROVE  g[a] = IF a = 0 THEN first ELSE Next1(g[a - 1], a)
    <3>1. CASE a = m + 1
      BY <3>1
    <3>2. CASE a # m + 1
      <4>1. a \in 0..m /\ g[a] = f[a] /\ (a # 0 => a - 1 \in 0..m /\ g[a - 1] = f[a - 1])
        BY <3>2
      <4> HIDE DEF g
      <4>2. QED
        BY <2>1, <4>1
    <3>3. QED
      BY <3>1, <3>2
  <2>3. g = [a \in 0..(m + 1) |-> IF a = 0 THEN first ELSE Next1(g[a - 1], a)]
    <3>1. DOMAIN g = 0..(m + 1)
      OBVIOUS
    <3>2. g = [a \in 0..(m + 1) |-> g[a]]
      OBVIOUS
    <3> HIDE DEF g
    <3>3. QED
      BY <2>2, <3>2
  <2>4. WideRuns(g, m + 1, start, working, taken, in)
    <3> HIDE DEF g
    <3>1. QED
      BY <1>1, <2>3
  <2> HIDE DEF g
  <2>5. QED
    BY <2>4
<1>4. Nat \subseteq S
  <2> HIDE DEF S
  <2>1. QED
    BY <1>2, <1>3, SetInduction
<1>5. QED
  BY <1>4

LEMMA WideSteps ==
  ASSUME NEW start, NEW working, NEW taken, NEW in
  PROVE  LET f == WideBooks(start, working, taken, in)
         IN  /\ f[0] = start
             /\ \A a \in Assets : f[a] = SettleAsset(f[a - 1], a, working, taken, in)
             /\ SettleAll(start, working, taken, in) = f[Width]
<1> DEFINE f == WideBooks(start, working, taken, in)
<1>1. Width \in Nat
  BY WidthAssumption
<1>2. WideRuns(f, Width, start, working, taken, in)
  BY <1>1, WideRunsExist DEF WideBooks
<1>3. SettleAll(start, working, taken, in) = f[Width]
  BY DEF SettleAll, WideBooks, WideRuns
<1> HIDE DEF f
<1>4. f = [a \in 0..Width |-> IF a = 0 THEN start ELSE SettleAsset(f[a - 1], a, working, taken, in)]
  BY <1>2 DEF WideRuns
<1>5. \A a \in 0..Width : f[a] = IF a = 0 THEN start ELSE SettleAsset(f[a - 1], a, working, taken, in)
  BY <1>4, Zenon
<1>6. 0 \in 0..Width /\ \A a \in Assets : a \in 0..Width /\ a # 0
  BY <1>1 DEF Assets
<1>7. f[0] = start /\ \A a \in Assets : f[a] = SettleAsset(f[a - 1], a, working, taken, in)
  BY <1>5, <1>6
<1>8. QED
  BY <1>3, <1>7 DEF f

\* Other assets are not touched.
LEMMA AssetLeaves ==
  ASSUME NEW in, Given(in), NEW x \in Rows, NEW a \in Assets, x.unfilled[a] = 0
  PROVE  LET y == Asset(x, a, in)
         IN  \A c \in Assets \ {a} :
               y.unfilled[c] = x.unfilled[c] /\ \A s \in Side : y.work[s][c] = x.work[s][c]
<1> DEFINE y == Asset(x, a, in)
<1>1. \E bought, sold, d \in Nat : Goes(x, y, a, bought, sold, d)
  BY AssetEffect
<1>2. PICK bought \in Nat, sold \in Nat, d \in Nat : Goes(x, y, a, bought, sold, d)
  BY <1>1
<1> HIDE DEF y
<1>3. x.unfilled \in Amounts
  BY DEF Rows
<1>4. \A c \in Assets \ {a} :
        y.unfilled[c] = x.unfilled[c] /\ \A s \in Side : y.work[s][c] = x.work[s][c]
  BY <1>2, <1>3 DEF Goes, Amounts
<1>5. QED
  BY <1>4 DEF y

\* After a assets the vector path's book is the row path's, but for what the row's
\* orders leave, which the vector path rests at the end.
Together(n, w, a, kept, in) ==
  /\ w \in Rows /\ Same(n, w)
  /\ \A s \in Side, c \in Assets :
       /\ c > a => w.work[s][c] = kept[s][c]
       /\ c <= a => n.work[s][c] = Rested(w.work[s][c], s, n.unfilled[c], in.limit[c])

LEMMA TogetherNext ==
  ASSUME NEW in, Given(in), NEW a \in Assets, NEW n, NEW w, NEW kept, Meets(n, w, a, kept, in),
         Together(n, w, a - 1, kept, in)
  PROVE  Together(Asset(n, a, in), SettleAsset(w, a, StageWorking(kept, in), StageOrders(in), in),
                  a, kept, in)
<1> DEFINE n1 == Asset(n, a, in)
           w1 == SettleAsset(w, a, StageWorking(kept, in), StageOrders(in), in)
<1>1. /\ w1 \in Rows /\ Same(n1, w1)
      /\ \A s \in Side, b \in Assets \ {a} : w1.work[s][b] = w.work[s][b]
      /\ \A s \in Side :
           n1.work[s][a] = Rested(w1.work[s][a], s, n1.unfilled[a], in.limit[a])
  BY AssetAgrees
<1>2. \A c \in Assets \ {a} :
        n1.unfilled[c] = n.unfilled[c] /\ \A s \in Side : n1.work[s][c] = n.work[s][c]
  BY AssetLeaves DEF Meets
<1>3. \A c \in Assets : c \in Int
  BY WidthAssumption DEF Assets
<1> HIDE DEF n1, w1
<1>4. ASSUME NEW s \in Side, NEW c \in Assets
      PROVE  /\ c > a => w1.work[s][c] = kept[s][c]
             /\ c <= a => n1.work[s][c] = Rested(w1.work[s][c], s, n1.unfilled[c], in.limit[c])
  <2>1. CASE c = a
    BY <1>1, <1>3, <2>1
  <2>2. CASE c # a
    <3>1. (c > a => c > a - 1) /\ (c <= a => c <= a - 1)
      BY <1>3, <2>2
    <3>2. /\ c > a - 1 => w.work[s][c] = kept[s][c]
          /\ c <= a - 1 => n.work[s][c] = Rested(w.work[s][c], s, n.unfilled[c], in.limit[c])
      BY DEF Together
    <3>3. /\ w1.work[s][c] = w.work[s][c] /\ n1.work[s][c] = n.work[s][c]
          /\ n1.unfilled[c] = n.unfilled[c]
      BY <1>1, <1>2, <2>2
    <3>4. QED
      BY <3>1, <3>2, <3>3
  <2>3. QED
    BY <2>1, <2>2
<1>5. Together(n1, w1, a, kept, in)
  BY <1>1, <1>4 DEF Together
<1>6. QED
  BY <1>5 DEF n1, w1

LEMMA ExecutorsAgree ==
  ASSUME NEW in, Given(in), NEW b \in Accounts
  PROVE  LET n == Narrow(b, in)
             w == Wide(b, in)
         IN  Same(n, w) /\ n.work = w.work
<1> DEFINE x == Begin(b, in)
           kept == KeptWork(b, in)
           start == [x EXCEPT !.work = kept]
           f == NarrowBooks(b, in)
           g == WideBooks(start, StageWorking(kept, in), StageOrders(in), in)
           n == Narrow(b, in)
           w == Wide(b, in)
           S == {a \in 0..Width : Together(f[a], g[a], a, kept, in)}
<1>1. CASE x.forced
  <2>1. w = n
    BY <1>1 DEF Wide
  <2> HIDE DEF n, w
  <2>2. QED
    BY <2>1 DEF Same, n, w
<1>2. ASSUME ~x.forced PROVE Same(n, w) /\ n.work = w.work
  <2>1. /\ x \in Rows /\ \A a \in Assets : x.unfilled[a] = 0
    BY BeginType
  <2>2. x.work = b.work /\ x.ask = in.order /\ x.limit = in.limit /\ x.cancel = in.cancel
    BY <1>2, BeginType
  <2>3. Width \in Nat /\ \A c \in Assets : c \in Int /\ c > 0 /\ c <= Width
    BY WidthAssumption DEF Assets
  <2>4. /\ f[0] = x /\ \A a \in Assets : f[a] = Asset(f[a - 1], a, in)
        /\ n = f[Width]
    BY NarrowSteps
  <2>5. /\ g[0] = start
        /\ \A a \in Assets : g[a] = SettleAsset(g[a - 1], a, StageWorking(kept, in), StageOrders(in), in)
        /\ w = RestAll(g[Width], in)
    BY <1>2, WideSteps DEF Wide
  <2>6. \A a \in 0..Width : Reaches(x, f[a], a)
    BY NarrowReaches
  <2>7. kept \in Works /\ \A s \in Side, a \in Assets :
                             kept[s][a] = IF in.cancel[a] THEN NoOrder ELSE x.work[s][a]
    <3>1. b.work \in Works /\ NoOrder \in Resting
      BY DEF Accounts, NoOrder, Resting
    <3>2. QED
      BY <2>2, <3>1 DEF KeptWork, Works
  <2>8. start \in Rows /\ Same(x, start) /\ start.work = kept
    <3> HIDE DEF x, kept
    <3>1. QED
      BY <2>1, <2>7 DEF Rows, Same
  <2> HIDE DEF x, kept, start, f, g, n, w
  <2>9. 0 \in S
    BY <2>3, <2>4, <2>5, <2>8 DEF Together
  <2>10. ASSUME NEW a \in 1..Width, a - 1 \in S PROVE a \in S
    <3>1. a \in Assets /\ a - 1 \in 0..Width /\ Together(f[a - 1], g[a - 1], a - 1, kept, in)
      BY <2>10 DEF Assets
    <3>2. Reaches(x, f[a - 1], a - 1) /\ a > a - 1
      BY <2>6, <3>1
    <3>3. Untouched(x, f[a - 1], a)
      BY <3>1, <3>2 DEF Reaches
    <3>4. /\ f[a - 1] \in Rows /\ f[a - 1].unfilled[a] = 0
          /\ f[a - 1].ask = in.order /\ f[a - 1].limit = in.limit /\ f[a - 1].cancel = in.cancel
      BY <2>1, <2>2, <3>1, <3>2, <3>3 DEF Reaches, Untouched
    <3>5. \A s \in Side : /\ kept[s][a] = IF in.cancel[a] THEN NoOrder ELSE f[a - 1].work[s][a]
                          /\ g[a - 1].work[s][a] = kept[s][a]
      BY <2>7, <3>1, <3>2, <3>3 DEF Untouched, Together
    <3>6. Meets(f[a - 1], g[a - 1], a, kept, in)
      BY <2>7, <3>1, <3>4, <3>5 DEF Meets, Together
    <3>7. Together(f[a], g[a], a, kept, in)
      BY <2>4, <2>5, <3>1, <3>6, TogetherNext
    <3>8. QED
      BY <3>7
  <2>11. 0..Width \subseteq S
    <3> HIDE DEF S
    <3>1. QED
      BY <2>3, <2>9, <2>10, IntervalInduction
  <2>12. Width \in S /\ Width \in 0..Width
    BY <2>3, <2>11
  <2>13. Together(n, g[Width], Width, kept, in) /\ n \in Rows
    BY <2>4, <2>6, <2>12 DEF Reaches
  <2> DEFINE v == g[Width]
  <2>14. v \in Rows /\ Same(n, v) /\ w = RestAll(v, in)
    BY <2>5, <2>13 DEF Together
  <2>15. \A s \in Side, c \in Assets :
           n.work[s][c] = Rested(v.work[s][c], s, n.unfilled[c], in.limit[c])
    BY <2>3, <2>13 DEF Together
  <2> HIDE DEF v
  <2> DEFINE rests == [s \in Side |-> [a \in Assets |->
                         IF in.limit[a] # NoLimit /\ Sign(s) * v.unfilled[a] > 0
                           THEN [qty |-> Absolute(v.unfilled[a]), px |-> in.limit[a]]
                           ELSE v.work[s][a]]]
  <2>16. w = [v EXCEPT !.work = rests]
    BY <2>14 DEF RestAll
  <2>17. rests = [s \in Side |-> [a \in Assets |-> n.work[s][a]]]
    BY <2>14, <2>15 DEF Rested, Same
  <2>18. n.work = [s \in Side |-> [a \in Assets |-> n.work[s][a]]]
    BY <2>13 DEF Rows, Works
  <2> HIDE DEF rests
  <2>19. Same(n, w) /\ w.work = rests
    BY <2>14, <2>16 DEF Same, Rows
  <2>20. QED
    BY <2>17, <2>18, <2>19
<1>3. QED
  BY <1>1, <1>2

-----------------------------------------------------------------------------
(* What the policies ask for *)

LEMMA Quotients ==
  /\ \A x \in Int, y \in Nat \ {0} : x \div y \in Int
  /\ \A y \in Nat \ {0} : 0 \div y = 0
<1>1. \A x \in Int, y \in Nat \ {0} : x \div y \in Int
  OBVIOUS
<1>2. \A y \in Nat \ {0} : 0 \div y = 0
  OBVIOUS
<1>3. QED
  BY <1>1, <1>2

LEMMA ThresholdPaths ==
  ASSUME NEW signal \in Amounts
  PROVE  /\ Threshold(signal, 1, 2, 2) = ThresholdVector(signal, 1, 2, 2)
         /\ Threshold(signal, 1, 2, 2) \in Amounts
<1>1. DOMAIN signal = Assets /\ \A a \in Assets : signal[a] \in Int
  BY DEF Amounts
<1>2. Threshold(signal, 1, 2, 2)
        = [a \in Assets |-> IF signal[a] > 1 THEN 2 ELSE IF signal[a] < -1 THEN -2 ELSE 0]
  BY <1>1 DEF Threshold
<1>3. ThresholdVector(signal, 1, 2, 2)
        = [a \in Assets |-> IF signal[a] > 1 THEN 2 ELSE IF signal[a] < -1 THEN -2 ELSE 0]
  BY <1>1 DEF ThresholdVector
<1>4. QED
  BY <1>2, <1>3 DEF Amounts

LEMMA LimitPaths ==
  ASSUME NEW equity \in Int, NEW q \in Amounts, NEW held \in Amounts,
         NEW ask \in Amounts, NEW bid \in Amounts, \A a \in Assets : ask[a] > 0 /\ bid[a] > 0
  PROVE  /\ FractionalLimit(Cap, equity, q, held, ask, bid, Unit)
              = FractionalLimitVector(Cap, equity, q, held, ask, bid, Unit)
         /\ FractionalLimit(Cap, equity, q, held, ask, bid, Unit) \in Amounts
<1>1. DOMAIN q = Assets /\ \A a \in Assets : /\ q[a] \in Int /\ held[a] \in Int
                                             /\ ask[a] \in Int /\ bid[a] \in Int
  BY DEF Amounts
<1>2. Cap.num = 1 /\ Cap.den = 2 /\ Unit \in Nat \ {0}
  BY MoneyAssumption DEF Cap
<1>3. ASSUME NEW a \in Assets
      PROVE  Limited(Cap, equity, q[a], held[a], ask[a], bid[a], Unit) \in Int
  <2> DEFINE price == TouchOf(ask[a], bid[a], q[a])
  <2>1. price \in Nat \ {0}
    BY <1>1 DEF TouchOf
  <2> HIDE DEF price
  <2>2. price * Unit \in Nat \ {0}
    BY <1>2, <2>1
  <2>3. Cap.den * price * Unit \in Nat \ {0} /\ Cap.num * equity \in Int
    BY <1>2, <2>1, <2>2
  <2>4. Affordable(Cap, equity, price, Unit) \in Int
    BY <2>3, Quotients DEF Affordable
  <2>5. \A x, y \in Int : Signed(x, y) \in Int
    BY DEF Signed
  <2> DEFINE cap == Signed(Affordable(Cap, equity, price, Unit), held[a] + q[a])
  <2>6. Limited(Cap, equity, q[a], held[a], ask[a], bid[a], Unit)
          = IF q[a] # 0 /\ Exceeds(Cap, equity, held[a] + q[a], price, Unit)
              THEN cap - held[a] ELSE q[a]
    BY DEF Limited, price
  <2>7. cap \in Int
    <3>1. held[a] + q[a] \in Int
      BY <1>1
    <3>2. QED
      BY <2>4, <2>5, <3>1, Zenon
  <2> HIDE DEF cap
  <2>8. QED
    BY <1>1, <2>6, <2>7
<1>4. Magnitude(0) = 0 /\ \A a \in Assets : TouchOf(ask[a], bid[a], q[a]) = IF q[a] > 0 THEN ask[a] ELSE bid[a]
  BY DEF Magnitude, TouchOf
<1> DEFINE price == [a \in Assets |-> IF q[a] >= 0 THEN ask[a] ELSE bid[a]]
           projected == [a \in Assets |-> held[a] + q[a]]
           over == {a \in Assets : q[a] # 0 /\ Exceeds(Cap, equity, projected[a], price[a], Unit)}
<1>5. FractionalLimitVector(Cap, equity, q, held, ask, bid, Unit)
        = IF Cap.num * equity <= 0 THEN [a \in Assets |-> 0]
          ELSE [a \in Assets |->
                  IF a \in over
                    THEN Signed(Affordable(Cap, equity, price[a], Unit), projected[a]) - held[a]
                    ELSE q[a]]
  BY <1>1 DEF FractionalLimitVector
<1>6. ASSUME NEW a \in Assets
      PROVE  Limited(Cap, equity, q[a], held[a], ask[a], bid[a], Unit)
               = IF a \in over
                   THEN Signed(Affordable(Cap, equity, price[a], Unit), projected[a]) - held[a]
                   ELSE q[a]
  <2>1. q[a] # 0 => price[a] = TouchOf(ask[a], bid[a], q[a])
    BY <1>1 DEF TouchOf
  <2>2. projected[a] = held[a] + q[a]
    OBVIOUS
  <2> HIDE DEF price, projected
  <2>3. a \in over <=> q[a] # 0 /\ Exceeds(Cap, equity, projected[a], price[a], Unit)
    OBVIOUS
  <2> HIDE DEF over
  <2>4. QED
    BY <2>1, <2>2, <2>3 DEF Limited
<1>7. FractionalLimit(Cap, equity, q, held, ask, bid, Unit)
        = [a \in Assets |-> IF Cap.num * equity <= 0 THEN 0
                            ELSE Limited(Cap, equity, q[a], held[a], ask[a], bid[a], Unit)]
  BY <1>1 DEF FractionalLimit
<1> HIDE DEF over, price, projected
<1>8. FractionalLimit(Cap, equity, q, held, ask, bid, Unit)
        = FractionalLimitVector(Cap, equity, q, held, ask, bid, Unit)
  <2>1. CASE Cap.num * equity <= 0
    BY <1>5, <1>7, <2>1
  <2>2. CASE ~(Cap.num * equity <= 0)
    BY <1>5, <1>6, <1>7, <2>2
  <2>3. QED
    BY <2>1, <2>2
<1>9. FractionalLimit(Cap, equity, q, held, ask, bid, Unit) \in Amounts
  BY <1>3, <1>7 DEF Amounts
<1>10. QED
  BY <1>8, <1>9

LEMMA KellyPaths ==
  ASSUME NEW equity \in Int, NEW p \in Amounts, NEW ask \in Amounts, \A a \in Assets : ask[a] > 0
  PROVE  /\ FractionalKelly(Cap, equity, p, ask, One, Unit)
              = FractionalKellyVector(Cap, equity, p, ask, One, Unit)
         /\ FractionalKelly(Cap, equity, p, ask, One, Unit) \in Amounts
<1> DEFINE edge == {a \in Assets : ask[a] < One /\ p[a] > ask[a]}
           stake(a) == (p[a] - ask[a]) * Cap.num * equity
           price(a, odds) == odds * Cap.den * ask[a] * Unit
           bet(a) == IF equity <= 0 \/ a \notin edge THEN 0 ELSE stake(a) \div price(a, One - ask[a])
<1>1. DOMAIN p = Assets /\ \A a \in Assets : p[a] \in Int /\ ask[a] \in Nat \ {0}
  BY DEF Amounts
<1>2. Cap.num = 1 /\ Cap.den = 2 /\ Unit \in Nat \ {0} /\ One = 4
  BY MoneyAssumption DEF Cap, One
<1>3. \A a \in Assets, odds \in Nat \ {0} : price(a, odds) \in Nat \ {0}
  <2>1. \A x, y \in Nat \ {0} : x * y \in Nat \ {0}
    OBVIOUS
  <2> TAKE a \in Assets, odds \in Nat \ {0}
  <2>2. odds * Cap.den \in Nat \ {0}
    BY <1>2
  <2>3. odds * Cap.den * ask[a] \in Nat \ {0}
    BY <1>1, <2>1, <2>2
  <2>4. QED
    BY <1>2, <2>1, <2>3
<1>4. \A a \in Assets : stake(a) \in Int
  <2> TAKE a \in Assets
  <2>1. p[a] - ask[a] \in Int
    BY <1>1
  <2>2. (p[a] - ask[a]) * Cap.num \in Int
    BY <1>2, <2>1
  <2>3. QED
    BY <2>2, Products
<1>5. \A a \in edge : One - ask[a] \in Nat \ {0}
  BY <1>1, <1>2
<1>6. FractionalKelly(Cap, equity, p, ask, One, Unit) = [a \in Assets |-> bet(a)]
  <2>1. ASSUME NEW a \in Assets
        PROVE  (LET kelly == KellyFraction(p[a], ask[a], One)
                IN  IF equity <= 0 \/ kelly.num = 0 THEN 0
                    ELSE (kelly.num * Cap.num * equity) \div (kelly.den * Cap.den * ask[a] * Unit))
               = bet(a)
    <3>1. CASE a \in edge
      <4>1. KellyFraction(p[a], ask[a], One) = [num |-> p[a] - ask[a], den |-> One - ask[a]]
        BY <3>1 DEF KellyFraction
      <4>2. p[a] - ask[a] # 0
        BY <1>1, <3>1
      <4>3. QED
        BY <3>1, <4>1, <4>2
    <3>2. CASE a \notin edge
      <4>1. KellyFraction(p[a], ask[a], One) = [num |-> 0, den |-> 1]
        BY <3>2 DEF KellyFraction
      <4>2. QED
        BY <3>2, <4>1
    <3>3. QED
      BY <3>1, <3>2
  <2> HIDE DEF bet
  <2>2. QED
    BY <1>1, <2>1 DEF FractionalKelly
<1>7. FractionalKellyVector(Cap, equity, p, ask, One, Unit) = [a \in Assets |-> bet(a)]
  <2>1. CASE equity <= 0
    BY <1>1, <2>1 DEF FractionalKellyVector
  <2>2. CASE ~(equity <= 0)
    <3> DEFINE stakes == [a \in Assets |-> IF a \in edge THEN (p[a] - ask[a]) * Cap.num * equity ELSE 0]
               odds == [a \in Assets |-> IF a \in edge THEN One - ask[a] ELSE 1]
    <3>1. FractionalKellyVector(Cap, equity, p, ask, One, Unit)
            = [a \in Assets |-> stakes[a] \div (odds[a] * Cap.den * ask[a] * Unit)]
      BY <1>1, <2>2 DEF FractionalKellyVector
    <3>2. ASSUME NEW a \in Assets
          PROVE  stakes[a] \div (odds[a] * Cap.den * ask[a] * Unit) = bet(a)
      <4>1. CASE a \in edge
        BY <2>2, <4>1
      <4>2. CASE a \notin edge
        <5>1. stakes[a] = 0 /\ odds[a] = 1
          BY <4>2
        <5>2. price(a, 1) \in Nat \ {0}
          BY <1>3
        <5> HIDE DEF stakes, odds
        <5>3. 0 \div price(a, 1) = 0
          BY <5>2, Quotients
        <5>4. QED
          BY <4>2, <5>1, <5>3
      <4>3. QED
        BY <4>1, <4>2
    <3> HIDE DEF stakes, odds, bet
    <3>3. QED
      BY <3>1, <3>2
  <2>3. QED
    BY <2>1, <2>2
<1>8. \A a \in Assets : bet(a) \in Int
  <2> TAKE a \in Assets
  <2>1. CASE equity <= 0 \/ a \notin edge
    BY <2>1
  <2>2. CASE ~(equity <= 0 \/ a \notin edge)
    <3>1. stake(a) \in Int /\ price(a, One - ask[a]) \in Nat \ {0}
      BY <1>3, <1>4, <1>5, <2>2
    <3>2. bet(a) = stake(a) \div price(a, One - ask[a])
      BY <2>2
    <3> HIDE DEF stake, price, bet
    <3>3. QED
      BY <3>1, <3>2, Quotients
  <2>3. QED
    BY <2>1, <2>2
<1> HIDE DEF bet
<1>9. QED
  BY <1>6, <1>7, <1>8 DEF Amounts

\* The two paths of a policy and of a risk policy decide the same orders, and these
\* are what an executor may be given.
LEMMA DecidedGiven ==
  ASSUME config \in Configs, NEW b \in Accounts, NEW in \in Asked
  PROVE  /\ Decided(b, in, FALSE) = Decided(b, in, TRUE)
         /\ \A wide \in BOOLEAN : Given(Decided(b, in, wide))
<1> DEFINE equity == Total(b.cash, Value(b.balance, Marks(in)))
           proposed == Proposed(in.signal, FALSE)
           effective == Effective(b, in, proposed, FALSE)
<1>1. /\ in.ladder \in Shown /\ in.signal \in Amounts
      /\ in.limit \in [Assets -> Int \cup {NoLimit}] /\ in.cancel \in [Assets -> BOOLEAN]
  <2>1. None \in [Assets -> Int \cup {NoLimit}] /\ Keep \in [Assets -> BOOLEAN]
    BY DEF None, Keep
  <2>2. QED
    BY <2>1, FrameAssumption DEF Asked, Amounts
<1>2. /\ Marks(in) \in Amounts /\ Asks(in) \in Amounts
      /\ \A a \in Assets : Asks(in)[a] > 0 /\ Marks(in)[a] > 0
  <2> DEFINE d == [ladder |-> in.ladder, order |-> Nothing, limit |-> None, cancel |-> Keep,
                   taker |-> 0, maker |-> 0]
  <2>1. Given(d)
    BY <1>1 DEF Given, Nothing, None, Keep, Amounts
  <2>2. Marks(d) = Marks(in) /\ Asks(d) = Asks(in)
    BY DEF Marks, Asks
  <2> HIDE DEF d
  <2>3. /\ Marks(d) \in Amounts /\ Asks(d) \in Amounts
        /\ \A a \in Assets : 0 < Marks(d)[a] /\ Marks(d)[a] <= Asks(d)[a]
    BY <2>1, GivenTypes
  <2>4. QED
    BY <2>2, <2>3 DEF Amounts
<1>3. equity \in Int /\ b.balance \in Amounts
  <2>1. b.cash \in Int /\ b.balance \in Amounts
    BY DEF Accounts
  <2>2. QED
    BY <1>2, <2>1, ValueType, TotalType
<1>4. Proposed(in.signal, TRUE) = proposed /\ proposed \in Amounts
  BY <1>1, ThresholdPaths DEF Proposed
<1> HIDE DEF equity, proposed
<1>5. /\ FractionalLimit(Cap, equity, proposed, b.balance, Asks(in), Marks(in), Unit)
           = FractionalLimitVector(Cap, equity, proposed, b.balance, Asks(in), Marks(in), Unit)
      /\ FractionalLimit(Cap, equity, proposed, b.balance, Asks(in), Marks(in), Unit) \in Amounts
  BY <1>2, <1>3, <1>4, LimitPaths
<1>6. /\ FractionalKelly(Cap, equity, in.signal, Asks(in), One, Unit)
           = FractionalKellyVector(Cap, equity, in.signal, Asks(in), One, Unit)
      /\ FractionalKelly(Cap, equity, in.signal, Asks(in), One, Unit) \in Amounts
  BY <1>1, <1>2, <1>3, KellyPaths
<1>7. effective \in Amounts /\ Effective(b, in, proposed, TRUE) = effective
  <2>1. config.risk \in {"none", "limit", "kelly"}
    BY ConfigsAssumption
  <2>2. CASE config.risk = "none"
    BY <1>4, <2>2 DEF Effective
  <2>3. CASE config.risk = "limit"
    BY <1>5, <2>3 DEF Effective, equity
  <2>4. CASE config.risk = "kelly"
    BY <1>6, <2>4 DEF Effective, equity
  <2>5. QED
    BY <2>1, <2>2, <2>3, <2>4
<1> HIDE DEF effective
<1> DEFINE decided == [ladder |-> in.ladder, limit |-> in.limit, cancel |-> in.cancel,
                       order |-> effective, taker |-> config.taker, maker |-> config.maker]
<1>8. \A wide \in BOOLEAN : Decided(b, in, wide) = decided
  BY <1>4, <1>7 DEF Decided, effective, proposed
<1>9. Given(decided)
  <2>1. config.taker \in Int /\ config.maker \in Int
    BY ConfigsAssumption
  <2>2. QED
    BY <1>1, <1>7, <2>1 DEF Given
<1> HIDE DEF decided
<1>10. QED
  BY <1>8, <1>9

-----------------------------------------------------------------------------
(* The rows of a frame *)

\* What a row leaves of an account, the same by both paths.
LEMMA ExecutedAgree ==
  ASSUME config \in Configs, NEW b \in Accounts, NEW in \in Asked
  PROVE  LET n == Executed(b, in, FALSE)
             w == Executed(b, in, TRUE)
         IN  Same(n, w) /\ n.work = w.work /\ n \in Rows /\ Kept(n) = Kept(w) /\ Kept(n) \in Accounts
<1> DEFINE n == Executed(b, in, FALSE)
           w == Executed(b, in, TRUE)
           d == Decided(b, in, FALSE)
<1>1. Given(d) /\ d = Decided(b, in, TRUE)
  BY DecidedGiven
<1>2. n = Narrow(b, d) /\ w = Wide(b, d)
  BY <1>1 DEF Executed
<1> HIDE DEF n, w, d
<1>3. Same(n, w) /\ n.work = w.work
  BY <1>1, <1>2, ExecutorsAgree
<1>4. n \in Rows
  <2>1. Width \in 0..Width
    BY WidthAssumption
  <2>2. Reaches(Begin(b, d), NarrowBooks(b, d)[Width], Width)
    BY <1>1, <2>1, NarrowReaches
  <2>3. n = NarrowBooks(b, d)[Width]
    BY <1>2, NarrowSteps
  <2>4. QED
    BY <2>2, <2>3 DEF Reaches
<1>5. Kept(n) = Kept(w)
  BY <1>3 DEF Kept, Same
<1>6. Kept(n) \in Accounts
  BY <1>4 DEF Kept, Accounts, Rows
<1>7. QED
  BY <1>3, <1>4, <1>5, <1>6 DEF n, w

\* The last row, by the path its width takes.
Outcome == Last(config.wide)

\* The book is what the last row left of the one before it.
RowsExplainBook ==
  /\ config \in Configs /\ row \in Nat /\ was \in Accounts /\ book \in Accounts
  /\ row > 0 => /\ seen \in Asked
                /\ book = Kept(Outcome) /\ ruined = Outcome.forced

\* Nothing but the executed rows changes the book, and a row changes it to what
\* _execute_l2 or _execute_l2_narrow makes of the row (BacktestTSFN.batch).
THEOREM BookFollowsRows == Spec => []RowsExplainBook
<1>1. Init => RowsExplainBook
  <2>1. Flat \in Accounts
    <3>1. Nothing \in Amounts /\ NoWork \in Works
      BY DEF Nothing, Amounts, NoWork, NoOrder, Works, Resting
    <3>2. QED
      BY <3>1, MoneyAssumption DEF Flat, Accounts
  <2>2. QED
    BY <2>1 DEF Init, RowsExplainBook
<1>2. RowsExplainBook /\ [Next]_vars => RowsExplainBook'
  <2> SUFFICES ASSUME RowsExplainBook, [Next]_vars PROVE RowsExplainBook'
    OBVIOUS
  <2>1. CASE Row
    <3>1. PICK in \in Asked : /\ seen' = in /\ was' = book
                              /\ Ends(Executed(book, in, config.wide))
      BY <2>1 DEF Row
    <3>2. config' = config /\ config \in Configs /\ row' = row + 1 /\ row \in Nat /\ book \in Accounts
      BY <2>1 DEF Row, RowsExplainBook
    <3>3. config.wide \in BOOLEAN
      BY <3>2, ConfigsAssumption
    <3>4. Kept(Executed(book, in, config.wide)) \in Accounts
      BY <3>2, <3>3, ExecutedAgree
    <3>5. Outcome' = Executed(book, in, config.wide)
      BY <3>1, <3>2 DEF Outcome, Last, Executed, Decided, Effective, Proposed
    <3>6. Asked' = Asked
      BY <3>2 DEF Asked
    <3>7. /\ config' \in Configs /\ row' \in Nat /\ was' \in Accounts /\ book' \in Accounts
          /\ seen' \in Asked /\ book' = Kept(Outcome') /\ ruined' = Outcome'.forced
      BY <3>1, <3>2, <3>4, <3>5 DEF Ends
    <3>8. QED
      BY <3>6, <3>7 DEF RowsExplainBook, Kept
  <2>2. CASE UNCHANGED vars
    <3>1. Outcome' = Outcome
      BY <2>2 DEF vars, Outcome, Last, Executed, Decided, Effective, Proposed
    <3>2. Asked' = Asked
      BY <2>2 DEF vars, Asked
    <3>3. QED
      BY <2>2, <3>1, <3>2 DEF vars, RowsExplainBook, Kept
  <2>3. QED
    BY <2>1, <2>2 DEF Next, End
<1>3. QED
  BY <1>1, <1>2, PTL DEF Spec

\* The row path for few assets and the vector path for many are one function, as are
\* the policies' two forms (_execute_l2_narrow, _execute_l2, decide).
THEOREM PathsAreOne == Spec => []PathsAgree
<1>1. RowsExplainBook => PathsAgree
  <2> SUFFICES ASSUME RowsExplainBook, row > 0
               PROVE  Reported(Last(FALSE)) = Reported(Last(TRUE))
    BY DEF PathsAgree
  <2>1. config \in Configs /\ was \in Accounts /\ seen \in Asked
    BY DEF RowsExplainBook
  <2>2. Same(Last(FALSE), Last(TRUE)) /\ Kept(Last(FALSE)) = Kept(Last(TRUE))
    BY <2>1, ExecutedAgree DEF Last
  <2>3. QED
    BY <2>2 DEF Reported, Same
<1>2. QED
  BY <1>1, BookFollowsRows, PTL

\* The last row as the path for few assets executes it.
LEMMA LastReaches ==
  ASSUME RowsExplainBook, row > 0
  PROVE  LET d == Decided(was, seen, FALSE)
             x == Begin(was, d)
             y == Last(FALSE)
         IN  /\ Given(d) /\ d.limit = seen.limit /\ d.cancel = seen.cancel /\ Marks(d) = Marks(seen)
             /\ x \in Rows /\ y \in Rows /\ Reaches(x, y, Width)
             /\ Same(y, Outcome) /\ y.work = Outcome.work
             /\ book = Kept(y) /\ ruined = y.forced
<1> DEFINE d == Decided(was, seen, FALSE)
           y == Last(FALSE)
<1>1. config \in Configs /\ was \in Accounts /\ seen \in Asked /\ config.wide \in BOOLEAN
  BY ConfigsAssumption DEF RowsExplainBook
<1>2. Given(d) /\ d.limit = seen.limit /\ d.cancel = seen.cancel /\ Marks(d) = Marks(seen)
  <2>1. Given(d)
    BY <1>1, DecidedGiven
  <2>2. QED
    BY <2>1 DEF Decided, Marks
<1>3. Same(y, Last(TRUE)) /\ y.work = Last(TRUE).work /\ y \in Rows /\ Kept(y) = Kept(Last(TRUE))
  BY <1>1, ExecutedAgree DEF Last
<1>4. y = NarrowBooks(was, d)[Width]
  <2>1. y = Narrow(was, d)
    BY DEF Last, Executed
  <2>2. QED
    BY <1>1, <1>2, <2>1, NarrowSteps
<1> HIDE DEF d, y
<1>5. Begin(was, d) \in Rows /\ Reaches(Begin(was, d), y, Width)
  <2>1. Width \in 0..Width
    BY WidthAssumption
  <2>2. QED
    BY <1>1, <1>2, <1>4, <2>1, BeginType, NarrowReaches
<1>6. Outcome = y \/ Outcome = Last(TRUE)
  BY <1>1 DEF Outcome, y
<1>7. Same(y, Outcome) /\ y.work = Outcome.work /\ Kept(y) = Kept(Outcome)
  <2>1. Same(y, y)
    BY DEF Same
  <2>2. QED
    BY <1>3, <1>6, <2>1
<1>8. book = Kept(y) /\ ruined = y.forced
  BY <1>7 DEF RowsExplainBook, Same
<1>9. QED
  BY <1>2, <1>3, <1>5, <1>7, <1>8 DEF d, y

\* Where the row neither cancels nor replaces what rests, a position changes by what
\* left the resting orders and by what the row's order executed (_execute_l2).
THEOREM PositionsReconcile == Spec => []RestingReconciles
<1>1. RowsExplainBook => RestingReconciles
  <2> SUFFICES ASSUME RowsExplainBook, row > 0, ~ruined
               PROVE  Reconciled(Last(config.wide))
    BY DEF RestingReconciles
  <2> DEFINE d == Decided(was, seen, FALSE)
             x == Begin(was, d)
             y == Last(FALSE)
             z == Outcome
  <2>1. /\ Given(d) /\ d.limit = seen.limit /\ d.cancel = seen.cancel
        /\ y \in Rows /\ x \in Rows /\ Reaches(x, y, Width)
        /\ Same(y, z) /\ book = Kept(y) /\ ~y.forced
    BY LastReaches
  <2>2. was \in Accounts
    BY DEF RowsExplainBook
  <2> HIDE DEF d
  <2>3. x.balance = was.balance /\ x.work = was.work /\ x.limit = seen.limit /\ x.cancel = seen.cancel
    <3>1. ~x.forced
      BY <2>1 DEF Reaches
    <3>2. QED
      BY <2>1, <2>2, <3>1, BeginType
  <2> HIDE DEF x, y, z
  <2>4. /\ z.ask = x.ask /\ z.unfilled = y.unfilled /\ z.limit = y.limit
        /\ book.balance = y.balance /\ book.work = y.work
    BY <2>1 DEF Same, Reaches, Kept
  <2>5. ASSUME NEW a \in Assets, ~seen.cancel[a], ~(seen.limit[a] # NoLimit /\ z.unfilled[a] # 0)
        PROVE  book.balance[a] - was.balance[a]
                 = (was.work["buy"][a].qty - book.work["buy"][a].qty)
                     - (was.work["sell"][a].qty - book.work["sell"][a].qty)
                     + z.ask[a] - z.unfilled[a]
    <3>1. Width \in Int /\ a <= Width /\ "buy" \in Side /\ "sell" \in Side
      BY WidthAssumption DEF Assets, Side
    <3>2. Executes(x, y, a)
      BY <2>1, <3>1 DEF Reaches
    <3>3. PICK bought \in Nat, sold \in Nat, e \in Nat : Ends1(x, y, a, bought, sold, e)
      BY <3>2 DEF Executes
    <3>4. /\ y.balance[a] = x.balance[a] + bought - sold + Sign(SideOf(x.ask[a])) * e
          /\ y.unfilled[a] = x.ask[a] - Sign(SideOf(x.ask[a])) * e
      BY <3>3 DEF Ends1
    <3>5. /\ y.work["buy"][a] = Reduced(x.work["buy"][a], bought)
          /\ y.work["sell"][a] = Reduced(x.work["sell"][a], sold)
      <4>1. /\ y.work["buy"][a] = Rested(Reduced(x.work["buy"][a], bought), "buy", y.unfilled[a], x.limit[a])
            /\ y.work["sell"][a] = Rested(Reduced(x.work["sell"][a], sold), "sell", y.unfilled[a], x.limit[a])
        BY <2>3, <2>5, <3>1, <3>3 DEF Ends1
      <4>2. x.limit[a] = NoLimit \/ y.unfilled[a] = 0
        BY <2>3, <2>4, <2>5
      <4>3. \A s \in Side : ~(Sign(s) * 0 > 0)
        BY DEF Sign
      <4>4. QED
        BY <3>1, <4>1, <4>2, <4>3 DEF Rested
    <3>6. /\ x.balance[a] \in Int /\ x.ask[a] \in Int /\ Sign(SideOf(x.ask[a])) * e \in Int
          /\ x.work["buy"][a].qty \in Int /\ x.work["sell"][a].qty \in Int
      BY <2>1, <3>1 DEF Rows, Amounts, Works, Resting, Sign
    <3>7. QED
      <4>1. /\ x.work["buy"][a].qty - y.work["buy"][a].qty = bought
            /\ x.work["sell"][a].qty - y.work["sell"][a].qty = sold
        BY <3>5, <3>6 DEF Reduced
      <4>2. y.balance[a] - x.balance[a] = bought - sold + x.ask[a] - y.unfilled[a]
        BY <3>4, <3>6
      <4>3. QED
        BY <2>3, <2>4, <4>1, <4>2
  <2>6. Reconciled(z)
    BY <2>5 DEF Reconciled
  <2>7. QED
    BY <2>6 DEF z, Outcome
<1>2. QED
  BY <1>1, BookFollowsRows, PTL

-----------------------------------------------------------------------------
(* Money *)

LEMMA TotalMoves ==
  ASSUME NEW c \in Int, NEW x \in Amounts, NEW d \in Int, NEW y \in Amounts,
         NEW a \in Assets, \A b \in Assets \ {a} : x[b] = y[b]
  PROVE  Total(d, y) - Total(c, x) = (d - c) + (y[a] - x[a])
<1>1. /\ Width \in Nat /\ a \in 1..Width
      /\ \A i \in 1..Width : x[i] \in Int /\ y[i] \in Int
      /\ \A i \in 1..Width : i # a => x[i] = y[i]
  BY WidthAssumption DEF Assets, Amounts
<1>2. Total(c, x) = Partial(Width, c, x)[Width] /\ Total(d, y) = Partial(Width, d, y)[Width]
  BY DEF Total, Partial, Runs
<1>3. Partial(Width, d, y)[Width] - Partial(Width, c, x)[Width] = (d - c) + (y[a] - x[a])
  BY <1>1, PartialMoves
<1>4. QED
  BY <1>2, <1>3

\* The running equity of a row is what its book is worth at the row's marks, and
\* only a forced row may take it below zero.
Tracks(x, in) ==
  /\ x.equity = Total(x.cash, Value(x.balance, Marks(in)))
  /\ x.forced \/ x.equity >= 0

SameMoney(x, y) ==
  x.cash = y.cash /\ x.balance = y.balance /\ x.equity = y.equity /\ x.forced = y.forced

LEMMA ExchangeTracks ==
  ASSUME NEW in, Given(in), NEW x \in Rows, NEW y \in Rows, NEW a \in Assets,
         NEW signed \in Int, NEW cost \in Int, NEW rate \in Int, Tracks(x, in),
         Passes(x, signed, cost, rate, Marks(in)[a]),
         Exchanged(x, y, a, signed, cost, rate, Marks(in)[a])
  PROVE  Tracks(y, in)
<1> DEFINE mark == Marks(in)
           paid == Paid(signed, cost)
           v == Value(x.balance, mark)
           w == Value(y.balance, mark)
<1>1. mark \in Amounts /\ mark[a] \in Int /\ Unit \in Int
  BY GivenTypes, MoneyAssumption DEF Amounts
<1>2. /\ x.balance \in Amounts /\ y.balance \in Amounts /\ x.cash \in Int /\ y.cash \in Int
      /\ x.balance[a] \in Int /\ x.equity \in Int /\ y.equity \in Int
  BY DEF Rows, Amounts
<1>3. v \in Amounts /\ w \in Amounts
  BY <1>1, <1>2, ValueType
<1>4. /\ y.balance = [x.balance EXCEPT ![a] = @ + signed] /\ y.forced = x.forced
      /\ y.cash = x.cash - (paid * Unit + cost * rate)
      /\ y.equity = x.equity + (signed * mark[a] - paid) * Unit - cost * rate
  BY DEF Exchanged, EquityAfter
<1>5. paid \in Int
  BY DEF Paid
<1>6. \A b \in Assets \ {a} : v[b] = w[b]
  BY <1>2, <1>4 DEF Value, Amounts
<1>7. w[a] - v[a] = signed * mark[a] * Unit
  <2>1. y.balance[a] = x.balance[a] + signed
    BY <1>2, <1>4 DEF Amounts
  <2>2. /\ v[a] = x.balance[a] * mark[a] * Unit
        /\ w[a] = (x.balance[a] + signed) * mark[a] * Unit
    BY <2>1 DEF Value
  <2> HIDE DEF v, w, mark
  <2>3. (x.balance[a] + signed) * mark[a] = x.balance[a] * mark[a] + signed * mark[a]
    BY <1>1, <1>2, Products
  <2>4. x.balance[a] * mark[a] \in Int /\ signed * mark[a] \in Int
    BY <1>1, <1>2, Products
  <2>5. (x.balance[a] * mark[a] + signed * mark[a]) * Unit
          = x.balance[a] * mark[a] * Unit + signed * mark[a] * Unit
    BY <1>1, <2>4, Products
  <2>6. x.balance[a] * mark[a] * Unit \in Int /\ signed * mark[a] * Unit \in Int
    BY <1>1, <2>4, Products
  <2>7. QED
    BY <2>2, <2>3, <2>5, <2>6
<1>8. (signed * mark[a] - paid) * Unit = signed * mark[a] * Unit - paid * Unit
  <2> HIDE DEF mark, paid
  <2>1. signed * mark[a] \in Int
    BY <1>1, Products
  <2>2. QED
    BY <1>1, <1>5, <2>1
<1>9. /\ signed * mark[a] * Unit \in Int /\ paid * Unit \in Int /\ cost * rate \in Int
  BY <1>1, <1>5, Products
<1> HIDE DEF mark, paid, v, w
<1>10. Total(y.cash, w) - Total(x.cash, v) = (y.cash - x.cash) + (w[a] - v[a])
  BY <1>2, <1>3, <1>6, TotalMoves
<1>11. Total(y.cash, w) \in Int /\ Total(x.cash, v) \in Int
  BY <1>2, <1>3, TotalType
<1>12. x.equity = Total(x.cash, v)
  BY DEF Tracks, v, mark
<1>13. y.equity = Total(y.cash, w)
  BY <1>2, <1>4, <1>7, <1>8, <1>9, <1>10, <1>11, <1>12
<1>14. y.forced \/ y.equity >= 0
  BY <1>4 DEF Passes, EquityAfter, mark, paid
<1>15. QED
  BY <1>13, <1>14 DEF Tracks, w, mark

LEMMA FillTracks ==
  ASSUME NEW in, Given(in), NEW x \in Rows, Tracks(x, in), NEW a \in Assets, NEW side \in Side,
         NEW need, NEW take, Takes(take, a, side, need, in), NEW rate \in Int
  PROVE  LET y == Fill(x, a, side, take, rate, in)
         IN  y \in Rows /\ Tracks(y, in)
<1> DEFINE signed == Sign(side) * Filled(take)
           cost == Cost(take, LegOf(in.ladder[a], side))
           y == Fill(x, a, side, take, rate, in)
<1>1. /\ y \in Rows /\ signed \in Int /\ cost \in Int
      /\ y = x \/ (/\ y # x /\ Passes(x, signed, cost, rate, Marks(in)[a])
                   /\ Exchanged(x, y, a, signed, cost, rate, Marks(in)[a]))
  BY FillCases
<1> HIDE DEF signed, cost, y
<1>2. Tracks(y, in)
  BY <1>1, ExchangeTracks
<1>3. QED
  BY <1>1, <1>2 DEF y

LEMMA SettleWorkingTracks ==
  ASSUME NEW in, Given(in), NEW x \in Rows, Tracks(x, in), NEW a \in Assets, NEW side \in Side,
         NEW take, Takes(take, a, side, x.work[side][a].qty, in)
  PROVE  Tracks(SettleWorking(x, a, side, take, in), in)
<1> DEFINE y == Fill(x, a, side, take, in.maker, in)
           z == SettleWorking(x, a, side, take, in)
<1>1. in.maker \in Int
  BY GivenTypes
<1>2. y \in Rows /\ Tracks(y, in)
  BY <1>1, FillTracks
<1>3. z = IF y = x THEN x ELSE [y EXCEPT !.work[side][a].qty = @ - Filled(take)]
  BY DEF SettleWorking, Worked
<1> HIDE DEF y, z
<1>4. SameMoney(y, z)
  BY <1>2, <1>3 DEF SameMoney, Rows
<1>5. QED
  BY <1>2, <1>4 DEF Tracks, SameMoney, z

LEMMA AssetTracks ==
  ASSUME NEW in, Given(in), NEW x \in Rows, Tracks(x, in), NEW a \in Assets, x.unfilled[a] = 0
  PROVE  Tracks(Asset(x, a, in), in)
<1> DEFINE c == CancelWorking(x, a)
           m == Bought(x, a, in)
           y == Sold(x, a, in)
           o == Ordered(y, a, y.ask[a], OrderTake(y, a, in), in)
           f == Fill(y, a, SideOf(y.ask[a]), OrderTake(y, a, in), in.taker, in)
<1>1. "buy" \in Side /\ "sell" \in Side
  BY DEF Side
<1>2. /\ c \in Rows /\ m \in Rows /\ y \in Rows /\ Same(c, x)
      /\ m = SettleWorking(c, a, "buy", RestTake(c, a, "buy", in), in)
      /\ y = SettleWorking(m, a, "sell", RestTake(m, a, "sell", in), in)
      /\ Takes(RestTake(c, a, "buy", in), a, "buy", c.work["buy"][a].qty, in)
      /\ Takes(RestTake(m, a, "sell", in), a, "sell", m.work["sell"][a].qty, in)
      /\ \E bought \in Nat : WorkedBy(c, m, a, "buy", bought)
      /\ \E sold \in Nat : WorkedBy(m, y, a, "sell", sold)
  BY SoldEffect
<1>3. Asset(x, a, in) = FillOrder(y, a, in)
  BY DEF Asset, Bought, Sold
<1> HIDE DEF c, m, y
<1>4. Tracks(c, in)
  BY <1>2 DEF Tracks, Same
<1>5. Tracks(m, in)
  BY <1>1, <1>2, <1>4, SettleWorkingTracks
<1>6. Tracks(y, in)
  BY <1>1, <1>2, <1>5, SettleWorkingTracks
<1>7. y.unfilled[a] = 0
  BY <1>2 DEF WorkedBy, Same
<1>8. /\ Takes(OrderTake(y, a, in), a, SideOf(y.ask[a]), Absolute(y.ask[a]), in)
      /\ FillOrder(y, a, in) = Rest(o, a, y.ask[a], o.unfilled[a], y.limit[a])
  BY <1>2, <1>7, FillOrderRests
<1>9. y.ask[a] \in Int /\ y.limit[a] \in Int \cup {NoLimit} /\ SideOf(y.ask[a]) \in Side /\ in.taker \in Int
  BY <1>2, GivenTypes DEF Rows, Amounts, SideOf, Side
<1>10. f \in Rows /\ Tracks(f, in)
  BY <1>2, <1>6, <1>8, <1>9, FillTracks
<1>11. o \in Rows
  BY <1>2, <1>8, <1>9, OrderedEffect
<1>12. o = [f EXCEPT !.unfilled[a] = Left(y, f, a, y.ask[a])]
  BY DEF Ordered, Traded
<1> HIDE DEF o, f
<1>13. Tracks(o, in)
  BY <1>10, <1>12 DEF Tracks, Rows
<1>14. o.unfilled[a] \in Int
  BY <1>11 DEF Rows, Amounts
<1>15. Same(Rest(o, a, y.ask[a], o.unfilled[a], y.limit[a]), o)
  BY <1>9, <1>11, <1>14, RestEffect
<1>16. QED
  BY <1>3, <1>8, <1>13, <1>15 DEF Tracks, Same

LEMMA NarrowTracks ==
  ASSUME NEW in, Given(in), NEW b \in Accounts
  PROVE  Tracks(Narrow(b, in), in)
<1> DEFINE f == NarrowBooks(b, in)
           x == Begin(b, in)
           S == {a \in 0..Width : Tracks(f[a], in)}
<1>1. /\ x \in Rows /\ \A a \in Assets : x.unfilled[a] = 0
      /\ Tracks(x, in)
  BY BeginType DEF Tracks, Rows
<1>2. /\ f[0] = x /\ \A a \in Assets : f[a] = Asset(f[a - 1], a, in)
      /\ Narrow(b, in) = f[Width]
  BY NarrowSteps
<1>3. \A a \in 0..Width : Reaches(x, f[a], a)
  BY NarrowReaches
<1>4. Width \in Nat /\ Assets = 1..Width
  BY WidthAssumption DEF Assets
<1> HIDE DEF f, x
<1>5. 0 \in S
  BY <1>1, <1>2, <1>4
<1>6. ASSUME NEW a \in 1..Width, a - 1 \in S PROVE a \in S
  <2>1. a \in Assets /\ a - 1 \in 0..Width /\ a > a - 1
    BY <1>4
  <2>2. Reaches(x, f[a - 1], a - 1)
    BY <1>3, <2>1
  <2>3. f[a - 1] \in Rows /\ f[a - 1].unfilled[a] = 0
    BY <1>1, <2>1, <2>2 DEF Reaches, Untouched
  <2>4. Tracks(f[a - 1], in)
    BY <1>6
  <2>5. Tracks(Asset(f[a - 1], a, in), in)
    BY <2>1, <2>3, <2>4, AssetTracks
  <2>6. QED
    BY <1>2, <2>1, <2>5
<1>7. 0..Width \subseteq S
  <2> HIDE DEF S
  <2>1. QED
    BY <1>4, <1>5, <1>6, IntervalInduction
<1>8. QED
  BY <1>2, <1>4, <1>7

\* No row takes the book below zero at the bids it showed: only its quotes ruin it
\* (the equity gate of _execute_l2 and _execute_l2_narrow).
THEOREM FillsNeverRuin == Spec => []RowsNeverBreach
<1>1. RowsExplainBook => RowsNeverBreach
  <2> SUFFICES ASSUME RowsExplainBook, row > 0, ~ruined
               PROVE  Marked(book) >= 0
    BY DEF RowsNeverBreach
  <2> DEFINE d == Decided(was, seen, FALSE)
             y == Last(FALSE)
  <2>1. Given(d) /\ Marks(d) = Marks(seen) /\ book = Kept(y) /\ ~y.forced
    BY LastReaches
  <2>2. was \in Accounts
    BY DEF RowsExplainBook
  <2>3. y = Narrow(was, d)
    BY DEF Last, Executed
  <2> HIDE DEF d, y
  <2>4. Tracks(y, d)
    BY <2>1, <2>2, <2>3, NarrowTracks
  <2>5. QED
    BY <2>1, <2>4 DEF Tracks, Kept, Marked
<1>2. QED
  BY <1>1, BookFollowsRows, PTL

-----------------------------------------------------------------------------
(* Caps *)

LEMMA Scales ==
  ASSUME NEW x \in Nat, NEW y \in Nat, x <= y, NEW p \in Nat, NEW r \in Nat, p <= r, NEW u \in Nat
  PROVE  x * p * u * 2 \in Nat /\ y * r * u * 2 \in Nat /\ x * p * u * 2 <= y * r * u * 2
<1>1. \A i, j, k \in Nat : i <= j => i * k <= j * k /\ i * k \in Nat /\ j * k \in Nat
  <2> SUFFICES ASSUME NEW i \in Nat, NEW j \in Nat, NEW k \in Nat, i <= j
               PROVE  i * k <= j * k /\ i * k \in Nat /\ j * k \in Nat
    OBVIOUS
  <2>1. i * k \in Int /\ j * k \in Int /\ (j - i) * k \in Int
    BY Products
  <2>2. (j - i) * k >= 0 /\ i * k >= 0 /\ j * k >= 0
    BY Products
  <2>3. j * k = (j - i) * k + i * k
    <3>1. ((j - i) + i) * k = (j - i) * k + i * k
      BY Products
    <3>2. QED
      BY <3>1
  <2>4. QED
    BY <2>1, <2>2, <2>3
<1>2. x * p <= y * p /\ x * p \in Nat /\ y * p \in Nat
  BY <1>1
<1>3. y * p <= y * r /\ y * r \in Nat
  <2>1. p * y <= r * y /\ r * y \in Nat
    BY <1>1
  <2>2. QED
    BY <2>1
<1>4. x * p <= y * r
  BY <1>2, <1>3
<1>5. x * p * u <= y * r * u /\ x * p * u \in Nat /\ y * r * u \in Nat
  BY <1>1, <1>2, <1>3, <1>4
<1>6. QED
  BY <1>5

LEMMA QuotientFits ==
  \A n \in Nat, m \in Nat \ {0} : n \div m \in Nat /\ (n \div m) * m <= n
OBVIOUS

\* An order that the cap limits, filled in part, leaves a position within the cap at
\* the bid, from one that was.
LEMMA LimitedStaysCapped ==
  ASSUME NEW equity \in Nat, NEW p \in Int, NEW held \in Int,
         NEW ask \in Nat \ {0}, NEW bid \in Nat \ {0}, bid <= ask,
         NEW q \in Int, q = Limited(Cap, equity, p, held, ask, bid, Unit),
         NEW d \in Nat, d <= Absolute(q), ~Exceeds(Cap, equity, held, bid, Unit)
  PROVE  ~Exceeds(Cap, equity, held + Sign(SideOf(q)) * d, bid, Unit)
<1> DEFINE price == TouchOf(ask, bid, p)
           worth(x, at) == x * at * Unit * 2
<1>1. price \in Nat \ {0} /\ bid <= price
  BY DEF TouchOf
<1>2. Cap.num = 1 /\ Cap.den = 2 /\ Unit \in Nat \ {0}
  BY MoneyAssumption DEF Cap
<1>3. \A x \in Int : Magnitude(x) \in Nat
  BY DEF Magnitude
<1>4. \A x, at : Exceeds(Cap, equity, x, at, Unit) <=> worth(Magnitude(x), at) > equity
  BY <1>2 DEF Exceeds
<1>5. \A x, y, at, to \in Nat : x <= y /\ at <= to => /\ worth(x, at) \in Nat /\ worth(y, to) \in Nat
                                                     /\ worth(x, at) <= worth(y, to)
  BY <1>2, Scales
<1> HIDE DEF worth, price
<1>6. worth(Magnitude(held), bid) <= equity
  <2>1. ~(worth(Magnitude(held), bid) > equity)
    BY <1>4
  <2>2. Magnitude(held) \in Nat /\ bid \in Nat /\ Magnitude(held) <= Magnitude(held) /\ bid <= bid
    BY <1>3
  <2>3. worth(Magnitude(held), bid) \in Nat
    BY <1>5, <2>2
  <2>4. QED
    BY <2>1, <2>3
<1>7. ASSUME NEW x \in Int, NEW y \in Int, Magnitude(x) <= Magnitude(y), NEW at \in Nat, bid <= at,
             worth(Magnitude(y), at) <= equity
      PROVE  ~Exceeds(Cap, equity, x, bid, Unit)
  <2>1. worth(Magnitude(x), bid) <= worth(Magnitude(y), at)
    BY <1>3, <1>5, <1>7
  <2>2. worth(Magnitude(x), bid) \in Nat /\ worth(Magnitude(y), at) \in Nat
    BY <1>3, <1>5, <1>7
  <2>3. ~(worth(Magnitude(x), bid) > equity)
    BY <1>7, <2>1, <2>2
  <2>4. QED
    BY <1>4, <2>3
<1> DEFINE next == held + Sign(SideOf(q)) * d
<1>8. next \in Int /\ (Magnitude(next) <= Magnitude(held) \/ Magnitude(next) <= Magnitude(held + q))
  BY DEF Sign, SideOf, Absolute, Magnitude
<1>9. q = 0 => next = held
  BY DEF Sign, SideOf, Absolute
<1> HIDE DEF next
<1>10. ASSUME q # 0 PROVE worth(Magnitude(held + q), price) <= equity
  <2>1. p # 0
    BY <1>10 DEF Limited
  <2>2. CASE Exceeds(Cap, equity, held + p, price, Unit)
    <3> DEFINE most == Affordable(Cap, equity, price, Unit)
    <3>1. q = Signed(most, held + p) - held
      BY <2>1, <2>2 DEF Limited, price
    <3>2. 2 * price * Unit \in Nat \ {0} /\ most = equity \div (2 * price * Unit)
      <4>1. \A x, y \in Nat \ {0} : x * y \in Nat \ {0}
        OBVIOUS
      <4>2. 2 * price \in Nat \ {0}
        BY <1>1
      <4>3. 2 * price * Unit \in Nat \ {0}
        BY <1>2, <4>1, <4>2
      <4>4. QED
        BY <1>2, <4>3 DEF Affordable
    <3>3. most \in Nat /\ most * (2 * price * Unit) <= equity
      BY <3>2, QuotientFits
    <3> HIDE DEF most
    <3>4. held + q = Signed(most, held + p) /\ Magnitude(Signed(most, held + p)) = most
      BY <3>1, <3>3 DEF Signed, Magnitude
    <3>5. worth(most, price) = most * (2 * price * Unit)
      BY <1>1, <1>2, <3>3 DEF worth
    <3>6. QED
      BY <3>3, <3>4, <3>5
  <2>3. CASE ~Exceeds(Cap, equity, held + p, price, Unit)
    <3>1. q = p
      BY <2>3 DEF Limited, price
    <3>2. ~(worth(Magnitude(held + q), price) > equity)
      BY <1>4, <2>3, <3>1
    <3>3. /\ Magnitude(held + q) \in Nat /\ Magnitude(held + q) <= Magnitude(held + q)
          /\ price \in Nat /\ price <= price
      BY <1>1, <1>3
    <3>4. worth(Magnitude(held + q), price) \in Nat
      BY <1>5, <3>3
    <3>5. QED
      BY <3>2, <3>4
  <2>4. QED
    BY <2>2, <2>3
<1>11. CASE Magnitude(next) <= Magnitude(held)
  BY <1>6, <1>7, <1>8, <1>11 DEF next
<1>12. CASE ~(Magnitude(next) <= Magnitude(held))
  <2>1. q # 0 /\ Magnitude(next) <= Magnitude(held + q) /\ held + q \in Int
    BY <1>3, <1>8, <1>9, <1>12
  <2>2. ~Exceeds(Cap, equity, next, bid, Unit)
    BY <1>1, <1>7, <1>8, <1>10, <2>1
  <2>3. QED
    BY <2>2 DEF next
<1>13. QED
  BY <1>11, <1>12

\* A position within its cap at the row's bids is within it after the row, unless
\* an order of an earlier row rests beside the new one (FractionalLimitPolicy.decide).
THEOREM CapsHold == Spec => []PositionsAreCapped
<1>1. RowsExplainBook => PositionsAreCapped
  <2> SUFFICES ASSUME RowsExplainBook, row > 0, config.risk = "limit", ~ruined,
                      NEW a \in Assets, Capped(was, a), \A side \in Side : was.work[side][a].qty = 0
               PROVE  Capped(book, a)
    BY DEF PositionsAreCapped
  <2> DEFINE d == Decided(was, seen, FALSE)
             x == Begin(was, d)
             y == Last(FALSE)
             equity == Total(was.cash, Value(was.balance, Marks(seen)))
             p == Proposed(seen.signal, FALSE)
             held == was.balance[a]
             q == d.order[a]
             bid == Marks(seen)[a]
             ask == Asks(seen)[a]
  <2>1. /\ Given(d) /\ x \in Rows /\ Reaches(x, y, Width) /\ book = Kept(y) /\ ~y.forced
        /\ Marks(d) = Marks(seen)
    BY LastReaches
  <2>2. was \in Accounts /\ seen \in Asked /\ config \in Configs
    BY DEF RowsExplainBook
  <2>3. Asks(d) = Asks(seen)
    BY DEF Asks, Decided
  <2>4. p \in Amounts
    <3>1. seen.signal \in Amounts
      BY <2>2, FrameAssumption DEF Asked, Amounts
    <3>2. QED
      BY <3>1, ThresholdPaths DEF Proposed
  <2>5. d.order = FractionalLimit(Cap, equity, p, was.balance, Asks(seen), Marks(seen), Unit)
    BY DEF Decided, Effective
  <2>6. Cap.num = 1
    BY DEF Cap
  <2> HIDE DEF d, p
  <2>7. /\ ~x.forced /\ x.ask = d.order /\ x.balance = was.balance /\ x.work = was.work
        /\ equity \in Int /\ equity > 0
    <3>1. ~x.forced
      BY <2>1 DEF Reaches
    <3>2. /\ x.ask = d.order /\ x.balance = was.balance /\ x.work = was.work
      BY <2>1, <2>2, <3>1, BeginType
    <3>3. x.equity = equity /\ x.forced = Ruined(equity)
      BY <2>1 DEF Begin
    <3>4. x.equity \in Int
      BY <2>1 DEF Rows
    <3> HIDE DEF x, equity
    <3>5. equity \in Int /\ ~(equity <= 0)
      BY <3>1, <3>3, <3>4 DEF Ruined
    <3>6. QED
      BY <3>1, <3>2, <3>5
  <2>8. /\ bid \in Nat \ {0} /\ ask \in Nat \ {0} /\ bid <= ask
    <3>1. /\ Marks(d) \in Amounts /\ Asks(d) \in Amounts
          /\ \A c \in Assets : 0 < Marks(d)[c] /\ Marks(d)[c] <= Asks(d)[c]
      BY <2>1, GivenTypes
    <3>2. QED
      BY <2>1, <2>3, <3>1 DEF Amounts
  <2>9. held \in Int /\ p[a] \in Int /\ q \in Int
    BY <2>1, <2>2, <2>4 DEF Accounts, Amounts, Given
  <2> HIDE DEF x, y, equity
  <2>10. q = Limited(Cap, equity, p[a], held, ask, bid, Unit)
    <3>1. DOMAIN p = Assets
      BY <2>4 DEF Amounts
    <3>2. ~(Cap.num * equity <= 0)
      BY <2>6, <2>7
    <3>3. QED
      BY <2>5, <3>1, <3>2 DEF FractionalLimit
  <2>11. PICK e \in Nat : e <= Absolute(q) /\ y.balance[a] = held + Sign(SideOf(q)) * e
    <3>1. Executes(x, y, a)
      BY <2>1, WidthAssumption DEF Reaches, Assets
    <3>2. PICK bought \in Nat, sold \in Nat, e \in Nat : Ends1(x, y, a, bought, sold, e)
      BY <3>1 DEF Executes
    <3>3. \A s \in Side : (IF x.cancel[a] THEN NoOrder ELSE x.work[s][a]).qty = 0
      BY <2>7 DEF NoOrder
    <3>4. bought <= 0 /\ sold <= 0 /\ e <= Absolute(q)
      <4>1. "buy" \in Side /\ "sell" \in Side
        BY DEF Side
      <4>2. /\ bought <= (IF x.cancel[a] THEN NoOrder ELSE x.work["buy"][a]).qty
            /\ sold <= (IF x.cancel[a] THEN NoOrder ELSE x.work["sell"][a]).qty
            /\ e <= Absolute(q)
        BY <2>7, <3>2 DEF Ends1
      <4>3. QED
        BY <3>3, <4>1, <4>2
    <3>5. y.balance[a] = held + bought - sold + Sign(SideOf(q)) * e
      BY <2>7, <3>2 DEF Ends1
    <3>6. Sign(SideOf(q)) * e \in Int
      BY DEF Sign
    <3>7. y.balance[a] = held + Sign(SideOf(q)) * e
      BY <2>9, <3>4, <3>5, <3>6
    <3>8. QED
      BY <3>4, <3>7
  <2>12. equity \in Nat /\ ~Exceeds(Cap, equity, held, bid, Unit)
    BY <2>7 DEF Capped, equity
  <2> HIDE DEF held, q, bid, ask
  <2>13. ~Exceeds(Cap, equity, held + Sign(SideOf(q)) * e, bid, Unit)
    BY <2>8, <2>9, <2>10, <2>11, <2>12, LimitedStaysCapped
  <2>14. QED
    BY <2>1, <2>11, <2>13 DEF Capped, equity, bid, Kept
<1>2. QED
  BY <1>1, BookFollowsRows, PTL

-----------------------------------------------------------------------------
(* The units of a ladder *)

LEMMA SumSame ==
  ASSUME NEW n \in Nat, NEW f, NEW g, \A i \in 1..n : f[i] = g[i]
  PROVE  \A i \in 0..n : Sum(i, f) = Sum(i, g)
<1> DEFINE S == {i \in 0..n : Sum(i, f) = Sum(i, g)}
<1>1. 0 \in S
  BY SumSteps
<1>2. ASSUME NEW i \in 1..n, i - 1 \in S PROVE i \in S
  <2>1. Sum(i, f) = Sum(i - 1, f) + f[i] /\ Sum(i, g) = Sum(i - 1, g) + g[i]
    BY SumSteps
  <2>2. QED
    BY <1>2, <2>1
<1>3. 0..n \subseteq S
  <2> HIDE DEF S
  <2>1. QED
    BY <1>1, <1>2, IntervalInduction
<1>4. QED
  BY <1>3

LEMMA SumGrows ==
  ASSUME NEW n \in Nat, NEW f, \A i \in 1..n : f[i] \in Nat
  PROVE  /\ \A i \in 0..n : Sum(i, f) \in Nat
         /\ \A h, i \in 0..n : h <= i => Sum(h, f) <= Sum(i, f)
<1>1. Sum(0, f) = 0 /\ \A i \in 1..n : Sum(i, f) = Sum(i - 1, f) + f[i]
  BY SumSteps
<1>2. \A i \in 0..n : Sum(i, f) \in Int
  BY SumType
<1>3. ASSUME NEW h \in 0..n PROVE \A i \in 0..n : h <= i => Sum(h, f) <= Sum(i, f)
  <2> DEFINE S == {i \in 0..n : h <= i => Sum(h, f) <= Sum(i, f)}
  <2>1. 0 \in S
    BY <1>2
  <2>2. ASSUME NEW i \in 1..n, i - 1 \in S PROVE i \in S
    <3>1. CASE h = i
      BY <1>2, <3>1
    <3>2. CASE h # i
      <4>1. i - 1 \in 0..n /\ f[i] \in Nat /\ Sum(i, f) = Sum(i - 1, f) + f[i]
        BY <1>1
      <4>2. Sum(i, f) \in Int /\ Sum(i - 1, f) \in Int /\ Sum(h, f) \in Int
        BY <1>2, <4>1
      <4>3. h <= i => h <= i - 1
        BY <3>2
      <4>4. h <= i => Sum(h, f) <= Sum(i - 1, f)
        BY <2>2, <4>3
      <4>5. QED
        BY <4>1, <4>2, <4>4
    <3>3. QED
      BY <3>1, <3>2
  <2>3. 0..n \subseteq S
    <3> HIDE DEF S
    <3>1. QED
      BY <2>1, <2>2, IntervalInduction
  <2>4. QED
    BY <2>3
<1>4. \A i \in 0..n : Sum(i, f) >= 0
  BY <1>1, <1>3
<1>5. QED
  BY <1>2, <1>3, <1>4

\* m summands of p each, after the first n.
Alike(f, n, m, p) == \A i \in 1..m : f[n + i] = p

LEMMA SumFlat ==
  ASSUME NEW n \in Nat, NEW m \in Nat, NEW p \in Int, NEW f, Sum(n, f) \in Int, Alike(f, n, m, p)
  PROVE  Sum(n + m, f) = Sum(n, f) + m * p
<1> DEFINE S == {i \in 0..m : Sum(n + i, f) = Sum(n, f) + i * p}
<1>1. 0 \in S
  BY 0 * p = 0
<1>2. ASSUME NEW i \in 1..m, i - 1 \in S PROVE i \in S
  <2>1. n + i \in Nat \ {0} /\ (n + i) - 1 = n + (i - 1)
    OBVIOUS
  <2>2. Sum(n + i, f) = Sum(n + (i - 1), f) + p
    BY <2>1, SumSteps DEF Alike
  <2>3. Sum(n + (i - 1), f) = Sum(n, f) + (i - 1) * p
    BY <1>2
  <2>4. i * p = (i - 1) * p + p /\ (i - 1) * p \in Int
    <3>1. ((i - 1) + 1) * p = (i - 1) * p + 1 * p
      BY Products
    <3>2. (i - 1) * p \in Int
      BY Products
    <3>3. QED
      BY <3>1, <3>2
  <2>5. QED
    BY <2>2, <2>3, <2>4
<1>3. 0..m \subseteq S
  <2> HIDE DEF S
  <2>1. QED
    BY <1>1, <1>2, IntervalInduction
<1>4. m \in S
  BY <1>3
<1>5. QED
  BY <1>4

Vols(leg) == [i \in 1..Levels |-> leg[i].vol]

Within(leg, limit, side, i) ==
  limit = NoLimit \/ (IF side = "buy" THEN leg[i].px <= limit ELSE leg[i].px >= limit)

BestFirst(leg, side) ==
  \A i \in 1..Levels : i > 1 => IF side = "buy" THEN leg[i].px >= leg[i - 1].px
                                ELSE leg[i].px <= leg[i - 1].px

\* The levels within the limit are the first ones: what they show up to level i is
\* all that is shown up to there, or all that they show.
LEMMA LimitCutsTheLadder ==
  ASSUME NEW leg \in Legs, NEW side \in Side, NEW limit \in Int \cup {NoLimit}, BestFirst(leg, side)
  PROVE  LET shown(i) == Sum(i, Vols(leg))
             open(i) == Sum(i, Eligible(leg, limit, side))
         IN  \A i \in 0..Levels :
               /\ shown(i) \in Nat /\ open(i) \in Nat /\ open(i) = Least(shown(i), open(Levels))
               /\ i > 0 /\ ~Within(leg, limit, side, i) => open(Levels) = open(i - 1)
<1> DEFINE v == Vols(leg)
           e == Eligible(leg, limit, side)
           ok(i) == Within(leg, limit, side, i)
<1>1. Levels \in Nat /\ Levels \in 0..Levels
  BY LevelsAssumption
<1>2. \A i \in 1..Levels : leg[i].px \in Int /\ v[i] \in Nat /\ e[i] = IF ok(i) THEN v[i] ELSE 0
  BY DEF Legs, Vols, Eligible, Within
<1>3. \A i \in 1..Levels : i > 1 /\ ok(i) => ok(i - 1)
  <2> SUFFICES ASSUME NEW i \in 1..Levels, i > 1, ok(i) PROVE ok(i - 1)
    OBVIOUS
  <2>1. i - 1 \in 1..Levels /\ leg[i].px \in Int /\ leg[i - 1].px \in Int
    BY <1>1, <1>2
  <2>2. QED
    BY <2>1 DEF Within, BestFirst
<1>4. \A i \in 1..Levels : e[i] \in Nat /\ e[i] <= v[i]
  BY <1>2
<1> HIDE DEF v, e, ok
<1>5. /\ Sum(0, v) = 0 /\ Sum(0, e) = 0
      /\ \A i \in 1..Levels : /\ Sum(i, v) = Sum(i - 1, v) + v[i] /\ Sum(i, e) = Sum(i - 1, e) + e[i]
  BY SumSteps
<1>6. /\ \A i \in 0..Levels : Sum(i, v) \in Nat /\ Sum(i, e) \in Nat
      /\ \A h, i \in 0..Levels : h <= i => Sum(h, v) <= Sum(i, v) /\ Sum(h, e) <= Sum(i, e)
  BY <1>1, <1>2, <1>4, SumGrows
<1>7. \A i \in 0..Levels : Sum(i, e) <= Sum(i, v) /\ (i = 0 \/ ok(i) => Sum(i, e) = Sum(i, v))
  <2> DEFINE S == {i \in 0..Levels : /\ Sum(i, e) <= Sum(i, v)
                                     /\ i = 0 \/ ok(i) => Sum(i, e) = Sum(i, v)}
  <2>1. 0 \in S
    BY <1>1, <1>5
  <2>2. ASSUME NEW i \in 1..Levels, i - 1 \in S PROVE i \in S
    <3>1. i - 1 \in 0..Levels /\ i \in 0..Levels /\ i # 0 /\ (i - 1 = 0 \/ i > 1)
      BY <1>1
    <3>2. /\ Sum(i, e) \in Nat /\ Sum(i, v) \in Nat /\ Sum(i - 1, e) \in Nat /\ Sum(i - 1, v) \in Nat
          /\ e[i] \in Nat /\ v[i] \in Nat /\ e[i] <= v[i]
          /\ Sum(i, v) = Sum(i - 1, v) + v[i] /\ Sum(i, e) = Sum(i - 1, e) + e[i]
      BY <1>2, <1>4, <1>5, <1>6, <3>1
    <3>3. ok(i) => e[i] = v[i] /\ Sum(i - 1, e) = Sum(i - 1, v)
      BY <1>2, <1>3, <2>2, <3>1
    <3>4. Sum(i - 1, e) <= Sum(i - 1, v)
      BY <2>2
    <3>5. QED
      BY <3>1, <3>2, <3>3, <3>4
  <2>3. 0..Levels \subseteq S
    <3> HIDE DEF S
    <3>1. QED
      BY <1>1, <2>1, <2>2, IntervalInduction
  <2>4. QED
    BY <2>3
<1>8. ASSUME NEW i \in 1..Levels, ~ok(i) PROVE Sum(Levels, e) = Sum(i - 1, e)
  <2> DEFINE S == {h \in 0..Levels : h >= i => ~ok(h) /\ Sum(h, e) = Sum(i - 1, e)}
  <2>1. 0 \in S
    BY <1>1
  <2>2. ASSUME NEW h \in 1..Levels, h - 1 \in S PROVE h \in S
    <3>1. CASE h = i
      <4>1. e[i] = 0 /\ Sum(i, e) = Sum(i - 1, e) + e[i] /\ Sum(i - 1, e) \in Nat
        <5>1. i - 1 \in 0..Levels
          BY <1>1
        <5>2. QED
          BY <1>2, <1>5, <1>6, <1>8, <5>1
      <4>2. QED
        BY <1>8, <3>1, <4>1
    <3>2. CASE h > i
      <4>1. h - 1 >= i /\ h > 1 /\ i - 1 \in 0..Levels
        BY <1>1, <3>2
      <4>2. ~ok(h - 1) /\ Sum(h - 1, e) = Sum(i - 1, e)
        BY <2>2, <4>1
      <4>3. ~ok(h) /\ e[h] = 0
        BY <1>2, <1>3, <4>1, <4>2
      <4>4. Sum(h, e) = Sum(h - 1, e) + e[h] /\ Sum(i - 1, e) \in Nat
        BY <1>5, <1>6, <4>1
      <4>5. QED
        BY <4>2, <4>3, <4>4
    <3>3. CASE h < i
      BY <3>3
    <3>4. QED
      BY <3>1, <3>2, <3>3
  <2>3. 0..Levels \subseteq S
    <3> HIDE DEF S
    <3>1. QED
      BY <1>1, <2>1, <2>2, IntervalInduction
  <2>4. Levels \in S /\ Levels >= i
    BY <1>1, <2>3
  <2>5. QED
    BY <2>4
<1>9. ASSUME NEW i \in 0..Levels PROVE Sum(i, e) = Least(Sum(i, v), Sum(Levels, e))
  <2>1. /\ Sum(i, e) \in Nat /\ Sum(i, v) \in Nat /\ Sum(Levels, e) \in Nat
        /\ Sum(i, e) <= Sum(i, v) /\ Sum(i, e) <= Sum(Levels, e)
    BY <1>1, <1>6, <1>7
  <2>2. CASE i = 0 \/ ok(i)
    BY <1>7, <2>1, <2>2 DEF Least
  <2>3. CASE ~(i = 0 \/ ok(i))
    <3>1. i \in 1..Levels /\ i - 1 \in 0..Levels /\ i - 1 <= i
      BY <1>1, <2>3
    <3>2. Sum(Levels, e) = Sum(i - 1, e) /\ Sum(i - 1, e) <= Sum(i, e)
      BY <1>6, <1>8, <2>3, <3>1
    <3>3. QED
      BY <2>1, <3>2 DEF Least
  <2>4. QED
    BY <2>2, <2>3
<1>10. \A i \in 0..Levels :
         /\ Sum(i, v) \in Nat /\ Sum(i, e) \in Nat /\ Sum(i, e) = Least(Sum(i, v), Sum(Levels, e))
         /\ i > 0 /\ ~ok(i) => Sum(Levels, e) = Sum(i - 1, e)
  BY <1>6, <1>8, <1>9
<1>11. QED
  BY <1>10 DEF v, e, ok

\* A unit costs what the level asks that shows it.
LEMMA UnitOfLevel ==
  ASSUME NEW leg \in Legs, NEW i \in 1..Levels, NEW k \in Nat,
         Sum(i - 1, Vols(leg)) < k, k <= Sum(i, Vols(leg))
  PROVE  UnitPrice(leg, k) = leg[i].px
<1> DEFINE v == Vols(leg)
           At(j) == Sum(j, v) >= k /\ Sum(j - 1, v) < k
<1>1. Levels \in Nat /\ \A j \in 1..Levels : v[j] \in Nat
  BY LevelsAssumption DEF Legs, Vols
<1> HIDE DEF v
<1>2. /\ \A j \in 0..Levels : Sum(j, v) \in Nat
      /\ \A h, j \in 0..Levels : h <= j => Sum(h, v) <= Sum(j, v)
  BY <1>1, SumGrows
<1>3. \A j \in 1..Levels : j \in 0..Levels /\ j - 1 \in 0..Levels
  BY <1>1
<1>4. At(i)
  BY <1>2, <1>3 DEF v
<1>5. ASSUME NEW j \in 1..Levels, At(j) PROVE j = i
  <2>1. /\ Sum(i, v) \in Nat /\ Sum(i - 1, v) \in Nat /\ Sum(j, v) \in Nat /\ Sum(j - 1, v) \in Nat
        /\ i <= j - 1 => Sum(i, v) <= Sum(j - 1, v)
        /\ j <= i - 1 => Sum(j, v) <= Sum(i - 1, v)
    BY <1>2, <1>3
  <2>2. ~(i <= j - 1) /\ ~(j <= i - 1)
    BY <1>4, <1>5, <2>1
  <2>3. QED
    BY <2>2
<1> HIDE DEF At
<1>6. (CHOOSE j \in 1..Levels : At(j)) = i
  BY <1>4, <1>5
<1>7. QED
  BY <1>6 DEF UnitPrice, At, v, Vols

\* Walking a ladder takes its best units, no more than are needed, pays the price of
\* each, and the last of them is within the limit.
LEMMA WalkTakesBestUnits ==
  ASSUME NEW leg \in Legs, NEW side \in Side, NEW limit \in Int \cup {NoLimit},
         BestFirst(leg, side), NEW need \in Nat
  PROVE  LET take == Walk(leg, need, limit, side)
             n == Filled(take)
         IN  /\ n \in Nat /\ n <= need /\ n <= Sum(Levels, Vols(leg))
             /\ Cost(take, leg) = Sum(n, [k \in 1..n |-> UnitPrice(leg, k)])
             /\ limit # NoLimit /\ n > 0 =>
                  IF side = "buy" THEN UnitPrice(leg, n) <= limit ELSE UnitPrice(leg, n) >= limit
<1> DEFINE v == Vols(leg)
           e == Eligible(leg, limit, side)
           take == Walk(leg, need, limit, side)
           n == Filled(take)
           paid == [i \in 1..Levels |-> take[i] * leg[i].px]
           unit == [k \in 1..n |-> UnitPrice(leg, k)]
<1>1. Levels \in Nat /\ Levels \in 0..Levels
  BY LevelsAssumption
<1>2. e \in [1..Levels -> Nat] /\ take = Taken(need, e)
  BY EligibleType DEF Walk
<1>3. \A i \in 0..Levels :
        /\ Sum(i, v) \in Nat /\ Sum(i, e) \in Nat /\ Sum(i, e) = Least(Sum(i, v), Sum(Levels, e))
        /\ i > 0 /\ ~Within(leg, limit, side, i) => Sum(Levels, e) = Sum(i - 1, e)
  BY LimitCutsTheLadder
<1>4. \A i \in 1..Levels : leg[i].px \in Int /\ v[i] \in Nat
  BY DEF Legs, Vols
<1> HIDE DEF e, take
<1>5. take \in [1..Levels -> Nat] /\ \A i \in 0..Levels : Sum(i, take) = Least(need, Sum(i, e))
  BY <1>2, TakenBounds
<1>6. n = Sum(Levels, take)
  BY DEF Filled
<1> HIDE DEF n, v
<1>7. n \in Nat /\ n = Least(need, Sum(Levels, e)) /\ Sum(Levels, e) <= Sum(Levels, v)
  <2>1. /\ Sum(Levels, v) \in Nat /\ Sum(Levels, e) \in Nat
        /\ Sum(Levels, e) = Least(Sum(Levels, v), Sum(Levels, e))
        /\ Sum(Levels, take) = Least(need, Sum(Levels, e))
    BY <1>1, <1>3, <1>5
  <2>2. QED
    BY <1>6, <2>1 DEF Least
<1>8. n <= need /\ n <= Sum(Levels, v)
  <2>1. Sum(Levels, v) \in Nat /\ Sum(Levels, e) \in Nat
    BY <1>1, <1>3
  <2>2. QED
    BY <1>7, <2>1 DEF Least
<1>9. \A i \in 0..Levels : Sum(i, take) = Least(n, Sum(i, v))
  <2> SUFFICES ASSUME NEW i \in 0..Levels PROVE Sum(i, take) = Least(n, Sum(i, v))
    OBVIOUS
  <2>1. /\ Sum(i, take) = Least(need, Sum(i, e)) /\ Sum(i, e) = Least(Sum(i, v), Sum(Levels, e))
        /\ Sum(i, v) \in Nat /\ Sum(i, e) \in Nat /\ Sum(Levels, e) \in Nat
    BY <1>1, <1>3, <1>5
  <2>2. QED
    BY <1>7, <2>1 DEF Least
<1>10. \A i \in 1..Levels : /\ i \in 0..Levels /\ i - 1 \in 0..Levels
                            /\ Sum(i, v) = Sum(i - 1, v) + v[i]
                            /\ Sum(i, take) = Sum(i - 1, take) + take[i]
                            /\ Sum(i, paid) = Sum(i - 1, paid) + take[i] * leg[i].px
  <2>1. \A i \in 1..Levels : paid[i] = take[i] * leg[i].px
    OBVIOUS
  <2> HIDE DEF paid
  <2>2. QED
    BY <1>1, <2>1, SumSteps
<1>11. ASSUME NEW i \in 1..Levels, NEW k \in Nat, Sum(i - 1, take) < k, k <= Sum(i, take)
       PROVE  Sum(i - 1, v) < k /\ k <= Sum(i, v)
  <2>1. /\ Sum(i, take) = Least(n, Sum(i, v)) /\ Sum(i - 1, take) = Least(n, Sum(i - 1, v))
        /\ Sum(i, v) \in Nat /\ Sum(i - 1, v) \in Nat
    BY <1>3, <1>9, <1>10
  <2>2. QED
    BY <1>7, <1>11, <2>1 DEF Least
<1>12. \A i \in 1..Levels, k \in Nat :
         Sum(i - 1, take) < k /\ k <= Sum(i, take) => UnitPrice(leg, k) = leg[i].px
  BY <1>11, UnitOfLevel DEF v
<1>13. \A i \in 0..Levels : Sum(i, paid) = Sum(Sum(i, take), unit) /\ Sum(i, paid) \in Int
  <2> DEFINE S == {i \in 0..Levels : Sum(i, paid) = Sum(Sum(i, take), unit) /\ Sum(i, paid) \in Int}
  <2>1. 0 \in S
    <3> HIDE DEF paid, unit
    <3>1. Sum(0, take) = 0 /\ Sum(0, paid) = 0 /\ Sum(0, unit) = 0
      BY SumSteps
    <3>2. QED
      BY <1>1, <3>1
  <2>2. ASSUME NEW i \in 1..Levels, i - 1 \in S PROVE i \in S
    <3> DEFINE t == Sum(i - 1, take)
    <3>1. /\ t \in Nat /\ take[i] \in Nat /\ Sum(i, take) = t + take[i] /\ t + take[i] <= n
          /\ leg[i].px \in Int
      <4>1. /\ Sum(i - 1, take) = Least(n, Sum(i - 1, v)) /\ Sum(i - 1, v) \in Nat
            /\ Sum(i, take) = Least(n, Sum(i, v)) /\ Sum(i, v) \in Nat
        BY <1>3, <1>9, <1>10
      <4>2. take[i] \in Nat /\ leg[i].px \in Int /\ Sum(i, take) = Sum(i - 1, take) + take[i]
        BY <1>4, <1>5, <1>10
      <4>3. Sum(i - 1, take) \in Nat /\ Sum(i, take) <= n
        BY <1>7, <4>1 DEF Least
      <4>4. QED
        BY <4>2, <4>3
    <3>2. ASSUME NEW j \in 1..take[i] PROVE unit[t + j] = leg[i].px
      <4>1. t + j \in Nat /\ t < t + j /\ t + j <= t + take[i] /\ t + j \in 1..n
        BY <1>7, <3>1
      <4>2. UnitPrice(leg, t + j) = leg[i].px
        BY <1>12, <3>1, <4>1
      <4>3. QED
        BY <4>1, <4>2
    <3> HIDE DEF unit, paid, t
    <3>3. Sum(t, unit) = Sum(i - 1, paid) /\ Sum(t, unit) \in Int
      BY <2>2 DEF t
    <3>4. Sum(t + take[i], unit) = Sum(t, unit) + take[i] * leg[i].px
      <4> DEFINE m == take[i]
                 p == leg[i].px
      <4>1. m \in Nat /\ p \in Int /\ Alike(unit, t, m, p)
        BY <3>1, <3>2 DEF Alike
      <4> HIDE DEF m, p
      <4>2. t \in Nat /\ Sum(t, unit) \in Int
        BY <3>1, <3>3
      <4>3. Sum(t + m, unit) = Sum(t, unit) + m * p
        BY <4>1, <4>2, SumFlat
      <4>4. QED
        BY <4>3 DEF m, p
    <3>5. take[i] * leg[i].px \in Int
      BY <3>1, Products
    <3>6. Sum(i, paid) = Sum(i - 1, paid) + take[i] * leg[i].px
      BY <1>10
    <3>7. QED
      BY <3>1, <3>3, <3>4, <3>5, <3>6
  <2>3. 0..Levels \subseteq S
    <3> HIDE DEF S
    <3>1. QED
      BY <1>1, <2>1, <2>2, IntervalInduction
  <2>4. QED
    BY <2>3
<1>14. Cost(take, leg) = Sum(n, unit)
  <2>1. Cost(take, leg) = Sum(Levels, paid)
    BY DEF Cost
  <2> HIDE DEF paid, unit
  <2>2. QED
    BY <1>1, <1>6, <1>13, <2>1
<1>15. ASSUME limit # NoLimit, n > 0
       PROVE  IF side = "buy" THEN UnitPrice(leg, n) <= limit ELSE UnitPrice(leg, n) >= limit
  <2> DEFINE S == {i \in 0..Levels : Sum(i, take) < n}
  <2>1. PICK i \in 1..Levels : Sum(i - 1, take) < n /\ n <= Sum(i, take)
    <3>1. CASE \A i \in 1..Levels : i - 1 \in S => i \in S
      <4>1. 0 \in S
        BY <1>1, <1>15, SumSteps
      <4>2. 0..Levels \subseteq S
        <5> HIDE DEF S
        <5>1. QED
          BY <1>1, <3>1, <4>1, IntervalInduction
      <4>3. Sum(Levels, take) < n
        BY <1>1, <4>2
      <4>4. QED
        BY <1>6, <1>7, <4>3
    <3>2. CASE ~(\A i \in 1..Levels : i - 1 \in S => i \in S)
      <4>1. PICK i \in 1..Levels : i - 1 \in S /\ i \notin S
        BY <3>2
      <4>2. Sum(i - 1, take) < n /\ ~(Sum(i, take) < n)
        BY <1>10, <4>1
      <4>3. Sum(i, take) \in Nat
        <5>1. Sum(i, take) = Least(n, Sum(i, v)) /\ Sum(i, v) \in Nat
          BY <1>3, <1>9, <1>10
        <5>2. QED
          BY <1>7, <5>1 DEF Least
      <4>4. QED
        BY <1>7, <4>2, <4>3
    <3>3. QED
      BY <3>1, <3>2
  <2>2. UnitPrice(leg, n) = leg[i].px
    BY <1>7, <1>12, <2>1
  <2>3. Within(leg, limit, side, i)
    <3>1. SUFFICES ASSUME ~Within(leg, limit, side, i) PROVE FALSE
      OBVIOUS
    <3>2. i > 0 /\ i \in 0..Levels /\ i - 1 \in 0..Levels
      BY <1>1
    <3>3. Sum(Levels, e) = Sum(i - 1, e)
      BY <1>3, <3>1, <3>2
    <3>4. Sum(i - 1, take) = n
      BY <1>5, <1>7, <3>2, <3>3
    <3>5. QED
      BY <1>7, <2>1, <3>4
  <2>4. QED
    BY <1>15, <2>2, <2>3 DEF Within
<1> HIDE DEF unit
<1>16. QED
  BY <1>7, <1>8, <1>14, <1>15 DEF n, take, v, unit

-----------------------------------------------------------------------------
(* The columns of a row *)

\* y reports for asset c what x does.
Unreported(x, y, c) == y.order[c] = x.order[c] /\ y.cost[c] = x.cost[c]

LEMMA FillColumns ==
  ASSUME NEW in, Given(in), NEW x \in Rows, NEW a \in Assets, NEW side \in Side,
         NEW need, NEW take, Takes(take, a, side, need, in), NEW rate \in Int
  PROVE  LET y == Fill(x, a, side, take, rate, in)
         IN  /\ y \in Rows /\ \A c \in Assets \ {a} : Unreported(x, y, c)
             /\ \/ Unreported(x, y, a)
                \/ /\ Filled(take) # 0 /\ y.order[a] = x.order[a] + Sign(side) * Filled(take)
                   /\ y.cost[a] = x.cost[a] + Cost(take, LegOf(in.ladder[a], side))
<1> DEFINE signed == Sign(side) * Filled(take)
           cost == Cost(take, LegOf(in.ladder[a], side))
           y == Fill(x, a, side, take, rate, in)
<1>1. /\ y \in Rows /\ signed \in Int /\ cost \in Int
      /\ y = x \/ (/\ y # x /\ Passes(x, signed, cost, rate, Marks(in)[a])
                   /\ Exchanged(x, y, a, signed, cost, rate, Marks(in)[a]))
  BY FillCases
<1>2. Filled(take) = 0 => signed = 0
  BY DEF Sign
<1> HIDE DEF signed, cost, y
<1>3. x.order \in Amounts /\ x.cost \in Amounts
  BY DEF Rows
<1>4. CASE y = x
  BY <1>1, <1>4 DEF Unreported, y
<1>5. CASE y # x
  <2>1. /\ y.order = [x.order EXCEPT ![a] = @ + signed] /\ y.cost = [x.cost EXCEPT ![a] = @ + cost]
        /\ signed # 0
    BY <1>1, <1>5 DEF Exchanged, Passes
  <2>2. y.order[a] = x.order[a] + signed /\ y.cost[a] = x.cost[a] + cost
    BY <1>3, <2>1 DEF Amounts
  <2>3. \A c \in Assets \ {a} : Unreported(x, y, c)
    BY <1>3, <2>1 DEF Amounts, Unreported
  <2>4. QED
    BY <1>1, <1>2, <2>1, <2>2, <2>3 DEF signed, cost, y
<1>6. QED
  BY <1>4, <1>5

LEMMA SettleWorkingColumns ==
  ASSUME NEW in, Given(in), NEW x \in Rows, NEW a \in Assets, NEW side \in Side,
         NEW take, Takes(take, a, side, x.work[side][a].qty, in)
  PROVE  \A c \in Assets \ {a} : Unreported(x, SettleWorking(x, a, side, take, in), c)
<1> DEFINE y == Fill(x, a, side, take, in.maker, in)
           z == SettleWorking(x, a, side, take, in)
<1>1. in.maker \in Int
  BY GivenTypes
<1>2. y \in Rows /\ \A c \in Assets \ {a} : Unreported(x, y, c)
  BY <1>1, FillColumns
<1>3. z = IF y = x THEN x ELSE [y EXCEPT !.work[side][a].qty = @ - Filled(take)]
  BY DEF SettleWorking, Worked
<1> HIDE DEF y, z
<1>4. z.order = y.order /\ z.cost = y.cost
  BY <1>2, <1>3 DEF Rows
<1>5. QED
  BY <1>2, <1>4 DEF Unreported, z

\* What y reports of the order for asset c that x holds: nothing, or what the leg
\* gave for it.
Trades(x, y, c, in) ==
  LET take == OrderTake(x, c, in)
      side == SideOf(x.ask[c])
  IN  \/ y.order[c] = 0 /\ y.cost[c] = 0
      \/ /\ Filled(take) # 0 /\ y.order[c] = Sign(side) * Filled(take)
         /\ y.cost[c] = Cost(take, LegOf(in.ladder[c], side))

Idle(x, c) == \A s \in Side : x.work[s][c].qty = 0

LEMMA AssetColumns ==
  ASSUME NEW in, Given(in), NEW x \in Rows, NEW a \in Assets, x.unfilled[a] = 0
  PROVE  LET y == Asset(x, a, in)
         IN  /\ \A c \in Assets \ {a} : Unreported(x, y, c)
             /\ Idle(x, a) /\ x.order[a] = 0 /\ x.cost[a] = 0 => Trades(x, y, a, in)
<1> DEFINE c == CancelWorking(x, a)
           m == Bought(x, a, in)
           y == Sold(x, a, in)
           take == OrderTake(y, a, in)
           side == SideOf(y.ask[a])
           o == Ordered(y, a, y.ask[a], take, in)
           f == Fill(y, a, side, take, in.taker, in)
           z == Asset(x, a, in)
<1>1. "buy" \in Side /\ "sell" \in Side
  BY DEF Side
<1>2. /\ c \in Rows /\ m \in Rows /\ y \in Rows /\ Same(c, x)
      /\ m = SettleWorking(c, a, "buy", RestTake(c, a, "buy", in), in)
      /\ y = SettleWorking(m, a, "sell", RestTake(m, a, "sell", in), in)
      /\ Takes(RestTake(c, a, "buy", in), a, "buy", c.work["buy"][a].qty, in)
      /\ Takes(RestTake(m, a, "sell", in), a, "sell", m.work["sell"][a].qty, in)
      /\ \E bought \in Nat : WorkedBy(c, m, a, "buy", bought)
      /\ \E sold \in Nat : WorkedBy(m, y, a, "sell", sold)
  BY SoldEffect
<1>3. z = FillOrder(y, a, in)
  BY DEF Asset, Bought, Sold
<1>4. m = FillWorking(c, a, "buy", in) /\ y = FillWorking(m, a, "sell", in)
  BY DEF Bought, Sold
<1>5. ASSUME Idle(x, a) PROVE y = c
  <2>1. \A s \in Side : c.work[s][a].qty = 0
    BY <1>5, CancelEffect DEF Idle, NoOrder
  <2> HIDE DEF c, m, y
  <2>2. \A w, s : ~(w.work[s][a].qty > 0) => FillWorking(w, a, s, in) = w
    BY DEF FillWorking
  <2>3. ~(c.work["buy"][a].qty > 0) /\ ~(c.work["sell"][a].qty > 0)
    BY <1>1, <2>1
  <2>4. m = c
    BY <1>4, <2>2, <2>3
  <2>5. QED
    BY <1>4, <2>2, <2>3, <2>4
<1> HIDE DEF c, m, y, z
<1>6. \A b \in Assets \ {a} : Unreported(c, m, b) /\ Unreported(m, y, b)
  BY <1>1, <1>2, SettleWorkingColumns
<1>7. y.unfilled[a] = 0
  BY <1>2 DEF WorkedBy, Same
<1>8. /\ Takes(take, a, side, Absolute(y.ask[a]), in)
      /\ FillOrder(y, a, in) = Rest(o, a, y.ask[a], o.unfilled[a], y.limit[a])
  BY <1>2, <1>7, FillOrderRests
<1>9. y.ask[a] \in Int /\ y.limit[a] \in Int \cup {NoLimit} /\ side \in Side /\ in.taker \in Int
  BY <1>2, GivenTypes DEF Rows, Amounts, SideOf, Side
<1>10. o \in Rows
  BY <1>2, <1>8, <1>9, OrderedEffect
<1>11. /\ f \in Rows /\ \A b \in Assets \ {a} : Unreported(y, f, b)
       /\ \/ Unreported(y, f, a)
          \/ /\ Filled(take) # 0 /\ f.order[a] = y.order[a] + Sign(side) * Filled(take)
             /\ f.cost[a] = y.cost[a] + Cost(take, LegOf(in.ladder[a], side))
  <2> HIDE DEF take, side
  <2>1. QED
    BY <1>2, <1>8, <1>9, FillColumns
<1>12. o = [f EXCEPT !.unfilled[a] = Left(y, f, a, y.ask[a])]
  BY DEF Ordered, Traded
<1> HIDE DEF o, f
<1>13. o.unfilled[a] \in Int
  BY <1>10 DEF Rows, Amounts
<1>14. z.order = f.order /\ z.cost = f.cost
  <2>1. Same(Rest(o, a, y.ask[a], o.unfilled[a], y.limit[a]), o)
    BY <1>9, <1>10, <1>13, RestEffect
  <2>2. o.order = f.order /\ o.cost = f.cost
    BY <1>11, <1>12 DEF Rows
  <2>3. QED
    BY <1>3, <1>8, <2>1, <2>2 DEF Same
<1>15. \A b \in Assets \ {a} : Unreported(x, z, b)
  BY <1>2, <1>6, <1>11, <1>14 DEF Unreported, Same
<1>16. ASSUME Idle(x, a), x.order[a] = 0, x.cost[a] = 0 PROVE Trades(x, z, a, in)
  <2>1. y.order[a] = 0 /\ y.cost[a] = 0 /\ y.ask = x.ask /\ y.limit = x.limit
    BY <1>2, <1>5, <1>16 DEF Same
  <2>2. take = OrderTake(x, a, in) /\ side = SideOf(x.ask[a])
    BY <2>1 DEF OrderTake
  <2>3. Sign(side) * Filled(take) \in Int /\ Cost(take, LegOf(in.ladder[a], side)) \in Int
    BY <1>8, <1>9 DEF Takes, Sign
  <2> HIDE DEF take, side
  <2>4. CASE Unreported(y, f, a)
    BY <1>14, <2>1, <2>4 DEF Unreported, Trades
  <2>5. CASE ~Unreported(y, f, a)
    <3>1. /\ Filled(take) # 0 /\ z.order[a] = Sign(side) * Filled(take)
          /\ z.cost[a] = Cost(take, LegOf(in.ladder[a], side))
      BY <1>11, <1>14, <2>1, <2>3, <2>5
    <3>2. QED
      BY <2>2, <3>1 DEF Trades
  <2>6. QED
    BY <2>4, <2>5
<1>17. QED
  BY <1>15, <1>16 DEF z

\* The columns of the first a assets are what their orders traded, where nothing
\* rested.
Columns(x, y, a, in) ==
  \A c \in Assets : /\ c > a => y.order[c] = 0 /\ y.cost[c] = 0
                    /\ c <= a /\ Idle(x, c) => Trades(x, y, c, in)

LEMMA NarrowColumns ==
  ASSUME NEW in, Given(in), NEW b \in Accounts
  PROVE  Columns(Begin(b, in), Narrow(b, in), Width, in)
<1> DEFINE f == NarrowBooks(b, in)
           x == Begin(b, in)
           S == {a \in 0..Width : Columns(x, f[a], a, in)}
<1>1. x \in Rows /\ \A a \in Assets : x.unfilled[a] = 0
  BY BeginType
<1>2. /\ f[0] = x /\ \A a \in Assets : f[a] = Asset(f[a - 1], a, in)
      /\ Narrow(b, in) = f[Width]
  BY NarrowSteps
<1>3. \A a \in 0..Width : Reaches(x, f[a], a)
  BY NarrowReaches
<1>4. Width \in Nat /\ Assets = 1..Width
  BY WidthAssumption DEF Assets
<1>5. \A a \in Assets : x.order[a] = 0 /\ x.cost[a] = 0
  BY DEF Begin, Nothing
<1> HIDE DEF f, x
<1>6. 0 \in S
  BY <1>2, <1>4, <1>5 DEF Columns
<1>7. ASSUME NEW a \in 1..Width, a - 1 \in S PROVE a \in S
  <2> DEFINE y == f[a - 1]
             z == f[a]
  <2>1. a \in Assets /\ a - 1 \in 0..Width /\ a > a - 1 /\ a \in Int
    BY <1>4
  <2>2. Reaches(x, y, a - 1) /\ Columns(x, y, a - 1, in)
    BY <1>3, <1>7, <2>1
  <2>3. /\ y \in Rows /\ y.unfilled[a] = 0 /\ y.ask = x.ask /\ y.limit = x.limit
        /\ \A s \in Side : y.work[s][a] = x.work[s][a]
    BY <1>1, <2>1, <2>2 DEF Reaches, Untouched
  <2>4. z = Asset(y, a, in)
    BY <1>2, <2>1
  <2> HIDE DEF y, z
  <2>5. /\ \A c \in Assets \ {a} : Unreported(y, z, c)
        /\ Idle(y, a) /\ y.order[a] = 0 /\ y.cost[a] = 0 => Trades(y, z, a, in)
    BY <2>1, <2>3, <2>4, AssetColumns
  <2>6. y.order[a] = 0 /\ y.cost[a] = 0
    BY <2>1, <2>2 DEF Columns
  <2>7. Idle(x, a) => Trades(x, z, a, in)
    <3>1. OrderTake(y, a, in) = OrderTake(x, a, in)
      BY <2>3 DEF OrderTake
    <3>2. Idle(x, a) => Idle(y, a)
      BY <2>3 DEF Idle
    <3>3. QED
      BY <2>3, <2>5, <2>6, <3>1, <3>2 DEF Trades
  <2>8. ASSUME NEW c \in Assets
        PROVE  /\ c > a => z.order[c] = 0 /\ z.cost[c] = 0
               /\ c <= a /\ Idle(x, c) => Trades(x, z, c, in)
    <3>1. c \in Int /\ (c > a => c > a - 1 /\ c # a) /\ (c <= a => c = a \/ (c <= a - 1 /\ c # a))
      BY <1>4, <2>1
    <3>2. /\ c > a - 1 => y.order[c] = 0 /\ y.cost[c] = 0
          /\ c <= a - 1 /\ Idle(x, c) => Trades(x, y, c, in)
      BY <2>2 DEF Columns
    <3>3. c # a => z.order[c] = y.order[c] /\ z.cost[c] = y.cost[c]
      BY <2>5 DEF Unreported
    <3>4. c # a /\ Trades(x, y, c, in) => Trades(x, z, c, in)
      BY <3>3 DEF Trades
    <3>5. QED
      BY <2>7, <3>1, <3>2, <3>3, <3>4
  <2>9. Columns(x, z, a, in)
    BY <2>8 DEF Columns
  <2>10. QED
    BY <2>9 DEF z
<1>8. 0..Width \subseteq S
  <2> HIDE DEF S
  <2>1. QED
    BY <1>4, <1>6, <1>7, IntervalInduction
<1>9. QED
  BY <1>2, <1>4, <1>8 DEF x

\* Where nothing rested, a row executes no more of an asset than is asked for and
\* displayed, pays for each unit what the next best displayed one asks, and never
\* goes beyond the limit (_walk_ladder).
THEOREM FillsTakeTheBest == Spec => []FillsWalkTheLadder
<1>1. RowsExplainBook => FillsWalkTheLadder
  <2> SUFFICES ASSUME RowsExplainBook, row > 0
               PROVE  AllWalked(Last(config.wide))
    BY DEF FillsWalkTheLadder
  <2> DEFINE d == Decided(was, seen, FALSE)
             x == Begin(was, d)
             y == Last(FALSE)
             z == Outcome
  <2>1. /\ Given(d) /\ x \in Rows /\ y \in Rows /\ Reaches(x, y, Width) /\ Same(y, z)
    BY LastReaches
  <2>2. was \in Accounts
    BY DEF RowsExplainBook
  <2>3. d.ladder = seen.ladder
    BY DEF Decided
  <2>4. Columns(x, y, Width, d)
    <3>1. y = Narrow(was, d)
      BY DEF Last, Executed
    <3> HIDE DEF d, y
    <3>2. QED
      BY <2>1, <2>2, <3>1, NarrowColumns
  <2>5. \A a \in Assets : (\A s \in Side : was.work[s][a].qty = 0) => Idle(x, a)
    <3>1. x.work = was.work \/ x.work = NoWork
      BY DEF Begin
    <3>2. \A s \in Side, a \in Assets : NoWork[s][a].qty = 0
      BY DEF NoWork, NoOrder
    <3> HIDE DEF x
    <3>3. QED
      BY <3>1, <3>2 DEF Idle
  <2> HIDE DEF d, x, y, z
  <2>6. /\ z.order = y.order /\ z.cost = y.cost /\ z.ask = x.ask /\ z.limit = x.limit
    BY <2>1 DEF Same, Reaches
  <2>7. ASSUME NEW a \in Assets, was.work["buy"][a].qty = 0 /\ was.work["sell"][a].qty = 0
        PROVE  Walked(z, a, LegOf(seen.ladder[a], IF z.order[a] > 0 THEN "buy" ELSE "sell"),
                      Absolute(z.order[a]))
    <3> DEFINE side == SideOf(x.ask[a])
               leg == LegOf(seen.ladder[a], side)
               need == Absolute(x.ask[a])
               limit == x.limit[a]
               take == Walk(leg, need, limit, side)
               n == Filled(take)
    <3>1. Trades(x, y, a, d)
      <4>1. Width \in Int /\ a <= Width
        BY WidthAssumption DEF Assets
      <4>2. Idle(x, a)
        BY <2>5, <2>7 DEF Side
      <4>3. QED
        BY <2>4, <4>1, <4>2 DEF Columns
    <3>2. take = OrderTake(x, a, d)
      BY <2>3 DEF OrderTake
    <3>3. /\ x.ask[a] \in Int /\ need \in Nat /\ side \in Side /\ limit \in Int \cup {NoLimit}
      BY <2>1 DEF Rows, Amounts, Absolute, SideOf, Side
    <3>4. \A s \in Side : LegOf(seen.ladder[a], s) \in Legs /\ BestFirst(LegOf(seen.ladder[a], s), s)
      <4>1. \A s \in Side : LegOf(seen.ladder[a], s) \in Legs
        BY <2>1, <2>3, GivenTypes
      <4>2. IsDepth(seen.ladder[a])
        BY <2>1, <2>3 DEF Given, Shown
      <4>3. \A s \in Side : BestFirst(LegOf(seen.ladder[a], s), s)
        BY <4>2 DEF IsDepth, BestFirst, LegOf, Side
      <4>4. QED
        BY <4>1, <4>3
    <3> HIDE DEF limit, need
    <3>5. /\ n \in Nat /\ n <= need /\ n <= Sum(Levels, Vols(leg))
          /\ Cost(take, leg) = Sum(n, [k \in 1..n |-> UnitPrice(leg, k)])
          /\ limit # NoLimit /\ n > 0 =>
               IF side = "buy" THEN UnitPrice(leg, n) <= limit ELSE UnitPrice(leg, n) >= limit
      <4> HIDE DEF side, leg
      <4>1. leg \in Legs /\ BestFirst(leg, side)
        BY <3>3, <3>4 DEF leg
      <4>2. QED
        BY <3>3, <4>1, WalkTakesBestUnits
    <3>6. CASE z.order[a] = 0 /\ z.cost[a] = 0
      <4> DEFINE other == LegOf(seen.ladder[a], "sell")
      <4>1. other \in Legs
        BY <3>4 DEF Side
      <4> HIDE DEF other
      <4>2. Sum(Levels, Vols(other)) >= 0
        <5>1. Levels \in Nat /\ \A i \in 1..Levels : Vols(other)[i] \in Nat
          BY <4>1, LevelsAssumption DEF Legs, Vols
        <5>2. Levels \in 0..Levels
          BY <5>1
        <5>3. Sum(Levels, Vols(other)) \in Nat
          BY <5>1, <5>2, SumGrows
        <5>4. QED
          BY <5>3
      <4>3. z.cost[a] = Sum(0, [k \in 1..0 |-> UnitPrice(other, k)])
        BY <3>6, SumSteps
      <4>4. Absolute(z.order[a]) = 0 /\ ~(z.order[a] > 0)
        BY <3>6 DEF Absolute
      <4>5. Absolute(z.ask[a]) >= 0
        BY <2>6, <3>3 DEF Absolute
      <4>6. Walked(z, a, other, 0)
        BY <4>2, <4>3, <4>5 DEF Walked, Vols
      <4>7. QED
        BY <4>4, <4>6 DEF other
    <3>7. CASE ~(z.order[a] = 0 /\ z.cost[a] = 0)
      <4>1. n # 0 /\ z.order[a] = Sign(side) * n /\ z.cost[a] = Cost(take, leg)
        <5> HIDE DEF take
        <5>1. QED
          BY <2>3, <2>6, <3>1, <3>2, <3>7 DEF Trades
      <4>2. /\ Absolute(z.order[a]) = n
            /\ side = IF z.order[a] > 0 THEN "buy" ELSE "sell"
        <5> HIDE DEF n
        <5>1. QED
          BY <3>3, <3>5, <4>1 DEF Sign, Side, Absolute
      <4>3. z.limit[a] = limit /\ Absolute(z.ask[a]) = need
        BY <2>6 DEF limit, need
      <4> HIDE DEF side, leg, take, n
      <4>4. z.order[a] > 0 <=> side = "buy"
        BY <4>2
      <4>5. Walked(z, a, leg, n)
        BY <3>5, <4>1, <4>3, <4>4 DEF Walked, Vols
      <4>6. QED
        BY <4>2, <4>5 DEF leg
    <3>8. QED
      BY <3>6, <3>7
  <2>8. AllWalked(z)
    BY <2>7 DEF AllWalked
  <2>9. QED
    BY <2>8 DEF z, Outcome
<1>2. QED
  BY <1>1, BookFollowsRows, PTL
=============================================================================
