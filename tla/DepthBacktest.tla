--------------------------- MODULE DepthBacktest ---------------------------
(***************************************************************************)
(* iosislib.backtest on a level 2 feed: every row a policy proposes, the   *)
(* risk policy limits, and _execute_l2 matches resting orders and the      *)
(* row's orders with the displayed ladders, best price first.  Fewer than  *)
(* eight assets go through _execute_l2_narrow, asset by asset; more go     *)
(* through the vector stages of _execute_l2, which asks the narrow one to  *)
(* liquidate.  A row is one step: nothing runs beside it.                  *)
(*                                                                         *)
(* Quantities and money are as in Book; an average price appears only      *)
(* times its quantity, as what the levels taken cost.                      *)
(***************************************************************************)
EXTENDS Book, Policies

CONSTANTS
  Levels,    \* levels of a ladder
  Ladders,   \* rows of ladders: per asset [bid, ask] of [px, vol] per level
  Signals,   \* rows of the signal column, per asset a quantity
  Limits,    \* rows of the limit column, per asset a price or NoLimit
  Cancels,   \* rows of the cancel column, per asset a flag
  NoLimit,   \* the NaN of a market order
  Configs    \* [wide, limits, cancels : BOOLEAN, taker, maker : Int,
             \*  policy : {"signal", "threshold"}, risk : {"none", "limit", "kelly"}]

VARIABLES
  config,    \* the node's configuration; `wide` tells which paths its width takes
  row,       \* rows executed
  ruined,    \* the frame is frozen from here
  book,      \* cash, fees, balance and resting orders
  was,       \* history: the book before the last row
  seen       \* history: what the last row showed and asked

vars == <<config, row, ruined, book, was, seen>>

ASSUME LevelsAssumption == Levels \in Nat \ {0}
\* The frame is one the node validates: it has every column, of its type.
ASSUME FrameAssumption ==
  /\ LET Leg == [1..Levels -> [px : Int, vol : Int]]
     IN  Ladders \subseteq [Assets -> [bid : Leg, ask : Leg]]
  /\ Signals \subseteq [Assets -> Int]
  /\ Limits \subseteq [Assets -> Int \cup {NoLimit}] /\ NoLimit \notin Int
  /\ Cancels \subseteq [Assets -> BOOLEAN]
ASSUME ConfigsAssumption ==
  Configs \subseteq [wide : BOOLEAN, limits : BOOLEAN, cancels : BOOLEAN,
                    taker : Int, maker : Int,
                    policy : {"signal", "threshold"}, risk : {"none", "limit", "kelly"}]

Side == {"buy", "sell"}
Sign(side) == IF side = "buy" THEN 1 ELSE -1
SideOf(q) == IF q > 0 THEN "buy" ELSE "sell"
Absolute(q) == IF q >= 0 THEN q ELSE -q
Least(m, n) == IF m <= n THEN m ELSE n
Most(m, n) == IF m >= n THEN m ELSE n

Sum(n, amount) ==
  LET upTo[i \in 0..n] == IF i = 0 THEN 0 ELSE upTo[i - 1] + amount[i] IN upTo[n]

\* BacktestTSFN._depth: what it raises on.
IsDepth(l) ==
  \A leg \in {"bid", "ask"}, i \in 1..Levels :
    /\ l[leg][i].vol >= 0 /\ l[leg][i].px >= 0
    /\ i > 1 => IF leg = "bid" THEN l.bid[i].px <= l.bid[i - 1].px
                ELSE l.ask[i].px >= l.ask[i - 1].px

\* L2Feed.quotes: the first level that shows volume, the head of an empty leg.
Best(leg) ==
  IF \E i \in 1..Levels : leg[i].vol > 0
    THEN leg[CHOOSE i \in 1..Levels : leg[i].vol > 0 /\ \A j \in 1..(i - 1) : leg[j].vol = 0].px
    ELSE leg[1].px
QuoteOf(l) == [bid |-> Best(l.bid), ask |-> Best(l.ask)]

\* The ladders of a frame the node accepts.
Shown == {l \in Ladders : \A a \in Assets : IsDepth(l[a]) /\ QuoteOf(l[a]) \in Quotes}

Marks(in) == [a \in Assets |-> QuoteOf(in.ladder[a]).bid]
Asks(in) == [a \in Assets |-> QuoteOf(in.ladder[a]).ask]

NoOrder == [qty |-> 0, px |-> 0]
NoWork == [side \in Side |-> [a \in Assets |-> NoOrder]]
None == [a \in Assets |-> NoLimit]
Keep == [a \in Assets |-> FALSE]

-----------------------------------------------------------------------------
(* Matching *)

\* _walk_ladder: what is taken of each level, best first, of what it shows within
\* the limit.
Eligible(leg, limit, side) ==
  [i \in 1..Levels |->
     IF limit = NoLimit \/ (IF side = "buy" THEN leg[i].px <= limit ELSE leg[i].px >= limit)
       THEN leg[i].vol ELSE 0]
Taken(need, eligible) ==
  [i \in 1..Levels |-> Least(eligible[i], Most(need - Sum(i, eligible) + eligible[i], 0))]

WalkAnyPrice(leg, need, limit, side) ==                            \* mutant of Walk
  Taken(need, [i \in 1..Levels |-> leg[i].vol])
Walk(leg, need, limit, side) == Taken(need, Eligible(leg, limit, side))

Filled(take) == Sum(Levels, take)
Cost(take, leg) == Sum(Levels, [i \in 1..Levels |-> take[i] * leg[i].px])

\* The leg of a ladder that an order trades with.
LegOf(l, side) == IF side = "buy" THEN l.ask ELSE l.bid

SettleAlways(x, a, signed, cost, rate, mark) ==                    \* mutant of Settle
  [x EXCEPT !.cash = @ - ((IF signed > 0 THEN cost ELSE -cost) * Unit + cost * rate),
            !.fees = @ + cost * rate, !.balance[a] = @ + signed, !.order[a] = @ + signed]

\* Changes hands with asset a, for what the levels cost and a fee, unless the
\* running equity at the marks would breach.  A forced row is not gated.
Settle(x, a, signed, cost, rate, mark) ==
  LET paid == IF signed > 0 THEN cost ELSE -cost
      equity == x.equity + (signed * mark - paid) * Unit - cost * rate
  IN  IF signed = 0 \/ (~x.forced /\ equity < 0) THEN x
      ELSE [x EXCEPT !.equity = equity,
                     !.cash = @ - (paid * Unit + cost * rate),
                     !.fees = @ + cost * rate,
                     !.balance[a] = @ + signed,
                     !.order[a] = @ + signed,
                     !.cost[a] = @ + cost,
                     !.volume[a] = @ + Absolute(signed)]

\* A fill of what is taken of the leg.
Fill(x, a, side, take, rate, in) ==
  Settle(x, a, Sign(side) * Filled(take), Cost(take, LegOf(in.ladder[a], side)), rate, Marks(in)[a])

\* When a fill of a resting order makes y of x, the order rests for less.
Worked(x, y, a, side, filled) ==
  IF y = x THEN x ELSE [y EXCEPT !.work[side][a].qty = @ - filled]

-----------------------------------------------------------------------------
(* _execute_l2_narrow *)

\* The row as the executor begins it: a ruined book asks to be closed, without
\* limits and cancels, and forgets what rests.
Begin(b, in) ==
  LET equity == Total(b.cash, Value(b.balance, Marks(in)))
      ruin == Ruined(equity)
  IN  [cash |-> b.cash, fees |-> b.fees, balance |-> b.balance,
       work |-> IF ruin THEN NoWork ELSE b.work,
       equity |-> equity, forced |-> ruin, order |-> Nothing, unfilled |-> Nothing,
       cost |-> Nothing, volume |-> Nothing,
       ask |-> IF ruin THEN [a \in Assets |-> -b.balance[a]] ELSE in.order,
       limit |-> IF ruin THEN None ELSE in.limit,
       cancel |-> IF ruin THEN Keep ELSE in.cancel]

CancelBuys(x, a) ==                                                \* mutant of CancelWorking
  IF x.cancel[a] THEN [x EXCEPT !.work["buy"][a] = NoOrder] ELSE x
CancelWorking(x, a) ==
  IF x.cancel[a] THEN [x EXCEPT !.work["buy"][a] = NoOrder, !.work["sell"][a] = NoOrder] ELSE x

\* Mutant of FillWorking: a partial fill takes the order off the book.
FillAndForget(x, a, side, in) ==
  LET rest == x.work[side][a]
      y == Fill(x, a, side, Walk(LegOf(in.ladder[a], side), rest.qty, rest.px, side), in.maker, in)
  IN  IF rest.qty > 0 /\ y # x THEN [y EXCEPT !.work[side][a].qty = 0] ELSE x
\* What rests on one side of asset a, against the whole displayed leg.
FillWorking(x, a, side, in) ==
  LET rest == x.work[side][a]
      take == Walk(LegOf(in.ladder[a], side), rest.qty, rest.px, side)
  IN  IF rest.qty > 0 THEN Worked(x, Fill(x, a, side, take, in.maker, in), a, side, Filled(take))
      ELSE x

\* What a limit leaves rests in place of the order before it; a market order's
\* remainder is dropped.
Rest(x, a, q, left, limit) ==
  IF limit = NoLimit \/ left = 0 THEN x
  ELSE [x EXCEPT !.work[SideOf(q)][a] = [qty |-> Absolute(left), px |-> limit]]

\* What of the row's order, filled from x to y, is left.
Left(x, y, a, q) == q - (y.balance[a] - x.balance[a])
Traded(x, y, a, q) == [y EXCEPT !.unfilled[a] = Left(x, y, a, q)]

FillOrder(x, a, in) ==
  LET q == x.ask[a]
      take == Walk(LegOf(in.ladder[a], SideOf(q)), Absolute(q), x.limit[a], SideOf(q))
      y == Fill(x, a, SideOf(q), take, in.taker, in)
  IN  IF q = 0 THEN x ELSE Rest(Traded(x, y, a, q), a, q, Left(x, y, a, q), x.limit[a])

Asset(x, a, in) ==
  FillOrder(FillWorking(FillWorking(CancelWorking(x, a), a, "buy", in), a, "sell", in), a, in)

Narrow(b, in) ==
  LET after[a \in 0..Width] == IF a = 0 THEN Begin(b, in) ELSE Asset(after[a - 1], a, in)
  IN  after[Width]

-----------------------------------------------------------------------------
(* _execute_l2 *)

\* What the row's cancels leave at rest.
KeptWork(b, in) ==
  [side \in Side |-> [a \in Assets |-> IF in.cancel[a] THEN NoOrder ELSE b.work[side][a]]]

\* What is taken for every asset, from arrays made before anything is settled.
StageTakes(quantity, px, side, in) ==
  [a \in Assets |-> Walk(LegOf(in.ladder[a], side), quantity[a], px[a], side)]
StageWorking(kept, in) ==
  [side \in Side |-> StageTakes([a \in Assets |-> kept[side][a].qty],
                                [a \in Assets |-> kept[side][a].px], side, in)]
StageOrders(in) ==
  [side \in Side |-> StageTakes([a \in Assets |-> Most(Sign(side) * in.order[a], 0)],
                                in.limit, side, in)]

\* One asset of the loop that settles.
SettleWorking(x, a, side, take, in) ==
  Worked(x, Fill(x, a, side, take, in.maker, in), a, side, Filled(take))
SettleOrder(x, a, take, in) ==
  Traded(x, Fill(x, a, SideOf(in.order[a]), take, in.taker, in), a, in.order[a])
SettleAsset(x, a, working, taken, in) ==
  SettleOrder(SettleWorking(SettleWorking(x, a, "buy", working["buy"][a], in),
                            a, "sell", working["sell"][a], in),
              a, taken[SideOf(in.order[a])][a], in)

SettleAll(start, working, taken, in) ==
  LET settled[a \in 0..Width] ==
        IF a = 0 THEN start ELSE SettleAsset(settled[a - 1], a, working, taken, in)
  IN  settled[Width]

\* What the limits of the row leave rests.
RestAll(x, in) ==
  [x EXCEPT !.work =
     [side \in Side |-> [a \in Assets |->
        IF in.limit[a] # NoLimit /\ Sign(side) * x.unfilled[a] > 0
          THEN [qty |-> Absolute(x.unfilled[a]), px |-> in.limit[a]]
          ELSE @[side][a]]]]

Wide(b, in) ==
  IF Begin(b, in).forced THEN Narrow(b, in)
  ELSE LET kept == KeptWork(b, in)
       IN  RestAll(SettleAll([Begin(b, in) EXCEPT !.work = kept],
                             StageWorking(kept, in), StageOrders(in), in), in)

-----------------------------------------------------------------------------
(* A row of BacktestTSFN.batch *)

\* What the built-in policies propose for the row's signal, and what the risk
\* policies make of it, by the path for few assets or for many.
Proposed(signal, wide) ==
  IF config.policy = "signal" THEN signal
  ELSE IF wide THEN ThresholdVector(signal, 1, 2, 2) ELSE Threshold(signal, 1, 2, 2)

Cap == [num |-> 1, den |-> 2]
One == 4

Effective(b, in, proposed, wide) ==
  LET equity == Total(b.cash, Value(b.balance, Marks(in))) IN
    CASE config.risk = "none" -> proposed
      [] config.risk = "limit" /\ ~wide ->
           FractionalLimit(Cap, equity, proposed, b.balance, Asks(in), Marks(in), Unit)
      [] config.risk = "limit" /\ wide ->
           FractionalLimitVector(Cap, equity, proposed, b.balance, Asks(in), Marks(in), Unit)
      [] config.risk = "kelly" /\ ~wide ->
           FractionalKelly(Cap, equity, in.signal, Asks(in), One, Unit)
      [] config.risk = "kelly" /\ wide ->
           FractionalKellyVector(Cap, equity, in.signal, Asks(in), One, Unit)

Kept(x) == [cash |-> x.cash, fees |-> x.fees, balance |-> x.balance, work |-> x.work]

\* What a row of the frame may hold.
Asked ==
  [ladder : Shown, signal : Signals,
   limit : IF config.limits THEN Limits ELSE {None},
   cancel : IF config.cancels THEN Cancels ELSE {Keep}]

\* What the executor is given: the row, its orders, and the rates of its fees.
Decided(b, in, wide) ==
  [ladder |-> in.ladder, limit |-> in.limit, cancel |-> in.cancel,
   order |-> Effective(b, in, Proposed(in.signal, wide), wide),
   taker |-> config.taker, maker |-> config.maker]

Executed(b, in, wide) ==
  IF wide THEN Wide(b, Decided(b, in, TRUE)) ELSE Narrow(b, Decided(b, in, FALSE))

Flat == [cash |-> InitialCash, fees |-> 0, balance |-> Nothing, work |-> NoWork]

Init ==
  /\ config \in Configs
  /\ row = 0 /\ ruined = FALSE
  /\ book = Flat /\ was = Flat
  /\ seen = [ladder |-> CHOOSE l \in Shown : TRUE, signal |-> Nothing, limit |-> None, cancel |-> Keep]

\* What a row leaves; a forced one ends the frame.
Ends(x) == book' = Kept(x) /\ ruined' = x.forced

\* The next row of the frame, unless the book is ruined.
Row ==
  /\ row < MaxRows /\ ~ruined
  /\ \E in \in Asked :
       /\ seen' = in /\ was' = book
       /\ Ends(Executed(book, in, config.wide))
  /\ row' = row + 1
  /\ UNCHANGED config

End == (ruined \/ row = MaxRows) /\ UNCHANGED vars

Next == Row \/ End

Spec == Init /\ [][Next]_vars

-----------------------------------------------------------------------------
(* What a level 2 backtest promises *)

Marked(b) == Total(b.cash, Value(b.balance, Marks(seen)))
Last(wide) == Executed(was, seen, wide)

\* The book and the columns of a row.
Reported(x) ==
  [book |-> Kept(x), forced |-> x.forced, order |-> x.order, unfilled |-> x.unfilled,
   cost |-> x.cost, volume |-> x.volume]

\* The row paths for few assets and the vector paths for many are one function:
\* policies, risk policies and executors do the same to the book and report the
\* same orders, prices and remainders (_execute_l2_narrow and _execute_l2).
PathsAgree == row > 0 => Reported(Last(FALSE)) = Reported(Last(TRUE))

\* No row takes the book below zero at the bids it showed, whatever the rates: its
\* own fills take a book down to nothing at most, debts it has from its quotes alone.
RowsNeverBreach == row > 0 /\ ~ruined => Marked(book) >= 0

\* The price of the nth unit of a leg, best level first.
UnitPrice(leg, n) ==
  leg[CHOOSE i \in 1..Levels :
        /\ Sum(i, [j \in 1..Levels |-> leg[j].vol]) >= n
        /\ Sum(i - 1, [j \in 1..Levels |-> leg[j].vol]) < n].px

Walked(x, a, leg, n) ==
  /\ n <= Absolute(x.ask[a]) /\ n <= Sum(Levels, [i \in 1..Levels |-> leg[i].vol])
  /\ x.cost[a] = Sum(n, [k \in 1..n |-> UnitPrice(leg, k)])
  /\ x.limit[a] # NoLimit /\ n > 0 =>
       IF x.order[a] > 0 THEN UnitPrice(leg, n) <= x.limit[a]
       ELSE UnitPrice(leg, n) >= x.limit[a]

AllWalked(x) ==
  \A a \in Assets :
    was.work["buy"][a].qty = 0 /\ was.work["sell"][a].qty = 0 =>
      Walked(x, a, LegOf(seen.ladder[a], IF x.order[a] > 0 THEN "buy" ELSE "sell"),
             Absolute(x.order[a]))

\* Where nothing rested, a row executes no more of an asset than is asked for and
\* displayed, pays for each unit what the next best displayed one asks, the fees
\* apart, and never goes beyond the limit
\* (_walk_ladder: "Walk one best-first ladder leg").
FillsWalkTheLadder == row > 0 => AllWalked(Last(config.wide))

\* What an asset's position changed by is what its order executed and what left
\* its resting orders, unless the row cancels or replaces these.
Reconciled(x) ==
  LET left(side, a) == was.work[side][a].qty - book.work[side][a].qty
      replaces(a) == seen.limit[a] # NoLimit /\ x.unfilled[a] # 0
  IN  \A a \in Assets :
        ~seen.cancel[a] /\ ~replaces(a) =>
          book.balance[a] - was.balance[a] =
            left("buy", a) - left("sell", a) + x.ask[a] - x.unfilled[a]

\* The columns of a row reconcile: what the row's order executed (`unfilled`) and
\* what left the resting orders (`open_orders`) is what the positions changed by
\* (`balance`), where the row neither cancels nor replaces what rests.
RestingReconciles == row > 0 /\ ~ruined => Reconciled(Last(config.wide))

Capped(b, a) ==
  ~Exceeds(Cap, Total(was.cash, Value(was.balance, Marks(seen))), b.balance[a], Marks(seen)[a], Unit)

\* "Cap each position's notional at a fraction of current equity"
\* (FractionalLimitPolicy): a position within its cap at the row's bids is within
\* it after the row, unless an order of an earlier row rests beside the new one.
PositionsAreCapped ==
  row > 0 /\ config.risk = "limit" /\ ~ruined =>
    \A a \in Assets :
      /\ Capped(was, a)
      /\ \A side \in Side : was.work[side][a].qty = 0
      => Capped(book, a)
=============================================================================
