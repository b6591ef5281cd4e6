------------------------------ MODULE Backtest ------------------------------
(***************************************************************************)
(* iosislib.backtest: the row loop of BacktestTSFN.batch with the full     *)
(* executors of a level 1 feed, _execute (fewer than eight assets, asset   *)
(* by asset) and _execute_wide (stage by stage), with resting limit        *)
(* orders, cancels, maker and taker fees and slippage.  A row is a list of *)
(* tasks that the executor works through in its own order.                 *)
(*                                                                         *)
(* Money is as in Book.  A fee rate is the money charged on a      *)
(* price of 1, slippage is in whole spreads.                               *)
(***************************************************************************)
EXTENDS Book

CONSTANTS
  Limits,    \* limit prices that an order may carry
  NoLimit,   \* the NaN of a market order
  Configs    \* [wide, limits, cancels : BOOLEAN, taker, maker : Int, slip : Nat]

VARIABLES
  config,    \* the node's configuration; `wide` is the executor it leads to
  pc,        \* "row" between two rows, "fill" within one, "ruined"
  row,       \* rows begun
  task,      \* the next task of the row
  market,    \* the row's quotes
  cash, fees, balance,
  equity,    \* the running equity that gates fills
  work,      \* resting orders: per side and asset a quantity and a limit price
  order,     \* per asset, what the row executed so far
  unfilled,  \* and what it left of the policy's order
  before     \* history: the positions when the row began

vars == <<config, pc, row, task, market, cash, fees, balance, equity, work, order,
          unfilled, before>>

\* Without rates, slippage and limits the node fills as the lean executor does.
IsPlain(c) == ~c.limits /\ ~c.cancels /\ c.taker = 0 /\ c.maker = 0 /\ c.slip = 0

LeanAsset ==
  IF config.wide THEN (IF task <= 3 * Width THEN 1 ELSE task - 3 * Width)
  ELSE (task - 1) \div 4 + 1

Lean == INSTANCE LeanBacktest WITH asset <- LeanAsset

ASSUME ConfigsAssumption ==
  Configs \subseteq [wide : BOOLEAN, limits : BOOLEAN, cancels : BOOLEAN,
                     taker : Int, maker : Int, slip : Nat]
ASSUME LimitsAssumption == Limits \subseteq Int /\ NoLimit \notin Int

Sides == {"buy", "sell"}
Sign(side) == IF side = "buy" THEN 1 ELSE -1
Abs(q) == IF q >= 0 THEN q ELSE -q

NoOrder == [qty |-> 0, px |-> 0]
NoWork == [side \in Sides |-> [a \in Assets |-> NoOrder]]

-----------------------------------------------------------------------------
(* The tasks of a row *)

Tasks == 4 * Width

\* _execute: for each asset cancel, fill what rests, then trade the order.
NarrowTask(n) ==
  [asset |-> (n - 1) \div 4 + 1, kind |-> <<"cancel", "buy", "sell", "order">>[((n - 1) % 4) + 1]]

\* _execute_wide: all cancels, then what rests, then the orders.
WideTask(n) ==
  IF n <= Width THEN [asset |-> n, kind |-> "cancel"]
  ELSE IF n <= 3 * Width
    THEN [asset |-> (n - Width - 1) \div 2 + 1,
          kind |-> <<"buy", "sell">>[((n - Width - 1) % 2) + 1]]
    ELSE [asset |-> n - 3 * Width, kind |-> "order"]

Task == IF config.wide THEN WideTask(task) ELSE NarrowTask(task)

\* The task is done; after the last one the row is.
Advance ==
  /\ task' = IF task = Tasks THEN 1 ELSE task + 1
  /\ pc' = IF task = Tasks THEN "row" ELSE "fill"
  /\ UNCHANGED <<config, row, market, before>>

-----------------------------------------------------------------------------

Init ==
  /\ config \in Configs
  /\ pc = "row" /\ row = 0 /\ task = 1
  /\ market \in [Assets -> Quotes]
  /\ cash = InitialCash /\ equity = InitialCash /\ fees = 0
  /\ balance = Nothing /\ order = Nothing /\ unfilled = Nothing /\ before = Nothing
  /\ work = NoWork

\* The fees on closing every position at its touch, and what closing brings in.
CloseFees(m) ==
  [a \in Assets |-> Abs(balance[a]) * Touch(m, balance)[a] * config.taker]
Proceeds(m) ==
  [a \in Assets |-> Value(balance, Touch(m, balance))[a] - CloseFees(m)[a]]

\* A row begins with its quotes.  A ruined book is closed, its resting orders
\* are dropped and the rest of the frame is frozen.
BeginRow ==
  /\ pc = "row" /\ row < MaxRows
  /\ row' = row + 1 /\ task' = 1 /\ unfilled' = Nothing /\ before' = balance
  /\ \E m \in [Assets -> Quotes] :
       /\ market' = m
       /\ equity' = Total(cash, Value(balance, Bids(m)))
       /\ IF Ruined(equity')
            THEN /\ pc' = "ruined"
                 /\ cash' = Total(cash, Proceeds(m))
                 /\ fees' = Total(fees, CloseFees(m))
                 /\ balance' = Nothing
                 /\ order' = [a \in Assets |-> -balance[a]]
                 /\ work' = NoWork
            ELSE /\ pc' = "fill"
                 /\ order' = Nothing
                 /\ UNCHANGED <<cash, fees, balance, work>>
  /\ UNCHANGED config

\* _cancel_working: a flag drops both resting orders of the asset.
Cancel ==
  /\ pc = "fill" /\ Task.kind = "cancel"
  /\ \E flag \in (IF config.cancels THEN BOOLEAN ELSE {FALSE}) :
       work' = IF flag THEN [side \in Sides |-> [work[side] EXCEPT ![Task.asset] = NoOrder]]
               ELSE work
  /\ UNCHANGED <<cash, fees, balance, equity, order, unfilled>>
  /\ Advance

\* Mutant of Changes: what rested before is not reported.
ChangesLast(a, signed, px, fee, drop) ==
  /\ equity' = equity - drop
  /\ cash' = cash - (signed * px * Unit + fee)
  /\ fees' = fees + fee
  /\ balance' = [balance EXCEPT ![a] = @ + signed]
  /\ order' = [order EXCEPT ![a] = signed]

\* The book after `signed` of the asset changed hands at px for a fee; `drop` is
\* what the gate makes of it.
Changes(a, signed, px, fee, drop) ==
  /\ equity' = equity - drop
  /\ cash' = cash - (signed * px * Unit + fee)
  /\ fees' = fees + fee
  /\ balance' = [balance EXCEPT ![a] = @ + signed]
  /\ order' = [order EXCEPT ![a] = @ + signed]

DropOfSpread(a, signed, px, fee) == signed * (px - market[a].bid) * Unit   \* mutant of Drop
\* What a fill costs against the bid it is marked at, its fee included.
Drop(a, signed, px, fee) == signed * (px - market[a].bid) * Unit + fee

AffordsAll(drop) == TRUE             \* mutants of Affords
AffordsMore(drop) == equity - drop > 0
Affords(drop) == equity - drop >= 0

Reached(side, a) ==
  IF side = "buy" THEN market[a].ask <= work[side][a].px ELSE market[a].bid >= work[side][a].px

Fee(signed, px, rate) == Abs(signed) * px * rate

\* A resting order that the market has reached fills whole, at its limit price
\* and the maker rate, unless that would breach.
FillWork ==
  /\ pc = "fill" /\ Task.kind \in Sides
  /\ LET a == Task.asset
         side == Task.kind
         px == work[side][a].px
         signed == Sign(side) * work[side][a].qty
         fee == Fee(signed, px, config.maker)
         drop == Drop(a, signed, px, fee)
     IN  IF signed # 0 /\ Reached(side, a) /\ Affords(drop)
           THEN Changes(a, signed, px, fee, drop) /\ work' = [work EXCEPT ![side][a] = NoOrder]
           ELSE UNCHANGED <<cash, fees, balance, equity, order, work>>
  /\ UNCHANGED unfilled
  /\ Advance

\* The price of a market order, slippage included.
Effective(a, q) ==
  LET slip == config.slip * (market[a].ask - market[a].bid) IN
    IF q > 0 THEN market[a].ask + slip ELSE market[a].bid - slip

\* Mutant of Rests: a limit that the price just meets rests too.
RestsAtLimit(q, px, limit) == limit # NoLimit /\ (IF q > 0 THEN px >= limit ELSE px <= limit)
\* A limit that the price does not meet: the order rests.
Rests(q, px, limit) == limit # NoLimit /\ (IF q > 0 THEN px > limit ELSE px < limit)

\* What the gate takes off for a sale: _execute the fee, _execute_wide nothing.
SaleDrop(fee) == IF config.wide THEN 0 ELSE fee

Replace(a, q, limit) ==
  [work EXCEPT ![IF q > 0 THEN "buy" ELSE "sell"][a] = [qty |-> Abs(q), px |-> limit]]

\* The policy's order: rests in place of the one before it, is filled at the
\* taker rate, or is dropped when a purchase would breach.  Sales always fill.
Trade(a, q, limit) ==
  LET px == Effective(a, q)
      fee == Fee(q, px, config.taker)
      drop == IF q > 0 THEN Drop(a, q, px, fee) ELSE SaleDrop(fee)
  IN  IF q = 0
        THEN UNCHANGED <<cash, fees, balance, equity, order, unfilled, work>>
      ELSE IF Rests(q, px, limit)
        THEN /\ work' = Replace(a, q, limit)
             /\ unfilled' = [unfilled EXCEPT ![a] = q]
             /\ UNCHANGED <<cash, fees, balance, equity, order>>
      ELSE IF q > 0 /\ ~Affords(drop)
        THEN /\ unfilled' = [unfilled EXCEPT ![a] = q]
             /\ UNCHANGED <<cash, fees, balance, equity, order, work>>
        ELSE Changes(a, q, px, fee, drop) /\ UNCHANGED <<unfilled, work>>

FillOrder ==
  /\ pc = "fill" /\ Task.kind = "order"
  /\ \E q \in Quantities, limit \in {NoLimit} \union (IF config.limits THEN Limits ELSE {}) :
       Trade(Task.asset, q, limit)
  /\ Advance

\* The frame ends, or the rows after ruin are frozen.
End == (pc = "ruined" \/ (pc = "row" /\ row = MaxRows)) /\ UNCHANGED vars

Next == BeginRow \/ Cancel \/ FillWork \/ FillOrder \/ End

Spec == Init /\ [][Next]_vars

-----------------------------------------------------------------------------
(* What a backtest promises *)

Equity == Total(cash, Value(balance, Bids(market)))

\* The gate of _execute sees every cost but a sale's slippage, that of
\* _execute_wide every cost but those of a sale.
GateSeesAll == config.slip = 0 /\ (config.wide => config.taker = 0)

\* The equity that gates fills, kept up in steps of each fill, is the book's equity
\* at the row's bids.
GateIsEquity == pc = "fill" /\ GateSeesAll => equity = Equity

\* No fill of a row takes the book below zero at the row's bids, as long as sales,
\* which are not gated, cost nothing.
FillsNeverBreach ==
  pc = "fill" /\ config.slip = 0 /\ config.taker <= 0 => Equity >= 0

NoRebates == config.taker \in 0..Unit /\ config.maker >= 0

\* Without slippage or rebates, a resting order that the row's market has reached
\* is still there after the row only if the book cannot afford it: it was not
\* passed over, nor placed where it could have been filled.
ReachedOrdersAreFilled ==
  pc = "row" /\ config.slip = 0 /\ NoRebates =>
    \A side \in Sides, a \in Assets :
      LET held == work[side][a]
          signed == Sign(side) * held.qty
      IN  held.qty > 0 /\ Reached(side, a) =>
            ~Affords(Drop(a, signed, held.px, Abs(signed) * held.px * config.maker))

\* The `order` column explains the positions: a row changes a position by what it
\* reports as executed, resting orders and liquidation included.
OrdersExplainPositions ==
  \A a \in Assets : balance[a] = before[a] + order[a]

\* "Semantics match _execute restricted to market orders with zero rates"
\* (_execute_lean): with such a configuration every step, of the narrow and of the
\* wide executor, is one of the lean executor or leaves all it sees unchanged.
ImplementsLean ==
  /\ IsPlain(config) => Lean!Init
  /\ [][IsPlain(config) =>
          Lean!Next \/ UNCHANGED <<pc, row, LeanAsset, market, cash, balance, equity,
                                  order, unfilled>>]_vars
=============================================================================
