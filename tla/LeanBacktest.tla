---------------------------- MODULE LeanBacktest ----------------------------
(***************************************************************************)
(* iosislib.backtest: the row loop of BacktestTSFN.batch with the executor *)
(* _execute_lean, which fills market orders of a level 1 feed at once,     *)
(* without fees, slippage or orders that rest.  It is also what the full   *)
(* executors (Backtest) promise for such orders.                           *)
(*                                                                         *)
(* Policy and risk policy may answer any order; it is looked at when the   *)
(* asset's turn comes.                                                     *)
(***************************************************************************)
EXTENDS Book

VARIABLES
  pc,        \* "row" between two rows, "fill" within one, "ruined"
  row,       \* rows begun
  asset,     \* the next asset of the row to be filled
  market,    \* the row's quotes
  cash, balance,
  equity,    \* what the gate on buys looks at
  order,     \* per asset, what the row executed
  unfilled   \* and what it left of the policy's order

Init ==
  /\ pc = "row" /\ row = 0 /\ asset = 1
  /\ market \in [Assets -> Quotes]
  /\ cash = InitialCash /\ equity = InitialCash
  /\ balance = Nothing /\ order = Nothing /\ unfilled = Nothing

\* A row begins: a ruined book is closed and the rest of the frame frozen.
BeginRow ==
  /\ pc = "row" /\ row < MaxRows
  /\ row' = row + 1 /\ asset' = 1 /\ unfilled' = Nothing
  /\ \E m \in [Assets -> Quotes] :
       /\ market' = m
       /\ equity' = Total(cash, Value(balance, Bids(m)))
       /\ IF Ruined(equity')
            THEN /\ pc' = "ruined"
                 /\ cash' = Total(cash, Value(balance, Touch(m, balance)))
                 /\ balance' = Nothing
                 /\ order' = [a \in Assets |-> -balance[a]]
            ELSE /\ pc' = "fill"
                 /\ order' = Nothing
                 /\ UNCHANGED <<cash, balance>>

\* What a fill of q at `price` costs against the bid it is marked at.
Spread(a, q, price) == q * (price - market[a].bid) * Unit

\* Sales always fill, a purchase that would take the equity below zero does not.
Fill(a, q) ==
  LET price == IF q > 0 THEN market[a].ask ELSE market[a].bid
      left == equity - Spread(a, q, price)
  IN  IF q = 0
        THEN UNCHANGED <<equity, cash, balance, order, unfilled>>
      ELSE IF q > 0 /\ ~(left >= 0)
        THEN /\ unfilled' = [unfilled EXCEPT ![a] = q]
             /\ UNCHANGED <<equity, cash, balance, order>>
        ELSE /\ equity' = left
             /\ cash' = cash - q * price * Unit
             /\ balance' = [balance EXCEPT ![a] = @ + q]
             /\ order' = [order EXCEPT ![a] = q]
             /\ UNCHANGED unfilled

FillNext ==
  /\ pc = "fill"
  /\ \E q \in Quantities : Fill(asset, q)
  /\ asset' = IF asset = Width THEN 1 ELSE asset + 1
  /\ pc' = IF asset = Width THEN "row" ELSE "fill"
  /\ UNCHANGED <<row, market>>

Next == BeginRow \/ FillNext
=============================================================================
