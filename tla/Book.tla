-------------------------------- MODULE Book --------------------------------
(***************************************************************************)
(* What the executors of iosislib.backtest share: quotes of a level 1      *)
(* feed, positions and their worth.                                        *)
(*                                                                         *)
(* Prices, quantities and money are integers, so the dead-bands of         *)
(* _tolerances.py are empty: a quantity is zero when it is 0, a book is    *)
(* ruined when its equity is not positive.  A price of 1 is Unit of money. *)
(***************************************************************************)
EXTENDS Integers

CONSTANTS
  Width,        \* number of assets
  Quotes,       \* quotes an asset may have: [bid, ask]
  Quantities,   \* quantities that may be ordered of an asset
  InitialCash,  \* in money
  Unit,         \* money of a price of 1
  MaxRows       \* bound on the rows of the frame

ASSUME WidthAssumption == Width \in Nat \ {0}
\* BacktestTSFN._quotes refuses any other quotes.
ASSUME QuotesAssumption ==
  Quotes \subseteq [bid : Nat \ {0}, ask : Nat \ {0}] /\ \A q \in Quotes : q.bid <= q.ask
ASSUME QuantitiesAssumption == Quantities \subseteq Int
ASSUME MoneyAssumption == InitialCash \in Int /\ Unit \in Nat \ {0}
ASSUME MaxRowsAssumption == MaxRows \in Nat

Assets == 1..Width
Nothing == [a \in Assets |-> 0]

\* Cash c and an amount per asset.
Total(c, amount) ==
  LET upTo[a \in 0..Width] == IF a = 0 THEN c ELSE upTo[a - 1] + amount[a]
  IN  upTo[Width]

\* What positions b are worth at their prices.
Value(b, price) == [a \in Assets |-> b[a] * price[a] * Unit]

Bids(m) == [a \in Assets |-> m[a].bid]

\* What positions are closed at: longs sell at the bid, shorts buy at the ask.
Touch(m, b) == [a \in Assets |-> IF b[a] >= 0 THEN m[a].bid ELSE m[a].ask]

Ruined(worth) == worth <= 0
=============================================================================
