---------------------------- MODULE MC_Backtest ----------------------------
(* Backtest of two assets over short frames, narrow and wide.                *)
EXTENDS Backtest

Quote(bid, ask) == [bid |-> bid, ask |-> ask]
MCQuantities == {-1, 0, 2}
MCQuotes == {Quote(1, 1), Quote(1, 2), Quote(3, 3)}

Config(wide, limits, taker, maker, slip) ==
  [wide |-> wide, limits |-> limits, cancels |-> limits, taker |-> taker, maker |-> maker,
   slip |-> slip]
MCConfigs ==
  {Config(wide, FALSE, 0, 0, 0) : wide \in BOOLEAN}
    \union {Config(wide, TRUE, 0, 1, 0) : wide \in BOOLEAN}
    \union {Config(wide, TRUE, 1, -1, 0) : wide \in BOOLEAN}
    \union {Config(wide, TRUE, 1, 0, 1) : wide \in BOOLEAN}
=============================================================================
