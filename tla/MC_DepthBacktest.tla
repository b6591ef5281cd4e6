-------------------------- MODULE MC_DepthBacktest --------------------------
(* DepthBacktest of two assets over two rows of two-level ladders.           *)
EXTENDS DepthBacktest

Quote(bid, ask) == [bid |-> bid, ask |-> ask]
MCQuotes == [bid : 1..4, ask : 1..4] \ {q \in [bid : 1..4, ask : 1..4] : q.bid > q.ask}

Level(px, vol) == [px |-> px, vol |-> vol]
Ladder(b1, b2, a1, a2) == [bid |-> <<b1, b2>>, ask |-> <<a1, a2>>]

\* A deep book, a thin one with an empty head, and one whose prices have fallen.
Deep == Ladder(Level(2, 1), Level(1, 3), Level(2, 1), Level(3, 2))
Thin == Ladder(Level(3, 0), Level(2, 1), Level(3, 1), Level(4, 0))
Fallen == Ladder(Level(1, 2), Level(0, 4), Level(1, 1), Level(2, 3))

MCLadders == {<<x, y>> : x \in {Deep, Thin, Fallen}, y \in {Deep, Fallen}}
MCSignals ==
  {<<-2, 2>>, <<0, -3>>, <<3, 0>>, <<3, 2>>, <<-2, -3>>, <<1, -2>>, <<2, 1>>, <<0, 0>>}
MCLimits == {<<NoLimit, NoLimit>>, <<2, 2>>, <<1, NoLimit>>}
MCCancels == {<<FALSE, FALSE>>, <<TRUE, FALSE>>}

Config(wide, working, taker, maker, policy, risk) ==
  [wide |-> wide, limits |-> working, cancels |-> working, taker |-> taker, maker |-> maker,
   policy |-> policy, risk |-> risk]
MCConfigs ==
  {Config(TRUE, TRUE, 1, -1, "signal", "none"),
   Config(FALSE, TRUE, 0, 1, "signal", "limit"),
   Config(TRUE, FALSE, 1, 0, "threshold", "limit"),
   Config(FALSE, FALSE, 0, 0, "threshold", "kelly")}
=============================================================================
