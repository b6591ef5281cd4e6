------------------------------ MODULE Policies ------------------------------
(***************************************************************************)
(* iosislib.backtest.policy and iosislib.backtest.risk without models: a   *)
(* policy proposes an order per asset, a risk policy makes it an order the *)
(* executor is given.  Each has an asset by asset path for at most sixteen *)
(* assets and a vector path for more.                                      *)
(*                                                                         *)
(* A vector is a function on the assets.  Quantities are whole: a quotient *)
(* is rounded towards zero, as a float's is at its last digit.  A fraction *)
(* is [num, den]; `unit` is the money of a price of 1.                     *)
(***************************************************************************)
EXTENDS Integers

Magnitude(q) == IF q >= 0 THEN q ELSE -q
Signed(q, sign) == IF sign >= 0 THEN q ELSE -q

\* ThresholdPolicy.decide: asset by asset, and as np.where.
Threshold(signal, threshold, long, short) ==
  [a \in DOMAIN signal |->
     CASE signal[a] > threshold -> long
       [] signal[a] < -threshold -> -short
       [] OTHER -> 0]

ThresholdVector(signal, threshold, long, short) ==
  LET high == {a \in DOMAIN signal : signal[a] > threshold}
      low == {a \in DOMAIN signal \ high : signal[a] < -threshold}
  IN  [a \in DOMAIN signal |-> IF a \in high THEN long ELSE IF a \in low THEN -short ELSE 0]

\* The quantity of an asset that a notional of fraction * equity buys at a price.
Affordable(fraction, equity, price, unit) ==
  (fraction.num * equity) \div (fraction.den * price * unit)

Exceeds(fraction, equity, position, price, unit) ==
  Magnitude(position) * price * unit * fraction.den > fraction.num * equity

\* What a position is worth at the touch is not looked at when nothing is proposed.
TouchOf(ask, bid, q) == IF q > 0 THEN ask ELSE bid

LimitedFromFlat(fraction, equity, q, held, ask, bid, unit) ==   \* mutant of Limited
  LET price == TouchOf(ask, bid, q) IN
    IF q # 0 /\ Exceeds(fraction, equity, q, price, unit)
      THEN Signed(Affordable(fraction, equity, price, unit), q) ELSE q

\* FractionalLimitPolicy: the order that takes the position to its cap when the
\* one proposed would take it past.
Limited(fraction, equity, q, held, ask, bid, unit) ==
  LET price == TouchOf(ask, bid, q)
      projected == held + q
  IN  IF q # 0 /\ Exceeds(fraction, equity, projected, price, unit)
        THEN Signed(Affordable(fraction, equity, price, unit), projected) - held
        ELSE q

\* Its two paths over the assets.
FractionalLimit(fraction, equity, proposed, balance, ask, bid, unit) ==
  [a \in DOMAIN proposed |->
     IF fraction.num * equity <= 0 THEN 0
     ELSE Limited(fraction, equity, proposed[a], balance[a], ask[a], bid[a], unit)]

FractionalLimitVector(fraction, equity, proposed, balance, ask, bid, unit) ==
  LET price == [a \in DOMAIN proposed |-> IF proposed[a] >= 0 THEN ask[a] ELSE bid[a]]
      projected == [a \in DOMAIN proposed |-> balance[a] + proposed[a]]
      over == {a \in DOMAIN proposed :
                 proposed[a] # 0 /\ Exceeds(fraction, equity, projected[a], price[a], unit)}
  IN  IF fraction.num * equity <= 0 THEN [a \in DOMAIN proposed |-> 0]
      ELSE [a \in DOMAIN proposed |->
              IF a \in over
                THEN Signed(Affordable(fraction, equity, price[a], unit), projected[a]) - balance[a]
                ELSE proposed[a]]

\* FractionalKellyPolicy, with probabilities and prices in parts of `one`: Kelly's
\* fraction p - (1 - p) ask / (1 - ask) is (p - ask) / (1 - ask).
KellyFraction(p, ask, one) ==
  IF ask < one /\ p > ask THEN [num |-> p - ask, den |-> one - ask] ELSE [num |-> 0, den |-> 1]

FractionalKelly(fraction, equity, probability, ask, one, unit) ==
  [a \in DOMAIN probability |->
     LET kelly == KellyFraction(probability[a], ask[a], one) IN
       IF equity <= 0 \/ kelly.num = 0 THEN 0
       ELSE (kelly.num * fraction.num * equity) \div (kelly.den * fraction.den * ask[a] * unit)]

FractionalKellyVector(fraction, equity, probability, ask, one, unit) ==
  LET edge == {a \in DOMAIN probability : ask[a] < one /\ probability[a] > ask[a]}
      stake == [a \in DOMAIN probability |->
                  IF a \in edge THEN (probability[a] - ask[a]) * fraction.num * equity ELSE 0]
      odds == [a \in DOMAIN probability |-> IF a \in edge THEN one - ask[a] ELSE 1]
  IN  IF equity <= 0 THEN [a \in DOMAIN probability |-> 0]
      ELSE [a \in DOMAIN probability |-> stake[a] \div (odds[a] * fraction.den * ask[a] * unit)]
=============================================================================
