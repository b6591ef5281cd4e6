--------------------------- MODULE MC_WalkForward ---------------------------
(* WalkForward over short frames with every kind of scheduler and splitter.  *)
EXTENDS WalkForward

MCSchedulers ==
  {{Frozen}, {Every(1)}, {Every(2)}, {Every(3)}, {Metric(0, 1)}, {Metric(0, 2)},
   {Every(3), Metric(0, 2)}, {Every(2), Every(3)}, {Frozen, Every(2)},
   {Metric(0, 1), Metric(1, 2)}}

Count(n) == [num |-> n, den |-> 0]
Part(n, d) == [num |-> n, den |-> d]

MCSplitters ==
  [validation : {Count(0), Count(1), Part(1, 3)}, test : {Count(0), Count(2), Part(1, 5)},
   gap : {0, 1}, purge : {0, 2}, batch : {0, 2}]

MCFrozen == {{Frozen}}
=============================================================================
