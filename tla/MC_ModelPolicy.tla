--------------------------- MODULE MC_ModelPolicy ---------------------------
(* The passes of WalkForward over whole frames and those of ModelPolicy row  *)
(* by row, for TLC: a behaviour is one or the other.                         *)
EXTENDS ModelPolicy, MC_WalkForward

CONSTANT PolicyRows  \* bound on the rows of a policy's backtest

PolicySchedulers == {{Frozen}, {Every(2)}, {Every(3)}, {Metric(0, 1)}, {Every(3), Metric(0, 2)}}

\* A pass over a frame has no history.
InBatch == history = 0

MCInit ==
  \/ /\ Init
     /\ history = 0 /\ slots = <<>> /\ start = 0 /\ size = 0
  \/ PolicyInit /\ total <= PolicyRows /\ scheduler \in PolicySchedulers

MCStep ==
  \/ InBatch /\ Step /\ UNCHANGED buffer
  \/ ~InBatch /\ PolicyStep

MCNext == MCStep \/ (Stop /\ UNCHANGED buffer)

MCSpec == MCInit /\ [][MCNext]_policyVars /\ WF_policyVars(MCStep)
=============================================================================
