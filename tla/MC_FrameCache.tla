--------------------------- MODULE MC_FrameCache ---------------------------
(* FrameCache for TLC: an executor on its own whose budget changes from run   *)
(* to run and that may be stopped MaxCrashes times, or executors that share   *)
(* the entry, each with a budget the frame is within, and one crash.          *)
EXTENDS FrameCache, TLC

CONSTANT Lonely     \* the executor that may be on its own

MCInit ==
  /\ \/ /\ pc = [e \in Executors |-> IF e = Lonely THEN "idle" ELSE "absent"]
        /\ budgets = [e \in Executors |-> ShardCounts]
        /\ crashes = 0
     \/ /\ pc = [e \in Executors |-> "idle"]
        /\ budgets = [e \in Executors |-> {1}]
        /\ crashes = MaxCrashes - 1
  /\ Init

MCSpec == MCInit /\ [][Next]_vars /\ Fairness
=============================================================================
