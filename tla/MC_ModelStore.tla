--------------------------- MODULE MC_ModelStore ---------------------------
(* ModelStore for TLC, with finished models that have weights and a           *)
(* checkpoint or are a JSON envelope alone: a trainer on its own that may be  *)
(* stopped, beside inference, on a local directory, in S3 or over a store of  *)
(* an older release, or the trainers of a group at the same time, who persist *)
(* models without checkpoints.                                                *)
EXTENDS ModelStore, TLC

CONSTANTS
  net, early, line,  \* a network, its checkpoint, a linear model
  Lonely             \* the trainer that may be on its own

Full == [finished |-> net, checkpoints |-> <<early>>]
Small == {[finished |-> m, checkpoints |-> <<>>] : m \in {net, line}}
MCResults == {Full} \union Small

First == CHOOSE at \in Times : \A b \in Times : at <= b

Present(who) ==
  pc = [a \in Trainers \union Readers |-> IF a \in who THEN "idle" ELSE "absent"]
MayRecord(jobs) == plans = [t \in Trainers |-> jobs]

New == legacy = {}
Upgraded ==
  /\ legacy = {line}
  /\ \/ manifest = <<>>
     \/ \E run \in Runs : run.model = line /\ run.at = First /\ manifest = <<run>>

\* On its own, with every run; and, in S3 or after an upgrade, with fewer.
OnItsOwn ==
  /\ Present(Readers \union {Lonely}) /\ stops = MaxCrashes
  /\ \/ /\ store = "local" /\ New
        /\ MayRecord({j \in Jobs : j.result = Full \/ j.result.finished = line})
     \/ /\ (store = "s3" /\ New) \/ (store \in {"local", "s3"} /\ Upgraded)
        /\ MayRecord({j \in Jobs : j.result \in Small /\ j.id = NoId})

Together(times) ==
  /\ Present(Trainers) /\ stops = 0 /\ store = "local" /\ New
  /\ MayRecord({j \in Jobs : j.result \in Small /\ j.at \in times})

MCInit == (OnItsOwn \/ Together({First})) /\ Init
MCSpec == MCInit /\ [][Next]_vars /\ Fairness

LostInit == Together(Times) /\ Init
LostSpec == LostInit /\ [][Next]_vars /\ Fairness
=============================================================================
