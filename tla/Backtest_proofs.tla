--------------------------- MODULE Backtest_proofs ---------------------------
(***************************************************************************)
(* Theorems about Backtest for any number of assets, any quotes, orders,   *)
(* limits and configurations.  BookInv is inductive; with it every step of *)
(* a configuration without rates, slippage and limits is a step of the     *)
(* lean executor.  MoneyInv adds what is worth what: the equity that gates *)
(* fills against the book's, and what a reached order would cost.          *)
(***************************************************************************)
EXTENDS Backtest, Recursion, TLAPS

-----------------------------------------------------------------------------
(* Tasks *)

\* Of the tasks of a row each concerns an asset, and those before the orders leave
\* the lean executor's asset where it is.
LEMMA NarrowTasks ==
  ASSUME task \in 1..Tasks, ~config.wide
  PROVE  /\ Task.asset \in Assets /\ Task.kind \in {"cancel", "buy", "sell", "order"}
         /\ LeanAsset = Task.asset
         /\ Task.kind # "order" => task # Tasks /\ task \div 4 + 1 = LeanAsset
         /\ Task.kind = "order" => task \div 4 = LeanAsset
<1>1. Width \in Nat \ {0} /\ Tasks = 4 * Width /\ task \in 1..(4 * Width)
  BY WidthAssumption DEF Tasks
<1>2. PICK k \in 0..3, d \in 0..(Width - 1) : task = 4 * d + k + 1
  <2> DEFINE n == task - 1
  <2>1. n \in 0..(4 * Width - 1) /\ task = n + 1
    BY <1>1
  <2>2. n \div 4 \in Int /\ n % 4 \in 0..3 /\ n = (4 * (n \div 4)) + (n % 4)
    BY <2>1
  <2>3. n \div 4 \in 0..(Width - 1)
    BY <1>1, <2>1, <2>2
  <2>4. QED
    BY <2>1, <2>2, <2>3
<1>3. (task - 1) % 4 = k /\ (task - 1) \div 4 = d
  BY <1>1, <1>2
<1>4. Task = [asset |-> d + 1, kind |-> <<"cancel", "buy", "sell", "order">>[k + 1]]
  BY <1>3 DEF Task, NarrowTask
<1>5. LeanAsset = d + 1 /\ d + 1 \in Assets
  BY <1>1, <1>2, <1>3 DEF LeanAsset, Assets
<1>6. /\ k = 0 => Task.kind = "cancel"
      /\ k = 1 => Task.kind = "buy"
      /\ k = 2 => Task.kind = "sell"
      /\ k = 3 => Task.kind = "order"
  BY <1>4
<1>7. k # 3 => task # Tasks /\ task \div 4 = d
  BY <1>1, <1>2
<1>8. k = 3 => task \div 4 = d + 1
  BY <1>1, <1>2
<1>9. QED
  BY <1>2, <1>4, <1>5, <1>6, <1>7, <1>8

LEMMA WideTasks ==
  ASSUME task \in 1..Tasks, config.wide
  PROVE  /\ Task.asset \in Assets /\ Task.kind \in {"cancel", "buy", "sell", "order"}
         /\ Task.kind = "order" <=> task > 3 * Width
         /\ Task.kind = "order" => LeanAsset = Task.asset /\ Task.asset = task - 3 * Width
<1>1. Width \in Nat \ {0} /\ Tasks = 4 * Width /\ task \in 1..(4 * Width)
  BY WidthAssumption DEF Tasks
<1>2. CASE task <= Width
  BY <1>1, <1>2 DEF Task, WideTask, Assets
<1>3. CASE Width < task /\ task <= 3 * Width
  <2> DEFINE n == task - Width - 1
  <2>1. n \in 0..(2 * Width - 1)
    BY <1>1, <1>3
  <2>2. n \div 2 + 1 \in Assets /\ n % 2 \in {0, 1}
    BY <1>1, <2>1 DEF Assets
  <2>3. Task = [asset |-> n \div 2 + 1, kind |-> <<"buy", "sell">>[(n % 2) + 1]]
    BY <1>1, <1>3 DEF Task, WideTask
  <2>4. Task.kind \in {"buy", "sell"}
    BY <2>2, <2>3
  <2>5. QED
    BY <1>1, <1>3, <2>2, <2>3, <2>4
<1>4. CASE task > 3 * Width
  <2>1. Task = [asset |-> task - 3 * Width, kind |-> "order"]
    BY <1>1, <1>4 DEF Task, WideTask
  <2>2. LeanAsset = task - 3 * Width
    BY <1>1, <1>4 DEF LeanAsset
  <2>3. QED
    BY <1>1, <1>4, <2>1, <2>2 DEF Assets
<1>5. QED
  BY <1>1, <1>2, <1>3, <1>4

\* What Advance does to the asset that the lean executor sees.
LEMMA LeanAdvances ==
  ASSUME task \in 1..Tasks, Advance
  PROVE  /\ task' \in 1..Tasks /\ pc' \in {"row", "fill"}
         /\ pc' = "row" => task' = 1
         /\ Task.asset \in Assets /\ Task.kind \in {"cancel", "buy", "sell", "order"}
         /\ LeanAsset \in Assets
         /\ Task.kind # "order" => LeanAsset' = LeanAsset /\ pc' = "fill"
         /\ Task.kind = "order" =>
              /\ LeanAsset = Task.asset
              /\ LeanAsset' = (IF LeanAsset = Width THEN 1 ELSE LeanAsset + 1)
              /\ pc' = (IF LeanAsset = Width THEN "row" ELSE "fill")
<1>1. /\ Width \in Nat \ {0} /\ Tasks = 4 * Width /\ task \in 1..(4 * Width)
      /\ task' = (IF task = Tasks THEN 1 ELSE task + 1)
      /\ pc' = (IF task = Tasks THEN "row" ELSE "fill")
      /\ config' = config
  BY WidthAssumption DEF Tasks, Advance
<1>2. task' \in 1..Tasks /\ pc' \in {"row", "fill"} /\ (pc' = "row" => task' = 1)
  BY <1>1
<1>3. CASE ~config.wide
  <2>1. LeanAsset' = (task' - 1) \div 4 + 1
    BY <1>1, <1>3 DEF LeanAsset
  <2>2. CASE Task.kind # "order"
    <3>1. task' = task + 1
      BY <1>1, <1>3, <2>2, NarrowTasks
    <3>2. LeanAsset' = task \div 4 + 1
      BY <1>1, <2>1, <3>1
    <3>3. QED
      BY <1>1, <1>2, <1>3, <2>2, <3>1, <3>2, NarrowTasks
  <2>3. CASE Task.kind = "order"
    <3>1. task \div 4 = LeanAsset /\ LeanAsset = Task.asset
      BY <1>3, <2>3, NarrowTasks
    <3>2. task = 4 * LeanAsset
      <4>1. (task - 1) \div 4 + 1 = LeanAsset
        BY <1>3 DEF LeanAsset
      <4>2. QED
        BY <1>1, <3>1, <4>1
    <3>3. task = Tasks <=> LeanAsset = Width
      BY <1>1, <3>1, <3>2
    <3>4. LeanAsset' = (IF LeanAsset = Width THEN 1 ELSE LeanAsset + 1)
      <4>1. CASE task = Tasks
        BY <1>1, <2>1, <3>3, <4>1
      <4>2. CASE task # Tasks
        <5>1. task' - 1 = task
          BY <1>1, <4>2
        <5>2. QED
          BY <2>1, <3>1, <3>3, <4>2, <5>1
      <4>3. QED
        BY <4>1, <4>2
    <3>5. QED
      BY <1>1, <1>2, <1>3, <2>3, <3>1, <3>3, <3>4, NarrowTasks
  <2>4. QED
    BY <2>2, <2>3
<1>4. CASE config.wide
  <2>1. /\ LeanAsset = (IF task <= 3 * Width THEN 1 ELSE task - 3 * Width)
        /\ LeanAsset' = (IF task' <= 3 * Width THEN 1 ELSE task' - 3 * Width)
    BY <1>1, <1>4 DEF LeanAsset
  <2>2. LeanAsset \in Assets
    BY <1>1, <2>1 DEF Assets
  <2>3. CASE Task.kind # "order"
    <3>1. task <= 3 * Width
      BY <1>1, <1>4, <2>3, WideTasks
    <3>2. QED
      BY <1>1, <1>2, <1>4, <2>1, <2>2, <2>3, <3>1, WideTasks
  <2>4. CASE Task.kind = "order"
    <3>1. task > 3 * Width
      BY <1>1, <1>4, <2>4, WideTasks
    <3>2. QED
      BY <1>1, <1>2, <1>4, <2>1, <2>2, <2>4, <3>1, WideTasks
  <2>5. QED
    BY <2>3, <2>4
<1>5. QED
  BY <1>3, <1>4

-----------------------------------------------------------------------------
(* The invariant *)

Orders == [qty : Nat, px : Int]

NothingRests == \A side \in Sides, a \in Assets : work[side][a].qty = 0

\* Types, without what is added up.
Types ==
  /\ config \in Configs
  /\ pc \in {"row", "fill", "ruined"}
  /\ task \in 1..Tasks
  /\ market \in [Assets -> Quotes]
  /\ balance \in [Assets -> Int] /\ order \in [Assets -> Int] /\ before \in [Assets -> Int]
  /\ work \in [Sides -> [Assets -> Orders]]

\* A row begins with its first task.
RowsBeginFirst == pc # "fill" => task = 1

\* Without limits nothing rests.
LimitsRest == ~config.limits => NothingRests

\* Without limits, what an asset executes is executed at its turn.
TurnsAhead ==
  pc = "fill" /\ ~config.limits => \A a \in Assets : a >= LeanAsset => order[a] = 0

BookInv ==
  Types /\ RowsBeginFirst /\ LimitsRest /\ TurnsAhead /\ OrdersExplainPositions

LEMMA InitInv == Init => BookInv
<1> SUFFICES ASSUME Init PROVE BookInv
  OBVIOUS
<1>1. 1 \in 1..Tasks
  BY WidthAssumption DEF Tasks
<1>2. NoWork \in [Sides -> [Assets -> Orders]] /\ Nothing \in [Assets -> Int]
  BY DEF NoWork, NoOrder, Orders, Nothing
<1>3. Types /\ RowsBeginFirst /\ TurnsAhead
  BY <1>1, <1>2 DEF Init, Types, RowsBeginFirst, TurnsAhead
<1>4. LimitsRest
  BY DEF Init, LimitsRest, NothingRests, NoWork, NoOrder
<1>5. OrdersExplainPositions
  BY DEF Init, OrdersExplainPositions, Nothing
<1>6. QED
  BY <1>3, <1>4, <1>5 DEF BookInv

LEMMA BeginRowInv ==
  ASSUME BookInv, BeginRow
  PROVE  BookInv'
<1>1. 1 \in 1..Tasks /\ Nothing \in [Assets -> Int] /\ NoWork \in [Sides -> [Assets -> Orders]]
  BY WidthAssumption DEF Tasks, NoWork, NoOrder, Orders, Nothing
<1>2. \A side \in Sides, a \in Assets : NoWork[side][a].qty = 0
  BY DEF NoWork, NoOrder
<1>3. task' = 1 /\ config' = config /\ before' = balance /\ market' \in [Assets -> Quotes]
  BY DEF BeginRow
<1>4. \/ /\ pc' = "ruined" /\ balance' = Nothing /\ work' = NoWork
         /\ order' = [a \in Assets |-> -balance[a]]
      \/ /\ pc' = "fill" /\ order' = Nothing /\ UNCHANGED <<balance, work>>
  BY DEF BeginRow
<1>5. CASE pc' = "ruined"
  <2>1. balance' = Nothing /\ work' = NoWork /\ order' = [a \in Assets |-> -balance[a]]
    BY <1>4, <1>5
  <2>2. Types' /\ RowsBeginFirst' /\ TurnsAhead'
    BY <1>1, <1>3, <1>5, <2>1 DEF BookInv, Types, RowsBeginFirst, TurnsAhead
  <2>3. LimitsRest'
    BY <1>2, <2>1 DEF LimitsRest, NothingRests
  <2>4. OrdersExplainPositions'
    BY <1>3, <2>1 DEF BookInv, Types, OrdersExplainPositions, Nothing
  <2>5. QED
    BY <2>2, <2>3, <2>4 DEF BookInv
<1>6. CASE pc' = "fill"
  <2>1. order' = Nothing /\ UNCHANGED <<balance, work>>
    BY <1>4, <1>6
  <2>2. Types' /\ RowsBeginFirst' /\ LimitsRest'
    BY <1>1, <1>3, <1>6, <2>1
    DEF BookInv, Types, RowsBeginFirst, LimitsRest, NothingRests
  <2>3. TurnsAhead' /\ OrdersExplainPositions'
    BY <1>3, <2>1 DEF BookInv, Types, TurnsAhead, OrdersExplainPositions, Nothing
  <2>4. QED
    BY <2>2, <2>3 DEF BookInv
<1>7. QED
  BY <1>4, <1>5, <1>6

LEMMA CancelInv ==
  ASSUME BookInv, Cancel
  PROVE  BookInv'
<1>1. /\ task \in 1..Tasks /\ Advance /\ pc = "fill" /\ Task.kind = "cancel"
      /\ UNCHANGED <<config, market, balance, order, before>>
  BY DEF BookInv, Types, Cancel, Advance
<1>2. /\ task' \in 1..Tasks /\ pc' = "fill" /\ LeanAsset' = LeanAsset /\ Task.asset \in Assets
  BY <1>1, LeanAdvances
<1>3. NoOrder \in Orders /\ NoOrder.qty = 0
  BY DEF NoOrder, Orders
<1>4. \/ work' = work
      \/ work' = [side \in Sides |-> [work[side] EXCEPT ![Task.asset] = NoOrder]]
  BY DEF Cancel
<1>5. work' \in [Sides -> [Assets -> Orders]] /\ (NothingRests => NothingRests')
  <2>1. CASE work' = work
    BY <2>1 DEF BookInv, Types, NothingRests
  <2>2. CASE work' = [side \in Sides |-> [work[side] EXCEPT ![Task.asset] = NoOrder]]
    <3>1. \A side \in Sides : work[side] \in [Assets -> Orders]
      BY DEF BookInv, Types
    <3>2. ASSUME NEW side \in Sides
          PROVE  work'[side] \in [Assets -> Orders]
                 /\ \A a \in Assets : work'[side][a] \in {NoOrder, work[side][a]}
      BY <1>2, <1>3, <2>2, <3>1
    <3>3. NothingRests => NothingRests'
      BY <1>3, <3>2 DEF NothingRests
    <3>4. QED
      BY <2>2, <3>2, <3>3
  <2>3. QED
    BY <1>4, <2>1, <2>2
<1>6. QED
  BY <1>1, <1>2, <1>5
  DEF BookInv, Types, RowsBeginFirst, LimitsRest, TurnsAhead, OrdersExplainPositions

\* What a fill does to the positions and to what the row reports.
LEMMA ChangesMove ==
  ASSUME Types, OrdersExplainPositions, NEW a \in Assets, NEW signed \in Int, NEW px, NEW fee,
         NEW drop, Changes(a, signed, px, fee, drop), before' = before
  PROVE  /\ balance' \in [Assets -> Int] /\ order' \in [Assets -> Int]
         /\ OrdersExplainPositions'
         /\ \A b \in Assets \ {a} : order'[b] = order[b]
<1>1. /\ balance' = [balance EXCEPT ![a] = @ + signed]
      /\ order' = [order EXCEPT ![a] = @ + signed]
  BY DEF Changes
<1>2. QED
  BY <1>1 DEF Types, OrdersExplainPositions

LEMMA FillWorkInv ==
  ASSUME BookInv, FillWork
  PROVE  BookInv'
<1>1. /\ task \in 1..Tasks /\ Advance /\ pc = "fill" /\ Task.kind \in Sides
      /\ UNCHANGED <<config, market, before>>
  BY DEF BookInv, Types, FillWork, Advance
<1>2. /\ task' \in 1..Tasks /\ pc' = "fill" /\ LeanAsset' = LeanAsset /\ Task.asset \in Assets
  BY <1>1, LeanAdvances DEF Sides
<1> DEFINE a == Task.asset
           side == Task.kind
           px == work[side][a].px
           signed == Sign(side) * work[side][a].qty
           fee == Fee(signed, px, config.maker)
           drop == Drop(a, signed, px, fee)
<1>3. signed \in Int /\ (work[side][a].qty = 0 => signed = 0)
  <2>1. work[side][a].qty \in Nat /\ Sign(side) \in {1, -1}
    BY <1>1, <1>2 DEF BookInv, Types, Orders, Sign
  <2>2. QED
    BY <2>1
<1>4. \/ /\ signed # 0 /\ Changes(a, signed, px, fee, drop)
         /\ work' = [work EXCEPT ![side][a] = NoOrder]
      \/ UNCHANGED <<balance, order, work>>
  BY DEF FillWork
<1>5. CASE UNCHANGED <<balance, order, work>>
  BY <1>1, <1>2, <1>5
  DEF BookInv, Types, RowsBeginFirst, LimitsRest, NothingRests, TurnsAhead,
      OrdersExplainPositions
<1>6. CASE /\ signed # 0 /\ Changes(a, signed, px, fee, drop)
           /\ work' = [work EXCEPT ![side][a] = NoOrder]
  <2>1. config.limits
    BY <1>1, <1>2, <1>3, <1>6, ConfigsAssumption DEF BookInv, Types, LimitsRest, NothingRests
  <2>2. balance' \in [Assets -> Int] /\ order' \in [Assets -> Int] /\ OrdersExplainPositions'
    <3> HIDE DEF signed, px, fee, drop
    <3>1. QED
      BY <1>1, <1>2, <1>3, <1>6, ChangesMove DEF BookInv
  <2>3. work' \in [Sides -> [Assets -> Orders]]
    <3>1. NoOrder \in Orders
      BY DEF NoOrder, Orders
    <3>2. QED
      BY <1>1, <1>2, <1>6, <3>1 DEF BookInv, Types
  <2>4. QED
    BY <1>1, <1>2, <2>1, <2>2, <2>3
    DEF BookInv, Types, RowsBeginFirst, LimitsRest, TurnsAhead
<1>7. QED
  BY <1>4, <1>5, <1>6

LEMMA FillOrderInv ==
  ASSUME BookInv, FillOrder
  PROVE  BookInv'
<1>1. /\ task \in 1..Tasks /\ Advance /\ pc = "fill" /\ Task.kind = "order"
      /\ UNCHANGED <<config, market, before>>
  BY DEF BookInv, Types, FillOrder, Advance
<1>2. /\ task' \in 1..Tasks /\ pc' \in {"row", "fill"} /\ (pc' = "row" => task' = 1)
      /\ Task.asset \in Assets /\ LeanAsset = Task.asset /\ LeanAsset \in Assets
      /\ pc' = "fill" => LeanAsset' = LeanAsset + 1
  BY <1>1, LeanAdvances
<1>3. PICK q \in Quantities, limit \in {NoLimit} \union (IF config.limits THEN Limits ELSE {}) :
        Trade(Task.asset, q, limit)
  BY DEF FillOrder
<1> DEFINE a == Task.asset
           px == Effective(a, q)
           fee == Fee(q, px, config.taker)
           drop == IF q > 0 THEN Drop(a, q, px, fee) ELSE SaleDrop(fee)
<1>4. \/ UNCHANGED <<balance, order, work>>
      \/ /\ Rests(q, px, limit) /\ work' = Replace(a, q, limit) /\ UNCHANGED <<balance, order>>
      \/ Changes(a, q, px, fee, drop) /\ UNCHANGED work
  BY <1>3 DEF Trade
<1>5. q \in Int /\ Abs(q) \in Nat
  BY QuantitiesAssumption DEF Abs
<1>6. CASE UNCHANGED <<balance, order, work>>
  BY <1>1, <1>2, <1>6
  DEF BookInv, Types, RowsBeginFirst, LimitsRest, NothingRests, TurnsAhead,
      OrdersExplainPositions, Assets
<1>7. CASE /\ Rests(q, px, limit) /\ work' = Replace(a, q, limit)
           /\ UNCHANGED <<balance, order>>
  <2>1. config.limits /\ limit \in Int
    BY <1>3, <1>7, LimitsAssumption DEF Rests
  <2>2. work' \in [Sides -> [Assets -> Orders]]
    <3>1. [qty |-> Abs(q), px |-> limit] \in Orders
      BY <1>5, <2>1 DEF Orders
    <3>2. (IF q > 0 THEN "buy" ELSE "sell") \in Sides
      BY DEF Sides
    <3>3. work' = [work EXCEPT ![IF q > 0 THEN "buy" ELSE "sell"][a] =
                                 [qty |-> Abs(q), px |-> limit]]
      BY <1>7 DEF Replace
    <3>4. QED
      BY <1>2, <3>1, <3>2, <3>3 DEF BookInv, Types
  <2>3. QED
    BY <1>1, <1>2, <1>7, <2>1, <2>2
    DEF BookInv, Types, RowsBeginFirst, LimitsRest, TurnsAhead, OrdersExplainPositions
<1>8. CASE Changes(a, q, px, fee, drop) /\ UNCHANGED work
  <2>1. /\ balance' \in [Assets -> Int] /\ order' \in [Assets -> Int] /\ OrdersExplainPositions'
        /\ \A b \in Assets \ {a} : order'[b] = order[b]
    <3> HIDE DEF px, fee, drop
    <3>1. QED
      BY <1>1, <1>2, <1>5, <1>8, ChangesMove DEF BookInv
  <2>2. TurnsAhead'
    <3>1. SUFFICES ASSUME pc' = "fill", ~config.limits, NEW b \in Assets, b >= LeanAsset + 1
                   PROVE  order'[b] = 0
      BY <1>1, <1>2 DEF TurnsAhead
    <3>2. b # a /\ b >= LeanAsset
      BY <1>2, <3>1, WidthAssumption DEF Assets
    <3>3. QED
      BY <1>1, <2>1, <3>1, <3>2 DEF BookInv, TurnsAhead
  <2>3. QED
    BY <1>1, <1>2, <1>8, <2>1, <2>2
    DEF BookInv, Types, RowsBeginFirst, LimitsRest, NothingRests
<1>9. QED
  BY <1>4, <1>6, <1>7, <1>8

LEMMA Inductive == BookInv /\ [Next]_vars => BookInv'
<1> SUFFICES ASSUME BookInv, [Next]_vars PROVE BookInv'
  OBVIOUS
<1>1. CASE BeginRow
  BY <1>1, BeginRowInv
<1>2. CASE Cancel
  BY <1>2, CancelInv
<1>3. CASE FillWork
  BY <1>3, FillWorkInv
<1>4. CASE FillOrder
  BY <1>4, FillOrderInv
<1>5. CASE UNCHANGED vars
  BY <1>5
  DEF vars, BookInv, Types, RowsBeginFirst, LimitsRest, NothingRests, TurnsAhead, LeanAsset,
      OrdersExplainPositions
<1>6. QED
  BY <1>1, <1>2, <1>3, <1>4, <1>5 DEF Next, End

LEMMA Invariance == Spec => []BookInv
<1>1. QED
  BY InitInv, Inductive, PTL DEF Spec

\* The executed orders that a row reports explain the positions after it, whatever
\* the executor, the orders, the limits and the cancels (_execute, _execute_wide).
THEOREM PositionsAreExplained == Spec => []OrdersExplainPositions
<1>1. BookInv => OrdersExplainPositions
  BY DEF BookInv
<1>2. QED
  BY <1>1, Invariance, PTL

-----------------------------------------------------------------------------
(* The full executors implement the lean one *)

LEMMA SameBook ==
  /\ Lean!Assets = Assets /\ Lean!Nothing = Nothing
  /\ \A b, m : Lean!Touch(m, b) = Touch(m, b) /\ Lean!Bids(m) = Bids(m)
  /\ \A b, price : Lean!Value(b, price) = Value(b, price)
  /\ \A c, amount : Lean!Total(c, amount) = Total(c, amount)
  /\ \A worth : Lean!Ruined(worth) = Ruined(worth)
BY DEF Lean!Assets, Assets, Lean!Nothing, Nothing, Lean!Touch, Touch, Lean!Bids, Bids,
       Lean!Value, Value, Lean!Total, Total, Lean!Ruined, Ruined

\* The asset the lean executor begins a row with.
LEMMA FirstAsset == ASSUME task = 1 PROVE LeanAsset = 1
BY WidthAssumption DEF LeanAsset

LEMMA LeanInit == Init /\ IsPlain(config) => Lean!Init
<1> SUFFICES ASSUME Init PROVE Lean!Init
  OBVIOUS
<1>1. LeanAsset = 1
  BY FirstAsset DEF Init
<1>2. QED
  BY <1>1, SameBook DEF Init, Lean!Init

LEMMA LeanBeginRow ==
  ASSUME BookInv, IsPlain(config), BeginRow
  PROVE  Lean!BeginRow
<1>1. config' = config /\ task = 1 /\ task' = 1 /\ pc = "row" /\ row < MaxRows /\ row' = row + 1
      /\ unfilled' = Nothing
  BY DEF BeginRow, BookInv, RowsBeginFirst
<1>2. LeanAsset' = 1
  BY <1>1, WidthAssumption DEF LeanAsset
<1>3. PICK m \in [Assets -> Quotes] :
       /\ market' = m
       /\ equity' = Total(cash, Value(balance, Bids(m)))
       /\ IF Ruined(equity')
            THEN /\ pc' = "ruined"
                 /\ cash' = Total(cash, Proceeds(m))
                 /\ balance' = Nothing
                 /\ order' = [a \in Assets |-> -balance[a]]
            ELSE /\ pc' = "fill"
                 /\ order' = Nothing
                 /\ UNCHANGED <<cash, balance>>
  BY DEF BeginRow
<1>4. Proceeds(m) = Value(balance, Touch(m, balance))
  <2>1. Touch(m, balance) \in [Assets -> Int]
    BY QuotesAssumption DEF Touch
  <2>2. \A a \in Assets : Value(balance, Touch(m, balance))[a] \in Int /\ CloseFees(m)[a] = 0
    <3>1. SUFFICES ASSUME NEW a \in Assets
                   PROVE  Value(balance, Touch(m, balance))[a] \in Int /\ CloseFees(m)[a] = 0
      OBVIOUS
    <3>2. /\ balance[a] \in Int /\ Touch(m, balance)[a] \in Int /\ Unit \in Int
          /\ Abs(balance[a]) \in Int /\ config.taker = 0
      BY <2>1, MoneyAssumption DEF BookInv, Types, Abs, IsPlain
    <3>3. Abs(balance[a]) * Touch(m, balance)[a] \in Int /\ balance[a] * Touch(m, balance)[a] \in Int
      BY <3>2
    <3>4. CloseFees(m)[a] = 0
      BY <3>2, <3>3 DEF CloseFees
    <3>5. Value(balance, Touch(m, balance))[a] \in Int
      BY <3>2, <3>3 DEF Value
    <3>6. QED
      BY <3>4, <3>5
  <2>3. Value(balance, Touch(m, balance)) = [a \in Assets |-> Value(balance, Touch(m, balance))[a]]
    BY DEF Value
  <2>4. Proceeds(m) = [a \in Assets |-> Value(balance, Touch(m, balance))[a] - CloseFees(m)[a]]
    BY DEF Proceeds
  <2>5. QED
    BY <2>2, <2>3, <2>4
<1>5. QED
  BY <1>1, <1>2, <1>3, <1>4, SameBook DEF Lean!BeginRow

\* What the lean executor does not see does not move while nothing rests.
LEMMA LeanIdle ==
  ASSUME BookInv, IsPlain(config), Cancel \/ FillWork
  PROVE  UNCHANGED <<pc, row, LeanAsset, market, cash, balance, equity, order, unfilled>>
<1>1. NothingRests
  BY DEF BookInv, LimitsRest, IsPlain
<1>2. /\ task \in 1..Tasks /\ Advance /\ pc = "fill" /\ UNCHANGED <<row, market, unfilled>>
      /\ Task.kind # "order"
  BY DEF BookInv, Types, Cancel, FillWork, Advance, Sides
<1>3. pc' = pc /\ LeanAsset' = LeanAsset /\ Task.asset \in Assets
  BY <1>2, LeanAdvances
<1>4. UNCHANGED <<cash, balance, equity, order>>
  <2>1. CASE Cancel
    BY <2>1 DEF Cancel
  <2>2. CASE FillWork
    <3>1. Sign(Task.kind) * work[Task.kind][Task.asset].qty = 0
      BY <1>1, <1>3, <2>2 DEF FillWork, NothingRests, Sign
    <3>2. QED
      BY <2>2, <3>1 DEF FillWork
  <2>3. QED
    BY <2>1, <2>2
<1>5. QED
  BY <1>2, <1>3, <1>4

LEMMA LeanFillOrder ==
  ASSUME BookInv, IsPlain(config), FillOrder
  PROVE  Lean!FillNext
<1>1. /\ task \in 1..Tasks /\ Advance /\ pc = "fill" /\ Task.kind = "order"
      /\ UNCHANGED <<row, market>>
  BY DEF BookInv, Types, FillOrder, Advance
<1>2. /\ LeanAsset = Task.asset /\ LeanAsset \in Assets
      /\ LeanAsset' = (IF LeanAsset = Width THEN 1 ELSE LeanAsset + 1)
      /\ pc' = (IF LeanAsset = Width THEN "row" ELSE "fill")
  BY <1>1, LeanAdvances
<1> DEFINE a == LeanAsset
<1>3. PICK q \in Quantities : Trade(a, q, NoLimit)
  BY <1>2 DEF FillOrder, IsPlain
<1>4. q \in Int /\ Unit \in Int /\ market[a] \in [bid : Nat \ {0}, ask : Nat \ {0}]
  BY <1>2, QuantitiesAssumption, MoneyAssumption, QuotesAssumption DEF BookInv, Types
<1>5. Effective(a, q) = (IF q > 0 THEN market[a].ask ELSE market[a].bid)
  <2>1. config.slip = 0 /\ market[a].ask \in Int /\ market[a].bid \in Int
    BY <1>4 DEF IsPlain
  <2>2. config.slip * (market[a].ask - market[a].bid) = 0
    BY <2>1
  <2>3. QED
    BY <2>1, <2>2 DEF Effective
<1> DEFINE px == IF q > 0 THEN market[a].ask ELSE market[a].bid
           fee == Fee(q, px, config.taker)
           drop == IF q > 0 THEN Drop(a, q, px, fee) ELSE SaleDrop(fee)
<1>6. px \in Int /\ fee = 0
  <2>1. px \in Int /\ Abs(q) \in Int
    BY <1>4 DEF Abs
  <2>2. Abs(q) * px \in Int
    BY <2>1
  <2>3. QED
    BY <2>1, <2>2 DEF Fee, IsPlain
<1>7. q # 0 => drop = Lean!Spread(a, q, px)
  <2>1. CASE q > 0
    <3>1. px - market[a].bid \in Int
      BY <1>4, <1>6
    <3>2. q * (px - market[a].bid) \in Int
      BY <1>4, <3>1
    <3>3. q * (px - market[a].bid) * Unit \in Int
      BY <1>4, <3>2
    <3>4. drop = q * (px - market[a].bid) * Unit
      BY <1>6, <2>1, <3>3 DEF Drop
    <3>5. QED
      BY <3>4 DEF Lean!Spread
  <2>2. CASE q < 0
    <3>1. px - market[a].bid = 0
      BY <1>4, <2>2
    <3>2. Lean!Spread(a, q, px) = 0
      BY <1>4, <3>1 DEF Lean!Spread
    <3>3. drop = 0
      BY <1>4, <1>6, <2>2 DEF SaleDrop
    <3>4. QED
      BY <3>2, <3>3
  <2>3. QED
    BY <1>4, <2>1, <2>2
<1>8. q * px * Unit \in Int /\ q * px * Unit + fee = q * px * Unit
  <2>1. q * px \in Int
    BY <1>4, <1>6
  <2>2. q * px * Unit \in Int
    BY <1>4, <2>1
  <2>3. QED
    BY <1>6, <2>2
<1>9. order \in [Assets -> Int] /\ order[a] = 0
  BY <1>1, <1>2 DEF BookInv, Types, TurnsAhead, IsPlain, Assets
<1>10. ~Rests(q, Effective(a, q), NoLimit)
  BY DEF Rests
<1>11. \/ q = 0 /\ UNCHANGED <<cash, balance, equity, order, unfilled>>
       \/ /\ q > 0 /\ ~(equity - drop >= 0)
          /\ unfilled' = [unfilled EXCEPT ![a] = q]
          /\ UNCHANGED <<equity, cash, balance, order>>
       \/ /\ q # 0 /\ ~(q > 0 /\ ~(equity - drop >= 0))
          /\ equity' = equity - drop
          /\ cash' = cash - q * px * Unit
          /\ balance' = [balance EXCEPT ![a] = @ + q]
          /\ order' = [order EXCEPT ![a] = @ + q]
          /\ UNCHANGED unfilled
  BY <1>3, <1>5, <1>8, <1>10 DEF Trade, Affords, Changes
<1>12. [order EXCEPT ![a] = @ + q] = [order EXCEPT ![a] = q]
  BY <1>2, <1>4, <1>9
<1>13. Lean!Fill(a, q)
  <2> HIDE DEF drop, fee
  <2>1. QED
    BY <1>7, <1>11, <1>12 DEF Lean!Fill
<1>14. QED
  BY <1>1, <1>2, <1>3, <1>13 DEF Lean!FillNext

\* A configuration without rates, slippage, limits and cancels fills as the lean
\* executor, whichever of _execute and _execute_wide the width leads to: the dispatch
\* of BacktestTSFN.batch to _execute_lean changes no result.
THEOREM ImplementsLeanExecutor == Spec => ImplementsLean
<1> DEFINE Idle ==
      UNCHANGED <<pc, row, LeanAsset, market, cash, balance, equity, order, unfilled>>
<1>1. Init => (IsPlain(config) => Lean!Init)
  BY LeanInit
<1>2. BookInv /\ [Next]_vars => [IsPlain(config) => Lean!Next \/ Idle]_vars
  <2> SUFFICES ASSUME BookInv, Next, IsPlain(config) PROVE Lean!Next \/ Idle
    OBVIOUS
  <2>1. CASE BeginRow
    BY <2>1, LeanBeginRow DEF Lean!Next
  <2>2. CASE Cancel \/ FillWork
    BY <2>2, LeanIdle
  <2>3. CASE FillOrder
    BY <2>3, LeanFillOrder DEF Lean!Next
  <2>4. CASE End
    BY <2>4 DEF End, vars, LeanAsset
  <2>5. QED
    BY <2>1, <2>2, <2>3, <2>4 DEF Next
<1>3. QED
  BY <1>1, <1>2, Invariance, PTL DEF Spec, ImplementsLean

-----------------------------------------------------------------------------
(* Money *)

LEMMA TotalIsPartial ==
  ASSUME NEW c, NEW amount
  PROVE  Total(c, amount) = Partial(Width, c, amount)[Width]
BY DEF Total, Partial, Runs

LEMMA TotalType ==
  ASSUME NEW c \in Int, NEW amount \in [Assets -> Int]
  PROVE  Total(c, amount) \in Int
<1>1. Width \in Nat /\ Width \in 0..Width /\ \A i \in 1..Width : amount[i] \in Int
  BY WidthAssumption DEF Assets
<1>2. QED
  BY <1>1, TotalIsPartial, PartialType

LEMMA TotalMoves ==
  ASSUME NEW c \in Int, NEW x \in [Assets -> Int], NEW d \in Int, NEW y \in [Assets -> Int],
         NEW a \in Assets, \A b \in Assets \ {a} : x[b] = y[b]
  PROVE  Total(d, y) - Total(c, x) = (d - c) + (y[a] - x[a])
<1>1. /\ Width \in Nat /\ a \in 1..Width
      /\ \A i \in 1..Width : x[i] \in Int /\ y[i] \in Int
      /\ \A i \in 1..Width : i # a => x[i] = y[i]
  BY WidthAssumption DEF Assets
<1>2. QED
  BY <1>1, TotalIsPartial, PartialMoves

LEMMA ValueType ==
  ASSUME NEW b \in [Assets -> Int], NEW price \in [Assets -> Int]
  PROVE  Value(b, price) \in [Assets -> Int]
<1>1. \A a \in Assets : b[a] * price[a] * Unit \in Int
  <2>1. \A a \in Assets : b[a] \in Int /\ price[a] \in Int /\ Unit \in Int
    BY MoneyAssumption
  <2>2. QED
    BY <2>1, Products
<1>2. QED
  BY <1>1 DEF Value

LEMMA QuoteTypes ==
  ASSUME NEW m \in [Assets -> Quotes]
  PROVE  /\ \A a \in Assets : /\ m[a].bid \in Int /\ m[a].ask \in Int
                              /\ 0 < m[a].bid /\ m[a].bid <= m[a].ask
         /\ Bids(m) \in [Assets -> Int] /\ \A b : Touch(m, b) \in [Assets -> Int]
BY QuotesAssumption DEF Bids, Touch

MoneyTypes == cash \in Int /\ equity \in Int

LEMMA EquityType ==
  ASSUME Types, MoneyTypes
  PROVE  Equity \in Int
BY QuoteTypes, ValueType, TotalType DEF Types, MoneyTypes, Equity

\* A fill takes what it costs against the bid off the book's equity.
LEMMA EquityMoves ==
  ASSUME Types, MoneyTypes, NEW a \in Assets, NEW signed \in Int, NEW px \in Int,
         NEW fee \in Int, NEW drop, Changes(a, signed, px, fee, drop), market' = market
  PROVE  Drop(a, signed, px, fee) \in Int /\ Equity' = Equity - Drop(a, signed, px, fee)
<1> DEFINE x == Value(balance, Bids(market))
           y == Value(balance', Bids(market))
           bid == market[a].bid
<1>1. /\ balance \in [Assets -> Int] /\ balance' = [balance EXCEPT ![a] = @ + signed]
      /\ cash' = cash - (signed * px * Unit + fee) /\ cash \in Int
      /\ bid \in Int /\ Unit \in Int /\ Bids(market) \in [Assets -> Int]
  BY QuoteTypes, MoneyAssumption DEF Types, MoneyTypes, Changes
<1>2. /\ signed * px \in Int /\ signed * px * Unit \in Int
      /\ signed * bid \in Int /\ signed * bid * Unit \in Int
      /\ balance[a] * bid \in Int /\ balance[a] * bid * Unit \in Int
  BY <1>1, Products
<1>3. /\ x \in [Assets -> Int] /\ y \in [Assets -> Int] /\ cash' \in Int
      /\ \A b \in Assets \ {a} : x[b] = y[b]
  <2>1. balance' \in [Assets -> Int] /\ \A b \in Assets \ {a} : balance'[b] = balance[b]
    BY <1>1
  <2>2. \A b \in Assets \ {a} : x[b] = y[b]
    BY <2>1 DEF Value
  <2>3. signed * px * Unit + fee \in Int
    BY <1>2
  <2>4. cash' \in Int
    BY <1>1, <2>3
  <2>5. x \in [Assets -> Int] /\ y \in [Assets -> Int]
    BY <1>1, <2>1, ValueType
  <2>6. QED
    BY <2>2, <2>4, <2>5
<1>4. y[a] - x[a] = signed * bid * Unit
  <2>1. /\ y[a] = (balance[a] + signed) * bid * Unit
        /\ x[a] = balance[a] * bid * Unit
    BY <1>1 DEF Value, Bids
  <2>2. (balance[a] + signed) * bid = balance[a] * bid + signed * bid
    BY <1>1, Products
  <2>3. (balance[a] * bid + signed * bid) * Unit = balance[a] * bid * Unit + signed * bid * Unit
    BY <1>1, <1>2, Products
  <2>4. QED
    BY <1>2, <2>1, <2>2, <2>3
<1>5. Drop(a, signed, px, fee) = signed * px * Unit - signed * bid * Unit + fee
  <2>1. signed * (px - bid) = signed * px - signed * bid
    BY <1>1, Products
  <2>2. (signed * px - signed * bid) * Unit = signed * px * Unit - signed * bid * Unit
    <3>1. Unit * (signed * px - signed * bid) = Unit * (signed * px) - Unit * (signed * bid)
      BY <1>1, <1>2, Products
    <3>2. QED
      BY <1>1, <1>2, <3>1
  <2>3. QED
    BY <2>1, <2>2 DEF Drop
<1>6. Equity = Total(cash, x) /\ Equity' = Total(cash', y)
  BY DEF Equity
<1>7. Total(cash, x) \in Int /\ Total(cash', y) \in Int
  BY <1>1, <1>3, TotalType
<1>8. Total(cash', y) - Total(cash, x) = (cash' - cash) + (y[a] - x[a])
  <2> HIDE DEF x, y
  <2>1. cash \in Int /\ cash' \in Int
    BY <1>1, <1>3
  <2>2. QED
    BY <1>3, <2>1, TotalMoves
<1>9. Drop(a, signed, px, fee) \in Int
  BY <1>1, <1>2, <1>5
<1>10. Equity' - Equity = (cash' - cash) + (y[a] - x[a])
  BY <1>6, <1>8
<1>11. cash' - cash = -(signed * px * Unit + fee)
  BY <1>1, <1>2
<1>12. Equity \in Int /\ Equity' \in Int
  BY <1>6, <1>7
<1> HIDE DEF x, y
<1>13. Equity' - Equity = -(signed * px * Unit + fee) + signed * bid * Unit
  BY <1>4, <1>10, <1>11
<1>14. QED
  BY <1>2, <1>5, <1>9, <1>12, <1>13

-----------------------------------------------------------------------------
(* What gates fills *)

Costless == config.slip = 0 /\ config.taker <= 0

\* The equity that gates fills is the book's where it sees every cost, and where
\* sales cost nothing it is never above the book's and never below zero.
GateInv ==
  pc = "fill" =>
    /\ GateSeesAll => equity = Equity
    /\ Costless => 0 <= equity /\ equity <= Equity

MoneyInv == BookInv /\ MoneyTypes /\ GateInv

LEMMA ConfigTypes ==
  Types => /\ config.taker \in Int /\ config.maker \in Int /\ config.slip \in Nat
           /\ config.wide \in BOOLEAN
BY ConfigsAssumption DEF Types

LEMMA FeeType ==
  ASSUME NEW signed \in Int, NEW px \in Int, NEW rate \in Int
  PROVE  /\ Abs(signed) \in Nat /\ Fee(signed, px, rate) \in Int
         /\ px >= 0 /\ rate >= 0 => Fee(signed, px, rate) >= 0
         /\ px >= 0 /\ rate <= 0 => Fee(signed, px, rate) <= 0
         /\ rate = 0 => Fee(signed, px, rate) = 0
<1>1. Abs(signed) \in Nat
  BY DEF Abs
<1>2. Abs(signed) * px \in Int /\ (px >= 0 => Abs(signed) * px >= 0)
  BY <1>1, Products
<1>3. Abs(signed) * px * rate \in Int
  BY <1>2, Products
<1>4. px >= 0 /\ rate >= 0 => Abs(signed) * px * rate >= 0
  BY <1>2, Products
<1>5. px >= 0 /\ rate <= 0 => Abs(signed) * px * rate <= 0
  BY <1>2, Products
<1>6. QED
  BY <1>1, <1>3, <1>4, <1>5 DEF Fee

LEMMA EffectiveType ==
  ASSUME Types, NEW a \in Assets, NEW q \in Int
  PROVE  /\ Effective(a, q) \in Int
         /\ config.slip = 0 => Effective(a, q) = IF q > 0 THEN market[a].ask ELSE market[a].bid
<1>1. config.slip \in Int /\ market[a].ask \in Int /\ market[a].bid \in Int
  <2>1. market \in [Assets -> Quotes]
    BY DEF Types
  <2>2. QED
    BY <2>1, ConfigTypes, QuoteTypes
<1>2. config.slip * (market[a].ask - market[a].bid) \in Int
  <2>1. market[a].ask - market[a].bid \in Int
    BY <1>1
  <2>2. QED
    BY <1>1, <2>1, Products
<1>3. config.slip = 0 => config.slip * (market[a].ask - market[a].bid) = 0
  BY <1>1
<1>4. QED
  BY <1>1, <1>2, <1>3 DEF Effective

LEMMA MoneyInit == Init => MoneyTypes /\ GateInv
BY MoneyAssumption DEF Init, MoneyTypes, GateInv

LEMMA BeginRowMoney ==
  ASSUME MoneyInv, BeginRow
  PROVE  MoneyTypes' /\ GateInv'
<1>1. PICK m \in [Assets -> Quotes] :
        /\ market' = m
        /\ equity' = Total(cash, Value(balance, Bids(m)))
        /\ IF Ruined(equity')
             THEN /\ pc' = "ruined"
                  /\ cash' = Total(cash, Proceeds(m))
             ELSE /\ pc' = "fill"
                  /\ UNCHANGED <<cash, balance>>
  BY DEF BeginRow
<1>2. cash \in Int /\ balance \in [Assets -> Int] /\ config' = config
  BY DEF MoneyInv, MoneyTypes, BookInv, Types, BeginRow
<1>3. equity' \in Int
  BY <1>1, <1>2, QuoteTypes, ValueType, TotalType
<1>4. CASE Ruined(equity')
  <2>1. Value(balance, Touch(m, balance)) \in [Assets -> Int]
    BY <1>2, QuoteTypes, ValueType
  <2>2. \A a \in Assets : CloseFees(m)[a] \in Int
    <3>1. SUFFICES ASSUME NEW a \in Assets PROVE CloseFees(m)[a] \in Int
      OBVIOUS
    <3>2. /\ balance[a] \in Int /\ Touch(m, balance)[a] \in Int /\ config.taker \in Int
      BY <1>2, QuoteTypes, ConfigTypes DEF MoneyInv, BookInv
    <3>3. Fee(balance[a], Touch(m, balance)[a], config.taker) \in Int
      BY <3>2, FeeType
    <3>4. QED
      BY <3>3 DEF CloseFees, Fee
  <2>3. Proceeds(m) \in [Assets -> Int]
    BY <2>1, <2>2 DEF Proceeds
  <2>4. cash' \in Int
    BY <1>1, <1>2, <1>4, <2>3, TotalType
  <2>5. QED
    BY <1>1, <1>3, <1>4, <2>4 DEF MoneyTypes, GateInv
<1>5. CASE ~Ruined(equity')
  <2>1. Equity' = equity'
    BY <1>1, <1>5 DEF Equity
  <2>2. equity' > 0
    BY <1>3, <1>5 DEF Ruined
  <2>3. QED
    BY <1>1, <1>2, <1>3, <1>5, <2>1, <2>2 DEF MoneyTypes, GateInv
<1>6. QED
  BY <1>4, <1>5

\* A step that moves neither money nor positions leaves the gate where it was.
LEMMA IdleMoney ==
  ASSUME MoneyInv, UNCHANGED <<cash, balance, equity, market, config>>, pc = "fill"
  PROVE  MoneyTypes' /\ GateInv'
<1>1. Equity' = Equity
  BY DEF Equity
<1>2. QED
  BY <1>1 DEF MoneyInv, MoneyTypes, GateInv, GateSeesAll, Costless

\* A fill that the gate takes drop off and the book what it costs keeps them in
\* step, where no more is taken off than it costs.
LEMMA FillMoney ==
  ASSUME MoneyInv, NEW a \in Assets, NEW signed \in Int, NEW px \in Int, NEW fee \in Int,
         NEW drop \in Int, Changes(a, signed, px, fee, drop), UNCHANGED <<market, config>>,
         pc = "fill",
         GateSeesAll => drop = Drop(a, signed, px, fee),
         Costless => equity - drop >= 0 /\ Drop(a, signed, px, fee) <= drop
  PROVE  MoneyTypes' /\ GateInv'
<1>1. Types /\ MoneyTypes /\ GateInv
  BY DEF MoneyInv, BookInv
<1>2. /\ Drop(a, signed, px, fee) \in Int /\ Equity' = Equity - Drop(a, signed, px, fee)
      /\ Equity \in Int
  BY <1>1, EquityMoves, EquityType
<1>3. equity' = equity - drop /\ equity \in Int
  BY <1>1 DEF Changes, MoneyTypes
<1>4. cash' \in Int
  <2>1. signed * px \in Int /\ Unit \in Int /\ cash \in Int
    BY <1>1, MoneyAssumption, Products DEF MoneyTypes
  <2>2. signed * px * Unit \in Int
    BY <2>1, Products
  <2>3. QED
    BY <2>1, <2>2 DEF Changes
<1>5. (GateSeesAll' <=> GateSeesAll) /\ (Costless' <=> Costless)
  BY DEF GateSeesAll, Costless
<1>6. QED
  BY <1>1, <1>2, <1>3, <1>4, <1>5 DEF MoneyTypes, GateInv

LEMMA FillWorkMoney ==
  ASSUME MoneyInv, FillWork
  PROVE  MoneyTypes' /\ GateInv'
<1>1. /\ task \in 1..Tasks /\ Advance /\ pc = "fill" /\ Task.kind \in Sides
      /\ UNCHANGED <<config, market>> /\ Types /\ MoneyTypes
  BY DEF MoneyInv, BookInv, Types, FillWork, Advance
<1>2. Task.asset \in Assets
  BY <1>1, LeanAdvances
<1> DEFINE a == Task.asset
           side == Task.kind
           px == work[side][a].px
           signed == Sign(side) * work[side][a].qty
           fee == Fee(signed, px, config.maker)
           drop == Drop(a, signed, px, fee)
<1>3. work[side][a].qty \in Nat /\ px \in Int /\ signed \in Int
  <2>1. work[side][a] \in Orders /\ Sign(side) \in {1, -1}
    BY <1>1, <1>2 DEF Types, Sign
  <2>2. QED
    BY <2>1 DEF Orders
<1>4. \/ Affords(drop) /\ Changes(a, signed, px, fee, drop)
      \/ UNCHANGED <<cash, balance, equity>>
  BY DEF FillWork
<1>5. CASE Affords(drop) /\ Changes(a, signed, px, fee, drop)
  <2>1. fee \in Int
    BY <1>1, <1>3, FeeType, ConfigTypes
  <2> HIDE DEF signed, px, fee
  <2>2. drop \in Int /\ equity - drop >= 0
    BY <1>1, <1>2, <1>3, <1>5, <2>1, EquityMoves DEF Affords
  <2>3. QED
    BY <1>1, <1>2, <1>3, <1>5, <2>1, <2>2, FillMoney
<1>6. CASE UNCHANGED <<cash, balance, equity>>
  BY <1>1, <1>6, IdleMoney
<1>7. QED
  BY <1>4, <1>5, <1>6

\* What a market order costs against the bid: nothing but the spread of a purchase
\* and the fee, without slippage.
LEMMA OrderCosts ==
  ASSUME Types, NEW a \in Assets, NEW q \in Int, NEW fee \in Int, config.slip = 0
  PROVE  /\ q > 0 => Drop(a, q, Effective(a, q), fee) >= fee
         /\ q <= 0 => Drop(a, q, Effective(a, q), fee) = fee
         /\ Effective(a, q) > 0
<1>1. /\ market[a].bid \in Int /\ market[a].ask \in Int /\ Unit \in Nat
      /\ 0 < market[a].bid /\ market[a].bid <= market[a].ask
  BY QuoteTypes, MoneyAssumption DEF Types
<1>2. Effective(a, q) = IF q > 0 THEN market[a].ask ELSE market[a].bid
  BY EffectiveType
<1>3. CASE q > 0
  <2>1. market[a].ask - market[a].bid \in Nat
    BY <1>1
  <2>2. q * (market[a].ask - market[a].bid) \in Nat
    BY <1>3, <2>1, Products
  <2>3. q * (market[a].ask - market[a].bid) * Unit \in Nat
    BY <1>1, <2>2, Products
  <2>4. QED
    BY <1>1, <1>2, <1>3, <2>3 DEF Drop
<1>4. CASE q <= 0
  <2>1. market[a].bid - market[a].bid = 0 /\ q * 0 = 0 /\ 0 * Unit = 0
    BY <1>1
  <2>2. QED
    BY <1>1, <1>2, <1>4, <2>1 DEF Drop
<1>5. QED
  BY <1>3, <1>4

LEMMA FillOrderMoney ==
  ASSUME MoneyInv, FillOrder
  PROVE  MoneyTypes' /\ GateInv'
<1>1. /\ task \in 1..Tasks /\ Advance /\ pc = "fill" /\ Task.kind = "order"
      /\ UNCHANGED <<config, market>> /\ Types /\ MoneyTypes /\ GateInv
  BY DEF MoneyInv, BookInv, Types, FillOrder, Advance
<1>2. PICK q \in Quantities, limit \in {NoLimit} \union (IF config.limits THEN Limits ELSE {}) :
        Trade(Task.asset, q, limit)
  BY DEF FillOrder
<1>3. Task.asset \in Assets /\ q \in Int
  BY <1>1, LeanAdvances, QuantitiesAssumption
<1> DEFINE a == Task.asset
           px == Effective(a, q)
           fee == Fee(q, px, config.taker)
           drop == IF q > 0 THEN Drop(a, q, px, fee) ELSE SaleDrop(fee)
<1>4. \/ UNCHANGED <<cash, balance, equity>>
      \/ (q > 0 => Affords(drop)) /\ Changes(a, q, px, fee, drop)
  BY <1>2 DEF Trade
<1>5. CASE UNCHANGED <<cash, balance, equity>>
  BY <1>1, <1>5, IdleMoney
<1>6. CASE (q > 0 => Affords(drop)) /\ Changes(a, q, px, fee, drop)
  <2>1. px \in Int /\ fee \in Int
    BY <1>1, <1>3, EffectiveType, FeeType, ConfigTypes
  <2>2. Drop(a, q, px, fee) \in Int
    <3> HIDE DEF px, fee, drop
    <3>1. QED
      BY <1>1, <1>3, <1>6, <2>1, EquityMoves
  <2>3. drop \in Int
    BY <2>1, <2>2 DEF SaleDrop
  <2>4. GateSeesAll => drop = Drop(a, q, px, fee)
    <3>1. SUFFICES ASSUME GateSeesAll, q <= 0 PROVE SaleDrop(fee) = Drop(a, q, px, fee)
      BY <1>3
    <3>2. Drop(a, q, px, fee) = fee
      BY <1>1, <1>3, <2>1, <3>1, OrderCosts DEF GateSeesAll
    <3>3. config.taker = 0 => fee = 0
      <4>1. config.taker \in Int
        BY <1>1, ConfigTypes
      <4> HIDE DEF px
      <4>2. QED
        BY <1>3, <2>1, <4>1, FeeType
    <3>4. QED
      BY <3>1, <3>2, <3>3 DEF SaleDrop, GateSeesAll
  <2>5. Costless => equity - drop >= 0 /\ Drop(a, q, px, fee) <= drop
    <3>1. SUFFICES ASSUME Costless PROVE equity - drop >= 0 /\ Drop(a, q, px, fee) <= drop
      OBVIOUS
    <3>2. CASE q > 0
      BY <1>6, <2>2, <3>2 DEF Affords
    <3>3. CASE q <= 0
      <4>1. Drop(a, q, px, fee) = fee /\ px > 0
        BY <1>1, <1>3, <2>1, <3>1, <3>3, OrderCosts DEF Costless
      <4>2. fee <= 0
        <5>1. config.taker \in Int /\ config.taker <= 0
          BY <1>1, <3>1, ConfigTypes DEF Costless
        <5>2. px >= 0 /\ px \in Int
          BY <2>1, <4>1
        <5> HIDE DEF px
        <5>3. QED
          BY <1>3, <5>1, <5>2, FeeType
      <4>3. drop \in {0, fee} /\ equity >= 0 /\ equity \in Int
        BY <1>1, <1>3, <3>1, <3>3 DEF SaleDrop, GateInv, MoneyTypes
      <4>4. QED
        BY <2>1, <4>1, <4>2, <4>3
    <3>4. QED
      BY <1>3, <3>2, <3>3
  <2>6. QED
    <3> HIDE DEF px, fee, drop
    <3>1. QED
      BY <1>1, <1>3, <1>6, <2>1, <2>2, <2>3, <2>4, <2>5, FillMoney
<1>7. QED
  BY <1>4, <1>5, <1>6

LEMMA MoneyStep == MoneyInv /\ [Next]_vars => MoneyInv'
<1> SUFFICES ASSUME MoneyInv, [Next]_vars PROVE MoneyInv'
  OBVIOUS
<1>1. BookInv'
  BY Inductive DEF MoneyInv
<1>2. CASE BeginRow
  BY <1>1, <1>2, BeginRowMoney DEF MoneyInv
<1>3. CASE Cancel
  <2>1. UNCHANGED <<cash, balance, equity, market, config>> /\ pc = "fill"
    BY <1>3 DEF Cancel, Advance
  <2>2. QED
    BY <1>1, <2>1, IdleMoney DEF MoneyInv
<1>4. CASE FillWork
  BY <1>1, <1>4, FillWorkMoney DEF MoneyInv
<1>5. CASE FillOrder
  BY <1>1, <1>5, FillOrderMoney DEF MoneyInv
<1>6. CASE UNCHANGED vars
  BY <1>1, <1>6
  DEF vars, MoneyInv, MoneyTypes, GateInv, GateSeesAll, Costless, Equity
<1>7. QED
  BY <1>2, <1>3, <1>4, <1>5, <1>6 DEF Next, End

LEMMA MoneyInvariance == Spec => []MoneyInv
<1>1. Init => MoneyInv
  BY InitInv, MoneyInit DEF MoneyInv
<1>2. QED
  BY <1>1, MoneyStep, PTL DEF Spec

\* The equity that _execute and _execute_wide keep up fill by fill to gate the next
\* one is what the book is worth at the row's bids, whatever was filled before and
\* however many assets there are, unless a sale's cost is left out of it.
THEOREM GateFollowsBook == Spec => []GateIsEquity
<1>1. MoneyInv => GateIsEquity
  BY DEF MoneyInv, GateInv, GateIsEquity
<1>2. QED
  BY <1>1, MoneyInvariance, PTL

\* No sequence of fills takes a book below zero within a row where sales cost
\* nothing, under either executor.
THEOREM FillsStayAboveZero == Spec => []FillsNeverBreach
<1>1. MoneyInv => FillsNeverBreach
  <2>1. SUFFICES ASSUME MoneyInv, pc = "fill", config.slip = 0, config.taker <= 0
                 PROVE  Equity >= 0
    BY DEF FillsNeverBreach
  <2>2. equity \in Int /\ Equity \in Int /\ 0 <= equity /\ equity <= Equity
    BY <2>1, EquityType DEF MoneyInv, BookInv, MoneyTypes, GateInv, Costless
  <2>3. QED
    BY <2>2
<1>2. QED
  BY <1>1, MoneyInvariance, PTL

-----------------------------------------------------------------------------
(* What is left resting *)

\* The task that fills what rests on a side of an asset.
Turn(side, a) ==
  IF config.wide THEN Width + 2 * a - (IF side = "buy" THEN 1 ELSE 0)
  ELSE 4 * a - (IF side = "buy" THEN 2 ELSE 1)

Past(side, a) == pc = "row" \/ Turn(side, a) < task

Unaffordable(side, a) ==
  LET held == work[side][a]
      signed == Sign(side) * held.qty
  IN  held.qty > 0 /\ Reached(side, a) =>
        ~Affords(Drop(a, signed, held.px, Abs(signed) * held.px * config.maker))

\* What rests past its turn in a row and can be filled cannot be afforded.
PastInv ==
  config.slip = 0 /\ NoRebates /\ pc # "ruined" =>
    \A side \in Sides, a \in Assets : Past(side, a) => Unaffordable(side, a)

\* A sale rests above the bid it was placed at.
SalesArePriced ==
  config.slip = 0 => \A a \in Assets : work["sell"][a].qty > 0 => work["sell"][a].px > 0

RestInv == MoneyInv /\ PastInv /\ SalesArePriced

LEMMA TurnIsTask ==
  ASSUME Types, NEW side \in Sides, NEW a \in Assets
  PROVE  /\ Turn(side, a) \in 1..Tasks
         /\ Turn(side, a) = task <=> Task.kind = side /\ Task.asset = a
<1>1. Width \in Nat \ {0} /\ Tasks = 4 * Width /\ task \in 1..(4 * Width) /\ a \in 1..Width
  BY WidthAssumption DEF Tasks, Types, Assets
<1>2. CASE ~config.wide
  <2>1. PICK k \in 0..3, d \in 0..(Width - 1) : task = 4 * d + k + 1
    <3> DEFINE n == task - 1
    <3>1. n \in 0..(4 * Width - 1) /\ task = n + 1
      BY <1>1
    <3>2. n \div 4 \in Int /\ n % 4 \in 0..3 /\ n = (4 * (n \div 4)) + (n % 4)
      BY <3>1
    <3>3. n \div 4 \in 0..(Width - 1)
      BY <1>1, <3>1, <3>2
    <3>4. QED
      BY <3>1, <3>2, <3>3
  <2>2. (task - 1) % 4 = k /\ (task - 1) \div 4 = d
    BY <1>1, <2>1
  <2>3. Task = [asset |-> d + 1, kind |-> <<"cancel", "buy", "sell", "order">>[k + 1]]
    BY <1>2, <2>2 DEF Task, NarrowTask
  <2>4. Turn(side, a) = 4 * a - (IF side = "buy" THEN 2 ELSE 1)
    BY <1>2 DEF Turn
  <2>5. Turn(side, a) = task <=> a = d + 1 /\ k = (IF side = "buy" THEN 1 ELSE 2)
    BY <1>1, <2>1, <2>4
  <2>6. Task.asset = d + 1 /\ Task.kind = <<"cancel", "buy", "sell", "order">>[k + 1]
    BY <2>3
  <2>7. /\ k = 0 => Task.kind = "cancel"
        /\ k = 1 => Task.kind = "buy"
        /\ k = 2 => Task.kind = "sell"
        /\ k = 3 => Task.kind = "order"
    BY <2>6
  <2>8. Task.kind = side <=> k = (IF side = "buy" THEN 1 ELSE 2)
    BY <2>1, <2>7 DEF Sides
  <2>9. QED
    BY <1>1, <2>4, <2>5, <2>6, <2>8
<1>3. CASE config.wide
  <2>1. Turn(side, a) = Width + 2 * a - (IF side = "buy" THEN 1 ELSE 0)
    BY <1>3 DEF Turn
  <2>2. Turn(side, a) \in (Width + 1)..(3 * Width)
    BY <1>1, <2>1
  <2>3. CASE task <= Width
    BY <1>1, <1>3, <2>2, <2>3 DEF Task, WideTask, Sides
  <2>4. CASE task > 3 * Width
    BY <1>1, <1>3, <2>2, <2>4 DEF Task, WideTask, Sides
  <2>5. CASE Width < task /\ task <= 3 * Width
    <3> DEFINE n == task - Width - 1
    <3>1. n \in 0..(2 * Width - 1)
      BY <1>1, <2>5
    <3>2. n \div 2 \in Int /\ n % 2 \in {0, 1} /\ n = (2 * (n \div 2)) + (n % 2)
      BY <3>1
    <3>3. Task = [asset |-> n \div 2 + 1, kind |-> <<"buy", "sell">>[(n % 2) + 1]]
      BY <1>1, <1>3, <2>5 DEF Task, WideTask
    <3>4. (n % 2 = 0 => Task.kind = "buy") /\ (n % 2 = 1 => Task.kind = "sell")
      BY <3>3
    <3>5. Turn(side, a) = task <=> a = n \div 2 + 1 /\ n % 2 = (IF side = "buy" THEN 0 ELSE 1)
      BY <1>1, <2>1, <3>1, <3>2
    <3>6. QED
      BY <1>1, <2>2, <3>2, <3>3, <3>4, <3>5 DEF Sides
  <2>6. QED
    BY <1>1, <2>3, <2>4, <2>5
<1>4. QED
  BY <1>2, <1>3

\* After a task what is past was past before it, or was the task itself.
LEMMA PastAdvances ==
  ASSUME Types, Advance, pc = "fill", NEW side \in Sides, NEW a \in Assets, Past(side, a)'
  PROVE  Past(side, a) \/ (Task.kind = side /\ Task.asset = a)
<1>1. /\ Turn(side, a) \in 1..Tasks
      /\ Turn(side, a) = task <=> Task.kind = side /\ Task.asset = a
  BY TurnIsTask
<1>2. /\ Width \in Nat \ {0} /\ Tasks = 4 * Width /\ task \in 1..Tasks
      /\ task' = (IF task = Tasks THEN 1 ELSE task + 1)
      /\ pc' = (IF task = Tasks THEN "row" ELSE "fill")
      /\ Turn(side, a)' = Turn(side, a)
  BY WidthAssumption DEF Tasks, Types, Advance, Turn
<1>3. Turn(side, a) <= task
  BY <1>1, <1>2 DEF Past
<1>4. QED
  BY <1>1, <1>2, <1>3 DEF Past

\* What the sum of a reached order's spread and fee would be: not negative.
LEMMA ReachedCosts ==
  ASSUME Types, SalesArePriced, config.slip = 0, NoRebates, NEW side \in Sides, NEW a \in Assets,
         work[side][a].qty > 0, Reached(side, a)
  PROVE  LET signed == Sign(side) * work[side][a].qty
         IN  Drop(a, signed, work[side][a].px, Fee(signed, work[side][a].px, config.maker)) >= 0
<1> DEFINE px == work[side][a].px
           qty == work[side][a].qty
           signed == Sign(side) * qty
           fee == Fee(signed, px, config.maker)
<1>1. /\ market[a].bid \in Int /\ market[a].ask \in Int /\ Unit \in Int /\ Unit >= 0
      /\ 0 < market[a].bid /\ market[a].bid <= market[a].ask
  <2>1. market \in [Assets -> Quotes]
    BY DEF Types
  <2>2. QED
    BY <2>1, QuoteTypes, MoneyAssumption
<1>2. qty \in Nat /\ px \in Int /\ qty > 0
  <2>1. work[side][a] \in Orders
    BY DEF Types
  <2>2. QED
    BY <2>1 DEF Orders
<1>3. signed \in Int /\ signed = (IF side = "buy" THEN qty ELSE -qty)
  BY <1>2 DEF Sign
<1>4. px > 0
  BY <1>1, <1>2 DEF Reached, SalesArePriced, Sides
<1>5. fee \in Int /\ fee >= 0
  <2>1. config.maker \in Int /\ config.maker >= 0 /\ px >= 0
    BY <1>2, <1>4, ConfigTypes DEF NoRebates
  <2> HIDE DEF px, signed
  <2>2. QED
    BY <1>2, <1>3, <2>1, FeeType
<1>6. signed * (px - market[a].bid) \in Nat
  <2>1. CASE side = "buy"
    <3>1. px - market[a].bid \in Int /\ px - market[a].bid >= 0 /\ signed >= 0
      BY <1>1, <1>2, <1>3, <2>1 DEF Reached
    <3>2. QED
      BY <1>3, <3>1, Products
  <2>2. CASE side = "sell"
    <3>1. px - market[a].bid \in Int /\ px - market[a].bid <= 0 /\ signed <= 0
      BY <1>1, <1>2, <1>3, <2>2 DEF Reached
    <3>2. QED
      BY <1>3, <3>1, Products
  <2>3. QED
    BY <2>1, <2>2 DEF Sides
<1>7. signed * (px - market[a].bid) * Unit \in Nat
  BY <1>1, <1>6, Products
<1>8. QED
  BY <1>5, <1>7 DEF Drop

\* What could not be afforded still cannot, with no more equity.
LEMMA StaysUnaffordable ==
  ASSUME Types, MoneyTypes, NEW side \in Sides, NEW a \in Assets, Unaffordable(side, a),
         UNCHANGED <<market, config>>, work'[side][a] = work[side][a],
         equity' \in Int, equity' <= equity
  PROVE  Unaffordable(side, a)'
<1> DEFINE px == work[side][a].px
           signed == Sign(side) * work[side][a].qty
           drop == Drop(a, signed, px, Abs(signed) * px * config.maker)
<1>1. /\ (Reached(side, a)' <=> Reached(side, a))
      /\ Drop(a, signed, px, Abs(signed) * px * config.maker)' = drop
  BY DEF Reached, Drop
<1>2. drop \in Int /\ equity \in Int
  <2>1. work[side][a] \in Orders /\ Sign(side) \in {1, -1}
    BY DEF Types, Sign
  <2>2. px \in Int /\ signed \in Int
    BY <2>1 DEF Orders
  <2>3. Fee(signed, px, config.maker) \in Int
    <3> HIDE DEF px, signed
    <3>1. QED
      BY <2>2, ConfigTypes, FeeType
  <2>4. market[a].bid \in Int /\ Unit \in Int
    <3>1. market \in [Assets -> Quotes]
      BY DEF Types
    <3>2. QED
      BY <3>1, QuoteTypes, MoneyAssumption
  <2>5. signed * (px - market[a].bid) \in Int
    <3>1. px - market[a].bid \in Int
      BY <2>2, <2>4
    <3>2. QED
      BY <2>2, <3>1, Products
  <2>6. signed * (px - market[a].bid) * Unit \in Int
    BY <2>4, <2>5, Products
  <2>7. QED
    BY <2>3, <2>6 DEF Drop, Fee, MoneyTypes
<1>3. ~Affords(drop) => ~Affords(drop)'
  BY <1>1, <1>2 DEF Affords
<1>4. QED
  BY <1>1, <1>3 DEF Unaffordable

\* A step of a row that keeps what rests, or takes it away, and takes nothing from
\* or something off the equity leaves the invariant as it is, but for the order
\* whose turn it is.
LEMMA RestStep ==
  ASSUME RestInv, pc = "fill", Advance, market' = market, equity' \in Int,
         config.slip = 0 /\ NoRebates => equity' <= equity,
         \A side \in Sides, a \in Assets :
            \/ work'[side][a] = work[side][a] /\ ~(Task.kind = side /\ Task.asset = a)
            \/ work'[side][a].qty = 0
            \/ config.slip = 0 /\ NoRebates => Unaffordable(side, a)',
         \A a \in Assets :
            \/ work'["sell"][a] = work["sell"][a]
            \/ work'["sell"][a].qty = 0
            \/ config.slip = 0 => work'["sell"][a].px > 0
  PROVE  PastInv' /\ SalesArePriced'
<1>1. Types /\ MoneyTypes /\ PastInv /\ SalesArePriced /\ UNCHANGED <<config, market>>
  BY DEF RestInv, MoneyInv, BookInv, Advance
<1>2. SalesArePriced'
  BY <1>1 DEF SalesArePriced
<1>3. ASSUME config.slip = 0, NoRebates, NEW side \in Sides, NEW a \in Assets, Past(side, a)'
      PROVE  Unaffordable(side, a)'
  <2>1. Past(side, a) \/ (Task.kind = side /\ Task.asset = a)
    BY <1>1, <1>3, PastAdvances
  <2>2. CASE work'[side][a] = work[side][a] /\ ~(Task.kind = side /\ Task.asset = a)
    <3>1. Unaffordable(side, a)
      BY <1>1, <1>3, <2>1, <2>2 DEF PastInv
    <3>2. QED
      BY <1>1, <1>3, <2>2, <3>1, StaysUnaffordable
  <2>3. CASE work'[side][a].qty = 0
    BY <2>3 DEF Unaffordable
  <2>4. QED
    BY <1>3, <2>2, <2>3
<1>4. PastInv'
  BY <1>1, <1>3 DEF PastInv, NoRebates
<1>5. QED
  BY <1>2, <1>4

LEMMA CancelRest ==
  ASSUME RestInv, Cancel
  PROVE  PastInv' /\ SalesArePriced'
<1>1. /\ pc = "fill" /\ Advance /\ UNCHANGED <<market, equity>> /\ Task.kind = "cancel"
      /\ equity \in Int /\ work \in [Sides -> [Assets -> Orders]]
  BY DEF Cancel, Advance, RestInv, MoneyInv, MoneyTypes, BookInv, Types
<1>2. \/ work' = work
      \/ work' = [side \in Sides |-> [work[side] EXCEPT ![Task.asset] = NoOrder]]
  BY DEF Cancel
<1>3. \A side \in Sides, a \in Assets :
        work'[side][a] = work[side][a] \/ work'[side][a].qty = 0
  <2>1. SUFFICES ASSUME NEW side \in Sides, NEW a \in Assets
                 PROVE  work'[side][a] = work[side][a] \/ work'[side][a].qty = 0
    OBVIOUS
  <2>2. work[side] \in [Assets -> Orders]
    BY <1>1
  <2>3. QED
    BY <1>2, <2>2 DEF NoOrder
<1>4. \A side \in Sides : Task.kind # side
  BY <1>1 DEF Sides
<1>5. equity' \in Int /\ equity' <= equity
  BY <1>1
<1>6. QED
  BY <1>1, <1>3, <1>4, <1>5, RestStep DEF Sides

LEMMA FillWorkRest ==
  ASSUME RestInv, FillWork
  PROVE  PastInv' /\ SalesArePriced'
<1>1. /\ pc = "fill" /\ Advance /\ UNCHANGED <<config, market>> /\ Task.kind \in Sides
      /\ Types /\ MoneyTypes /\ SalesArePriced /\ MoneyInv
  BY DEF FillWork, Advance, RestInv, MoneyInv, BookInv
<1>2. Task.asset \in Assets /\ equity' \in Int /\ equity \in Int
  BY <1>1, LeanAdvances, FillWorkMoney DEF Types, MoneyTypes
<1> PICK side \in Sides, a \in Assets : side = Task.kind /\ a = Task.asset
  BY <1>1, <1>2
<1> DEFINE px == work[side][a].px
           signed == Sign(side) * work[side][a].qty
           fee == Fee(signed, px, config.maker)
           drop == Drop(a, signed, px, fee)
<1>3. work \in [Sides -> [Assets -> Orders]] /\ work[side][a].qty \in Nat
  <2>1. work[side][a] \in Orders
    BY <1>1, <1>2 DEF Types
  <2>2. QED
    BY <1>1, <2>1 DEF Orders, Types
<1>4. signed # 0 <=> work[side][a].qty > 0
  BY <1>3 DEF Sign
<1>5. CASE signed # 0 /\ Reached(side, a) /\ Affords(drop)
  <2>1. equity' = equity - drop /\ work' = [work EXCEPT ![side][a] = NoOrder]
    BY <1>5 DEF FillWork, Changes
  <2>2. config.slip = 0 /\ NoRebates => drop >= 0
    BY <1>1, <1>2, <1>4, <1>5, ReachedCosts
  <2>3. drop \in Int
    <3>1. work[side][a] \in Orders /\ Sign(side) \in {1, -1}
      BY <1>1, <1>2 DEF Types, Sign
    <3>2. px \in Int /\ signed \in Int
      BY <3>1 DEF Orders
    <3>3. fee \in Int
      <4> HIDE DEF px, signed
      <4>1. QED
        BY <1>1, <3>2, ConfigTypes, FeeType
    <3>4. Changes(a, signed, px, fee, drop)
      BY <1>5 DEF FillWork
    <3> HIDE DEF px, signed, fee
    <3>5. QED
      BY <1>1, <1>2, <3>2, <3>3, <3>4, EquityMoves
  <2>4. config.slip = 0 /\ NoRebates => equity' <= equity
    <3> HIDE DEF drop
    <3>1. QED
      BY <1>2, <2>1, <2>2, <2>3
  <2>5. \A s \in Sides, b \in Assets :
          \/ work'[s][b] = work[s][b] /\ ~(side = s /\ a = b)
          \/ work'[s][b].qty = 0
    BY <1>1, <1>2, <1>3, <2>1 DEF NoOrder
  <2> HIDE DEF drop
  <2>6. QED
    BY <1>1, <1>2, <2>4, <2>5, RestStep DEF Sides
<1>6. CASE ~(signed # 0 /\ Reached(side, a) /\ Affords(drop))
  <2>1. UNCHANGED <<equity, work>>
    BY <1>6 DEF FillWork
  <2>2. Unaffordable(side, a)'
    <3>1. Unaffordable(side, a)
      BY <1>4, <1>6 DEF Unaffordable, Fee
    <3>2. equity' <= equity
      BY <1>2, <2>1
    <3>3. QED
      BY <1>1, <1>2, <2>1, <3>1, <3>2, StaysUnaffordable
  <2>3. \A s \in Sides, b \in Assets :
          \/ work'[s][b] = work[s][b] /\ ~(Task.kind = s /\ Task.asset = b)
          \/ config.slip = 0 /\ NoRebates => Unaffordable(s, b)'
    BY <2>1, <2>2
  <2>4. equity' <= equity
    BY <1>2, <2>1
  <2>5. QED
    BY <1>1, <1>2, <2>1, <2>3, <2>4, RestStep
<1>7. QED
  BY <1>5, <1>6

LEMMA FillOrderRest ==
  ASSUME RestInv, FillOrder
  PROVE  PastInv' /\ SalesArePriced'
<1>1. /\ pc = "fill" /\ Advance /\ UNCHANGED <<config, market>> /\ Task.kind = "order"
      /\ Types /\ MoneyTypes /\ MoneyInv /\ work \in [Sides -> [Assets -> Orders]]
  BY DEF FillOrder, Advance, RestInv, MoneyInv, BookInv, Types
<1>2. Task.asset \in Assets /\ equity' \in Int /\ equity \in Int
  BY <1>1, LeanAdvances, FillOrderMoney DEF Types, MoneyTypes
<1>3. PICK q \in Quantities, limit \in {NoLimit} \union (IF config.limits THEN Limits ELSE {}) :
        Trade(Task.asset, q, limit)
  BY DEF FillOrder
<1>4. q \in Int /\ Abs(q) \in Nat /\ (limit # NoLimit => limit \in Int)
  <2>1. q \in Int
    BY QuantitiesAssumption
  <2>2. Abs(q) \in Nat
    BY <2>1 DEF Abs
  <2>3. limit = NoLimit \/ limit \in Limits
    OBVIOUS
  <2>4. QED
    BY <2>1, <2>2, <2>3, LimitsAssumption
<1> PICK a \in Assets : a = Task.asset
  BY <1>2
<1> DEFINE px == Effective(a, q)
           fee == Fee(q, px, config.taker)
           drop == IF q > 0 THEN Drop(a, q, px, fee) ELSE SaleDrop(fee)
<1>5. \/ UNCHANGED <<equity, work>>
      \/ q # 0 /\ Rests(q, px, limit) /\ work' = Replace(a, q, limit) /\ UNCHANGED equity
      \/ Changes(a, q, px, fee, drop) /\ UNCHANGED work
  BY <1>3 DEF Trade
<1>6. \A side \in Sides : Task.kind # side
  BY <1>1 DEF Sides
<1>7. ASSUME equity' <= equity \/ ~(config.slip = 0 /\ NoRebates), UNCHANGED work
      PROVE  PastInv' /\ SalesArePriced'
  BY <1>1, <1>2, <1>6, <1>7, RestStep
<1>8. CASE UNCHANGED <<equity, work>>
  BY <1>2, <1>7, <1>8
<1>9. CASE Changes(a, q, px, fee, drop) /\ UNCHANGED work
  <2>1. ASSUME config.slip = 0, NoRebates PROVE equity' <= equity
    <3>1. px \in Int /\ fee \in Int /\ px > 0
      BY <1>1, <1>2, <1>4, <2>1, EffectiveType, FeeType, ConfigTypes, OrderCosts
    <3>2. fee >= 0
      <4>1. config.taker \in Int /\ config.taker >= 0 /\ px >= 0
        BY <1>1, <2>1, <3>1, ConfigTypes DEF NoRebates
      <4> HIDE DEF px
      <4>2. QED
        BY <1>4, <3>1, <4>1, FeeType
    <3>3. q > 0 => Drop(a, q, px, fee) >= fee
      <4> HIDE DEF fee
      <4>1. QED
        BY <1>1, <1>2, <1>4, <2>1, <3>1, OrderCosts
    <3>4. Drop(a, q, px, fee) \in Int
      <4> HIDE DEF px, fee, drop
      <4>1. QED
        BY <1>1, <1>2, <1>4, <1>9, <3>1, EquityMoves
    <3>5. SaleDrop(fee) \in {0, fee}
      BY DEF SaleDrop
    <3>6. drop \in Int /\ drop >= 0
      <4> HIDE DEF px, fee
      <4>1. QED
        BY <3>1, <3>2, <3>3, <3>4, <3>5
    <3>7. equity' = equity - drop
      BY <1>9 DEF Changes
    <3> HIDE DEF drop
    <3>8. QED
      BY <1>2, <3>6, <3>7
  <2>2. QED
    BY <1>7, <1>9, <2>1
<1>10. CASE q # 0 /\ Rests(q, px, limit) /\ work' = Replace(a, q, limit) /\ UNCHANGED equity
  <2> DEFINE placed == IF q > 0 THEN "buy" ELSE "sell"
  <2>1. /\ placed \in Sides /\ limit \in Int
        /\ work' = [work EXCEPT ![placed][a] = [qty |-> Abs(q), px |-> limit]]
    BY <1>4, <1>10 DEF Replace, Rests, Sides
  <2>2. /\ work'[placed][a].px = limit
        /\ \A side \in Sides, b \in Assets :
             ~(side = placed /\ b = a) => work'[side][b] = work[side][b]
    BY <1>1, <1>2, <2>1
  <2>3. config.slip = 0 => ~Reached(placed, a)' /\ (placed = "sell" => limit > 0)
    <3>1. market \in [Assets -> Quotes]
      BY <1>1 DEF Types
    <3>2. /\ market[a].bid \in Int /\ market[a].ask \in Int /\ 0 < market[a].bid
      BY <1>2, <3>1, QuoteTypes
    <3>3. config.slip = 0 => px = IF q > 0 THEN market[a].ask ELSE market[a].bid
      BY <1>1, <1>2, <1>4, EffectiveType
    <3>4. config.slip = 0 =>
            IF q > 0 THEN market[a].ask > limit ELSE market[a].bid < limit
      BY <1>10, <3>3 DEF Rests
    <3>5. Reached(placed, a)' <=>
            IF q > 0 THEN market[a].ask <= limit ELSE market[a].bid >= limit
      BY <1>1, <2>1, <2>2 DEF Reached
    <3>6. QED
      BY <1>4, <2>1, <3>2, <3>4, <3>5
  <2>4. config.slip = 0 => Unaffordable(placed, a)'
    BY <2>3 DEF Unaffordable
  <2>5. \A side \in Sides, b \in Assets :
          \/ work'[side][b] = work[side][b] /\ ~(Task.kind = side /\ Task.asset = b)
          \/ config.slip = 0 /\ NoRebates => Unaffordable(side, b)'
    BY <1>6, <2>2, <2>4
  <2>6. \A b \in Assets :
          \/ work'["sell"][b] = work["sell"][b]
          \/ config.slip = 0 => work'["sell"][b].px > 0
    <3>1. "sell" \in Sides
      BY DEF Sides
    <3>2. QED
      BY <2>2, <2>3, <3>1
  <2>7. equity' <= equity
    BY <1>2, <1>10
  <2>8. QED
    BY <1>1, <1>2, <2>5, <2>6, <2>7, RestStep
<1>11. QED
  BY <1>5, <1>8, <1>9, <1>10

LEMMA BeginRowRest ==
  ASSUME RestInv, BeginRow
  PROVE  PastInv' /\ SalesArePriced'
<1>1. \/ pc' = "ruined" /\ work' = NoWork
      \/ pc' = "fill" /\ work' = work
  BY DEF BeginRow
<1>2. config' = config /\ task' = 1 /\ Types
  BY DEF BeginRow, RestInv, MoneyInv, BookInv
<1>3. SalesArePriced'
  BY <1>1, <1>2 DEF RestInv, SalesArePriced, NoWork, NoOrder, Sides
<1>4. ASSUME NEW side \in Sides, NEW a \in Assets, pc' = "fill" PROVE ~Past(side, a)'
  <2>1. Turn(side, a)' = Turn(side, a) /\ Turn(side, a) \in 1..Tasks /\ Tasks \in Nat
    BY <1>2, TurnIsTask, WidthAssumption DEF Turn, Tasks
  <2>2. QED
    BY <1>2, <1>4, <2>1 DEF Past
<1>5. QED
  BY <1>1, <1>3, <1>4 DEF PastInv

LEMMA RestInvariance == Spec => []RestInv
<1>1. Init => RestInv
  <2>1. Init => PastInv /\ SalesArePriced
    BY DEF Init, PastInv, SalesArePriced, Unaffordable, NoWork, NoOrder, Sides
  <2>2. QED
    BY <2>1, InitInv, MoneyInit DEF RestInv, MoneyInv
<1>2. RestInv /\ [Next]_vars => RestInv'
  <2> SUFFICES ASSUME RestInv, [Next]_vars PROVE RestInv'
    OBVIOUS
  <2>1. MoneyInv'
    BY MoneyStep DEF RestInv
  <2>2. CASE UNCHANGED vars
    <3>1. PastInv' /\ SalesArePriced'
      BY <2>2
      DEF vars, RestInv, PastInv, SalesArePriced, Past, Turn, Unaffordable, Reached, Affords,
          Drop, NoRebates
    <3>2. QED
      BY <2>1, <3>1 DEF RestInv
  <2>3. CASE BeginRow
    BY <2>1, <2>3, BeginRowRest DEF RestInv
  <2>4. CASE Cancel
    BY <2>1, <2>4, CancelRest DEF RestInv
  <2>5. CASE FillWork
    BY <2>1, <2>5, FillWorkRest DEF RestInv
  <2>6. CASE FillOrder
    BY <2>1, <2>6, FillOrderRest DEF RestInv
  <2>7. QED
    BY <2>2, <2>3, <2>4, <2>5, <2>6 DEF Next, End
<1>3. QED
  BY <1>1, <1>2, PTL DEF Spec

\* Without slippage and rebates a row passes over no resting order that its market
\* has reached, under either order of the fills, and places none that it could have
\* filled: what is left could not be afforded (_execute, _execute_wide).
THEOREM NoReachedOrderIsLeft == Spec => []ReachedOrdersAreFilled
<1>1. RestInv => ReachedOrdersAreFilled
  BY DEF RestInv, PastInv, Past, Unaffordable, ReachedOrdersAreFilled
<1>2. QED
  BY <1>1, RestInvariance, PTL
=============================================================================
