-------------------------- MODULE FrameCache_proofs --------------------------
(* Proofs about FrameCache: its types for any number of executors, and that a *)
(* cache directory used by one executor at a time never offers a partial      *)
(* frame, for every frame height, every set of shard counts and any crashes;  *)
(* and that the lazy scans handed out for hits read whole frames, there and   *)
(* where any number of executors share an entry of one shard.                 *)
EXTENDS FrameCache, WellFoundedInduction, TLAPS

-----------------------------------------------------------------------------
(* Arithmetic of the split *)

\* ceil(FrameRows / n) rows per shard are enough for n shards to hold them all.
LEMMA RowsPerCovers ==
  ASSUME NEW n \in Nat \ {0}
  PROVE  RowsPer(n) \in Nat /\ FrameRows <= n * RowsPer(n)
<1> DEFINE q == RowsPer(n)
<1>1. q \in Int /\ n * q <= FrameRows + n - 1 /\ FrameRows + n - 1 < n * q + n
  BY FrameRowsAssumption DEF RowsPer
<1>2. q >= 0
  BY FrameRowsAssumption DEF RowsPer
<1>3. QED
  BY <1>1, <1>2, FrameRowsAssumption

\* A split that does not raise starts every shard inside the frame and ends it
\* where the next one starts, or at the end of the frame.
LEMMA ShardBounds ==
  ASSUME NEW n \in ShardCounts, ~SplitRaises(n), NEW i \in 0..(n - 1)
  PROVE  /\ ShardFrom(n, i) \in 0..FrameRows
         /\ ShardFrom(n, i) + ShardLength(n, i) \in 0..FrameRows
         /\ \/ ShardFrom(n, i) + ShardLength(n, i) = ShardFrom(n, i + 1)
            \/ ShardFrom(n, i) + ShardLength(n, i) = FrameRows
<1>1. n \in Nat \ {0}
  BY ShardCountsAssumption, FrameRowsAssumption
<1> DEFINE q == RowsPer(n)
<1>2. q \in Nat
  BY <1>1, RowsPerCovers
<1>3. ShardFrom(n, i) = i * q /\ i * q \in Nat /\ ShardFrom(n, i + 1) = i * q + q
  BY <1>1, <1>2 DEF ShardFrom
<1>4. ShardLength(n, i) >= 0
  <2>1. ~(ShardLength(n, i) < 0)
    BY DEF SplitRaises, SliceRaises
  <2>2. ShardLength(n, i) \in Int
    BY <1>2, <1>3, FrameRowsAssumption DEF ShardLength
  <2>3. QED
    BY <2>1, <2>2
<1> HIDE DEF q
<1>5. ShardLength(n, i) = IF q <= FrameRows - i * q THEN q ELSE FrameRows - i * q
  BY <1>3 DEF ShardLength, q
<1>6. QED
  BY <1>2, <1>3, <1>4, <1>5, FrameRowsAssumption

\* Later shards start no earlier than earlier ones end.
LEMMA ShardsOrdered ==
  ASSUME NEW n \in ShardCounts, ~SplitRaises(n),
         NEW i \in 0..(n - 1), NEW j \in 0..(n - 1), i < j
  PROVE  ShardFrom(n, i) + ShardLength(n, i) <= ShardFrom(n, j)
<1>1. n \in Nat \ {0}
  BY ShardCountsAssumption, FrameRowsAssumption
<1> DEFINE q == RowsPer(n)
<1>2. q \in Nat
  BY <1>1, RowsPerCovers
<1>3. i * q + q <= j * q
  <2>1. i + 1 <= j
    OBVIOUS
  <2>2. (i + 1) * q <= j * q
    BY <1>2, <2>1
  <2>3. QED
    BY <1>2, <2>2
<1>4. ShardLength(n, i) <= q
  BY <1>2, FrameRowsAssumption DEF ShardLength, ShardFrom
<1>5. ShardLength(n, i) \in Int
  BY <1>2, FrameRowsAssumption DEF ShardLength, ShardFrom
<1> HIDE DEF q
<1>6. ShardFrom(n, i) = i * q /\ ShardFrom(n, j) = j * q /\ i * q \in Nat
  BY <1>2 DEF ShardFrom, q
<1>7. QED
  BY <1>2, <1>3, <1>4, <1>5, <1>6

\* Every row falls into one of the shards.
LEMMA ShardsCover ==
  ASSUME NEW n \in ShardCounts, ~SplitRaises(n), NEW r \in 0..(FrameRows - 1)
  PROVE  \E i \in 0..(n - 1) : /\ ShardFrom(n, i) <= r
                               /\ r < ShardFrom(n, i) + ShardLength(n, i)
<1>1. n \in Nat \ {0}
  BY ShardCountsAssumption, FrameRowsAssumption
<1> DEFINE q == RowsPer(n)
           i == r \div q
<1>2. q \in Nat /\ FrameRows <= n * q
  BY <1>1, RowsPerCovers
<1>3. q # 0
  <2>1. ASSUME q = 0 PROVE FALSE
    <3>1. n * q = 0
      BY <1>1, <2>1
    <3>2. FrameRows <= 0
      BY <1>2, <3>1
    <3>3. QED
      BY <3>2, FrameRowsAssumption
  <2>2. QED
    BY <2>1
<1> HIDE DEF q
<1>4. i \in Nat /\ i * q <= r /\ r < i * q + q
  BY <1>2, <1>3, FrameRowsAssumption
<1> HIDE DEF i
<1>5. i < n
  <2>1. ASSUME n <= i PROVE FALSE
    <3>1. n * q <= i * q
      BY <1>1, <1>2, <1>4, <2>1
    <3>2. QED
      BY <1>1, <1>2, <1>4, <3>1, FrameRowsAssumption
  <2>2. QED
    BY <2>1, <1>1, <1>4
<1>6. ShardFrom(n, i) = i * q /\ i * q \in Nat
  BY <1>2, <1>4 DEF ShardFrom, q
<1>7. ShardLength(n, i) = IF q <= FrameRows - i * q THEN q ELSE FrameRows - i * q
  BY <1>6 DEF ShardLength, q
<1>8. r < ShardFrom(n, i) + ShardLength(n, i)
  BY <1>2, <1>4, <1>6, <1>7, FrameRowsAssumption
<1>9. i \in 0..(n - 1)
  BY <1>1, <1>4, <1>5
<1>10. QED
  BY <1>4, <1>6, <1>8, <1>9

\* The first of a set of listed names is one of them.
LEMMA FirstIsListed ==
  ASSUME NEW names \in SUBSET Names, names # {}
  PROVE  First(names) \in names
<1>1. names \subseteq Nat
  BY FrameRowsAssumption DEF Names, MaxParts
<1>2. PICK x \in names : \A y \in names : <<y, x>> \notin OpToRel(<, Nat)
  BY <1>1, NatLessThanWellFounded, WFMin, Zenon
<1>3. \A y \in names : ~(y < x)
  BY <1>1, <1>2, Zenon DEF OpToRel
<1>4. \A y \in names : x <= y
  BY <1>1, <1>3
<1>5. QED
  BY <1>4 DEF First

-----------------------------------------------------------------------------
(* Types, for any number of executors *)

\* A writer inside its shard loop holds a split that does not raise and an
\* index of one of its shards.
LoopInv ==
  \A e \in Executors :
    pc[e] \in {"open", "write", "put"} => /\ split[e] \in ShardCounts
                                          /\ ~SplitRaises(split[e])
                                          /\ next[e] < split[e]

TypeInv == TypeOK /\ LoopInv

LEMMA ConstantTypes ==
  /\ MaxParts \in Nat \ {0}
  /\ \A n \in ShardCounts \union {1} : n \in 1..MaxParts
  /\ Legacy \in Names /\ PartNames \subseteq Names
  /\ Legacy \notin PartNames
BY FrameRowsAssumption, ShardCountsAssumption
   DEF MaxParts, Legacy, Names, PartNames

LEMMA ContentTypes ==
  /\ Absent \in FileContents /\ Partial \in FileContents
  /\ Holding(0, FrameRows) \in FileContents
  /\ \A n \in ShardCounts : \A i \in 0..(n - 1) :
       ~SplitRaises(n) => Shard(n, i) \in FileContents
<1>1. 0 \in 0..FrameRows /\ FrameRows \in 0..FrameRows
  BY FrameRowsAssumption
<1>2. ASSUME NEW n \in ShardCounts, NEW i \in 0..(n - 1), ~SplitRaises(n)
      PROVE  Shard(n, i) \in FileContents
  BY <1>2, ShardBounds DEF Shard, FileContents
<1>3. QED
  BY <1>1, <1>2 DEF FileContents

LEMMA TypeInit == Init => TypeInv
BY ConstantTypes, ContentTypes, MaxCrashesAssumption
   DEF Init, TypeInv, TypeOK, LoopInv, Labels, Ended

LEMMA TypeStep == TypeInv /\ [Next]_vars => TypeInv'
<1> SUFFICES ASSUME TypeOK, LoopInv, [Next]_vars
             PROVE  TypeOK' /\ LoopInv'
  BY DEF TypeInv
<1>0. UNCHANGED <<store, budgets>>
  BY DEF Next, vars
<1> USE <1>0, ConstantTypes, ContentTypes DEF TypeOK, LoopInv, Labels, Ended, Moves, Goto
<1>1. ASSUME NEW e \in Executors, ReadManifest(e) PROVE TypeOK' /\ LoopInv'
  BY <1>1 DEF ReadManifest
<1>2. ASSUME NEW e \in Executors, GlobShards(e) PROVE TypeOK' /\ LoopInv'
  BY <1>2 DEF GlobShards, Present
<1>3. ASSUME NEW e \in Executors, CollectFile(e) PROVE TypeOK' /\ LoopInv'
  <2> DEFINE x == First(todo[e])
  <2>1. CASE files[x].state = "closed"
    <3>1. got' = [got EXCEPT ![e] = Append(@, files[x])]
      BY <1>3, <2>1 DEF CollectFile
    <3>2. todo' = [todo EXCEPT ![e] = @ \ {x}]
      BY <1>3, <2>1 DEF CollectFile
    <3>3. files[x] \in FileContents
      BY <1>3, FirstIsListed DEF CollectFile
    <3>4. QED
      BY <1>3, <2>1, <3>1, <3>2, <3>3 DEF CollectFile
  <2>2. CASE files[x].state # "closed"
    BY <1>3, <2>2 DEF CollectFile
  <2>3. QED
    BY <2>1, <2>2
<1>4. ASSUME NEW e \in Executors, Serve(e) PROVE TypeOK' /\ LoopInv'
  BY <1>4 DEF Serve
<1>5. ASSUME NEW e \in Executors, RemoveLegacy(e) PROVE TypeOK' /\ LoopInv'
  BY <1>5 DEF RemoveLegacy, AfterLegacy, Unlink
<1>6. ASSUME NEW e \in Executors, UnlinkStale(e) PROVE TypeOK' /\ LoopInv'
  <2> DEFINE x == First(todo[e])
  <2>1. CASE x \in Present
    <3>1. /\ files' = [y \in Names |-> IF y \in {x} THEN Absent ELSE files[y]]
          /\ linked' = [w \in Executors |-> linked[w] /\ Part(next[w]) \notin {x}]
          /\ todo' = [todo EXCEPT ![e] = @ \ {x}]
          /\ UNCHANGED <<pc, manifest, got, split, next, crashes>>
      BY <1>6, <2>1 DEF UnlinkStale, Unlink
    <3>2. files' \in [Names -> FileContents] /\ linked' \in [Executors -> BOOLEAN]
      BY <3>1
    <3>3. QED
      BY <3>1, <3>2
  <2>2. CASE x \notin Present
    BY <1>6, <2>2 DEF UnlinkStale
  <2>3. QED
    BY <2>1, <2>2
<1>7. ASSUME NEW e \in Executors, SplitIntoShards(e) PROVE TypeOK' /\ LoopInv'
  <2>1. PICK n \in ShardCounts :
          /\ \/ SplitRaises(n) /\ Moves(e, "clean", "unsaved")
             \/ ~SplitRaises(n) /\ Moves(e, "clean", IF store = "s3" THEN "put" ELSE "open")
          /\ split' = [split EXCEPT ![e] = n]
    BY <1>7 DEF SplitIntoShards
  <2>2. /\ next' = [next EXCEPT ![e] = 0]
        /\ UNCHANGED <<manifest, files, todo, got, linked, crashes>>
    BY <1>7 DEF SplitIntoShards
  <2>3. TypeOK'
    <3>1. pc' \in [Executors -> Labels]
      BY <2>1
    <3>2. split' \in [Executors -> ShardCounts \union {1}]
      BY <2>1
    <3>3. next' \in [Executors -> 0..MaxParts]
      BY <2>2
    <3>4. QED
      BY <2>2, <3>1, <3>2, <3>3
  <2>4. n \in Nat /\ 0 < n
    OBVIOUS
  <2>5. LoopInv'
    BY <2>1, <2>2, <2>4
  <2>6. QED
    BY <2>3, <2>5
<1>8. ASSUME NEW e \in Executors, OpenShard(e) PROVE TypeOK' /\ LoopInv'
  BY <1>8 DEF OpenShard
<1>9. ASSUME NEW e \in Executors, CloseShard(e) PROVE TypeOK' /\ LoopInv'
  <2>1. /\ split[e] \in ShardCounts /\ ~SplitRaises(split[e])
        /\ split[e] \in 1..MaxParts /\ next[e] \in 0..(split[e] - 1)
    BY <1>9 DEF CloseShard
  <2>2. Shard(split[e], next[e]) \in FileContents
    BY <2>1
  <2>3. files' \in [Names -> FileContents]
    BY <1>9, <2>2 DEF CloseShard
  <2>4. /\ next' = [next EXCEPT ![e] = @ + 1] /\ next[e] + 1 \in 0..MaxParts
        /\ linked' = [linked EXCEPT ![e] = FALSE]
        /\ UNCHANGED <<manifest, todo, got, split, crashes>>
    BY <1>9, <2>1 DEF CloseShard
  <2>5. \/ next[e] + 1 < split[e] /\ Moves(e, "write", "open")
        \/ next[e] + 1 >= split[e] /\ Moves(e, "write", "stat")
    BY <1>9 DEF CloseShard
  <2>6. TypeOK'
    BY <2>3, <2>4, <2>5
  <2>7. LoopInv'
    BY <2>1, <2>4, <2>5
  <2>8. QED
    BY <2>6, <2>7
<1>10. ASSUME NEW e \in Executors, StatShards(e) PROVE TypeOK' /\ LoopInv'
  BY <1>10 DEF StatShards
<1>11. ASSUME NEW e \in Executors, OpenManifest(e) PROVE TypeOK' /\ LoopInv'
  BY <1>11 DEF OpenManifest
<1>12. ASSUME NEW e \in Executors, CloseManifest(e) PROVE TypeOK' /\ LoopInv'
  BY <1>12 DEF CloseManifest
<1>13. ASSUME NEW e \in Executors, Return(e) PROVE TypeOK' /\ LoopInv'
  BY <1>13 DEF Return, Forget
<1>14. ASSUME NEW e \in Executors, Crash(e) PROVE TypeOK' /\ LoopInv'
  BY <1>14, MaxCrashesAssumption DEF Crash, Forget
<1>15. ASSUME NEW e \in Executors, FindLegacy(e) \/ FindManifest(e) PROVE TypeOK' /\ LoopInv'
  BY <1>15 DEF FindLegacy, AfterLegacy, FindManifest
<1>16. ASSUME NEW e \in Executors, DeleteManifest(e) PROVE TypeOK' /\ LoopInv'
  BY <1>16 DEF DeleteManifest
<1>17. ASSUME NEW e \in Executors, ListParts(e) PROVE TypeOK' /\ LoopInv'
  BY <1>17 DEF ListParts, Present, PresentParts
<1>18. ASSUME NEW e \in Executors, PutShard(e) PROVE TypeOK' /\ LoopInv'
  <2>1. /\ split[e] \in ShardCounts /\ ~SplitRaises(split[e])
        /\ split[e] \in 1..MaxParts /\ next[e] \in 0..(split[e] - 1)
    BY <1>18 DEF PutShard
  <2>2. Shard(split[e], next[e]) \in FileContents
    BY <2>1
  <2>3. files' \in [Names -> FileContents]
    BY <1>18, <2>2 DEF PutShard
  <2>4. /\ next' = [next EXCEPT ![e] = @ + 1] /\ next[e] + 1 \in 0..MaxParts
        /\ UNCHANGED <<manifest, todo, got, split, linked, crashes>>
    BY <1>18, <2>1 DEF PutShard
  <2>5. \/ next[e] + 1 < split[e] /\ Moves(e, "put", "put")
        \/ next[e] + 1 >= split[e] /\ Moves(e, "put", "register")
    BY <1>18 DEF PutShard
  <2>6. TypeOK'
    BY <2>3, <2>4, <2>5
  <2>7. LoopInv'
    BY <2>1, <2>4, <2>5
  <2>8. QED
    BY <2>6, <2>7
<1>19. ASSUME NEW e \in Executors, PutManifest(e) PROVE TypeOK' /\ LoopInv'
  BY <1>19 DEF PutManifest
<1>20. CASE UNCHANGED vars
  BY <1>20 DEF vars
<1>21. QED
  BY <1>1, <1>2, <1>3, <1>4, <1>5, <1>6, <1>7, <1>8, <1>9, <1>10, <1>11, <1>12,
     <1>13, <1>14, <1>15, <1>16, <1>17, <1>18, <1>19, <1>20 DEF Next, Act

\* Every variable of FrameCache keeps its type, for any number of executors.
THEOREM TypeCorrect == Spec => []TypeOK
<1>1. TypeInv => TypeOK
  BY DEF TypeInv
<1>2. QED
  BY <1>1, TypeInit, TypeStep, PTL DEF Spec

-----------------------------------------------------------------------------
(* An entry used by one executor at a time *)

Quiet == {"absent", "idle", "glob", "scan", "served", "failed", "saved", "unsaved"}

\* The first n shards of a split of the frame, and nothing else.
HoldsShards(m, n) ==
  \A x \in Names : files[x] = IF x \in 1..n THEN Shard(m, x - 1) ELSE Absent

Complete ==
  \/ \A x \in Names :
       files[x] = IF x = Legacy THEN Holding(0, FrameRows) ELSE Absent
  \/ \E n \in ShardCounts : ~SplitRaises(n) /\ HoldsShards(n, n)

\* A success manifest stands for complete files, and the executor only writes
\* while there is none: what it has written so far is what its loop says.
SoleInv ==
  /\ manifest = "success" =>
       /\ Complete
       /\ \A e \in Executors : pc[e] \in Quiet
  /\ \A e \in Executors :
       /\ pc[e] \in {"unsign", "retract", "list"} => files[Legacy] = Absent
       /\ pc[e] = "clean" => \A x \in Names : files[x] # Absent => x \in todo[e]
       /\ pc[e] \in {"open", "put"} => HoldsShards(split[e], next[e])
       /\ pc[e] = "write" =>
            /\ linked[e]
            /\ \A x \in Names :
                 files[x] = IF x \in 1..next[e] THEN Shard(split[e], x - 1)
                            ELSE IF x = Part(next[e]) THEN Partial
                            ELSE Absent
       /\ pc[e] \in {"stat", "sign", "signing", "register"} =>
            /\ split[e] \in ShardCounts /\ ~SplitRaises(split[e])
            /\ HoldsShards(split[e], split[e])

LEMMA CompletePresent == TypeOK /\ Complete => Present # {}
<1> SUFFICES ASSUME TypeOK, Complete PROVE Present # {}
  OBVIOUS
<1>1. CASE \A x \in Names :
             files[x] = IF x = Legacy THEN Holding(0, FrameRows) ELSE Absent
  BY <1>1, ConstantTypes DEF Present, Holding, Absent
<1>2. ASSUME NEW n \in ShardCounts, ~SplitRaises(n), HoldsShards(n, n)
      PROVE  Present # {}
  <2>1. 1 \in Names /\ 1 \in 1..n
    BY ConstantTypes DEF Names
  <2>2. files[1] = Shard(n, 0)
    BY <1>2, <2>1 DEF HoldsShards
  <2>3. QED
    BY <2>1, <2>2 DEF Present, Shard, Holding, Absent
<1>3. QED
  BY <1>1, <1>2 DEF Complete

LEMMA ShardFields ==
  ASSUME NEW n, NEW i
  PROVE  /\ Shard(n, i).state = "closed"
         /\ Shard(n, i).from = ShardFrom(n, i)
         /\ Shard(n, i).to = ShardFrom(n, i) + ShardLength(n, i)
BY DEF Shard, Holding

\* Complete files hold every row of the frame once, in order.
LEMMA CompleteIsWhole == TypeOK /\ Complete => HoldWholeFrame(Present)
<1> SUFFICES ASSUME TypeOK, Complete PROVE HoldWholeFrame(Present)
  OBVIOUS
<1>1. CASE \A x \in Names :
             files[x] = IF x = Legacy THEN Holding(0, FrameRows) ELSE Absent
  <2>1. Present = {Legacy} /\ files[Legacy] = Holding(0, FrameRows)
    BY <1>1, ConstantTypes DEF Present, Holding, Absent
  <2>2. QED
    BY <2>1, FrameRowsAssumption DEF HoldWholeFrame, Holding, Legacy
<1>2. ASSUME NEW n \in ShardCounts, ~SplitRaises(n), HoldsShards(n, n)
      PROVE  HoldWholeFrame(Present)
  <2>1. n \in 1..MaxParts
    BY ConstantTypes
  <2>2. \A x \in Present : x \in 1..n
    BY <1>2 DEF HoldsShards, Present
  <2>3. \A x \in 1..n : x \in Present /\ files[x] = Shard(n, x - 1)
    <3>1. \A x \in 1..n : x \in Names
      BY <2>1, ConstantTypes DEF Names
    <3>2. QED
      BY <1>2, <3>1 DEF HoldsShards, Present, Shard, Holding, Absent
  <2>4. \A x \in Present : files[x].state = "closed"
    BY <2>2, <2>3, ShardFields
  <2>5. ASSUME NEW r \in 0..(FrameRows - 1)
        PROVE  \E x \in Present : files[x].from <= r /\ r < files[x].to
    <3>1. PICK i \in 0..(n - 1) : /\ ShardFrom(n, i) <= r
                                  /\ r < ShardFrom(n, i) + ShardLength(n, i)
      BY <1>2, ShardsCover
    <3>2. i + 1 \in 1..n /\ (i + 1) - 1 = i
      BY <2>1, ConstantTypes
    <3>3. files[i + 1] = Shard(n, i) /\ i + 1 \in Present
      BY <2>3, <3>2
    <3>4. QED
      BY <3>1, <3>3, ShardFields
  <2>6. ASSUME NEW x \in Present, NEW y \in Present, x < y
        PROVE  files[x].to <= files[y].from
    <3>1. x \in 1..n /\ y \in 1..n
      BY <2>2
    <3>2. x - 1 \in 0..(n - 1) /\ y - 1 \in 0..(n - 1) /\ x - 1 < y - 1
      BY <2>1, <2>6, <3>1, ConstantTypes
    <3>3. ShardFrom(n, x - 1) + ShardLength(n, x - 1) <= ShardFrom(n, y - 1)
      BY <1>2, <3>2, ShardsOrdered
    <3>4. QED
      BY <2>3, <3>1, <3>3, ShardFields
  <2>7. QED
    BY <2>4, <2>5, <2>6 DEF HoldWholeFrame
<1>3. QED
  BY <1>1, <1>2 DEF Complete

LEMMA SoleInit == Init => SoleInv
<1> SUFFICES ASSUME Init PROVE SoleInv
  OBVIOUS
<1>1. \A e \in Executors : pc[e] \in {"idle", "absent"}
  BY DEF Init
<1>2. manifest = "success" => Complete
  BY DEF Init, Complete
<1>3. QED
  BY <1>1, <1>2 DEF SoleInv, Quiet

\* Who takes part is settled at the start.
LEMMA PresenceStays ==
  TypeOK /\ [Next]_vars =>
    \A e \in Executors : pc'[e] = "absent" <=> pc[e] = "absent"
<1> SUFFICES ASSUME TypeOK, [Next]_vars, NEW a \in Executors
             PROVE  pc'[a] = "absent" <=> pc[a] = "absent"
  OBVIOUS
<1>1. ASSUME NEW e \in Executors, Act(e) PROVE pc'[a] = "absent" <=> pc[a] = "absent"
  BY <1>1 DEF TypeOK, Act, Moves, Goto, ReadManifest, GlobShards, CollectFile, Serve,
     RemoveLegacy, UnlinkStale, SplitIntoShards, OpenShard, CloseShard, StatShards,
     OpenManifest, CloseManifest, FindLegacy, AfterLegacy, FindManifest, DeleteManifest, ListParts, PutShard,
     PutManifest, Return, Ended
<1>2. ASSUME NEW e \in Executors, Crash(e) PROVE pc'[a] = "absent" <=> pc[a] = "absent"
  BY <1>2 DEF TypeOK, Crash, Goto
<1>3. QED
  BY <1>1, <1>2 DEF Next, vars

LEMMA SoleStays == TypeOK /\ [Next]_vars => (Sole' <=> Sole)
BY PresenceStays DEF Sole

LEMMA SoleStep ==
  Sole /\ TypeInv /\ SoleInv /\ [Next]_vars => SoleInv'
<1> SUFFICES ASSUME Sole, TypeOK, LoopInv, SoleInv, [Next]_vars
             PROVE  SoleInv'
  BY DEF TypeInv
<1> USE ConstantTypes DEF Moves, Goto, Quiet
<1> DEFINE At(e) == /\ pc[e] \in {"unsign", "retract", "list"} => files[Legacy] = Absent
                    /\ pc[e] = "clean" =>
                         \A x \in Names : files[x] # Absent => x \in todo[e]
                    /\ pc[e] \in {"open", "put"} => HoldsShards(split[e], next[e])
                    /\ pc[e] = "write" =>
                         /\ linked[e]
                         /\ \A x \in Names :
                              files[x] = IF x \in 1..next[e] THEN Shard(split[e], x - 1)
                                         ELSE IF x = Part(next[e]) THEN Partial
                                         ELSE Absent
                    /\ pc[e] \in {"stat", "sign", "signing", "register"} =>
                         /\ split[e] \in ShardCounts /\ ~SplitRaises(split[e])
                         /\ HoldsShards(split[e], split[e])
\* It is enough to look at the executor that moves: no other takes part.
<1>1. ASSUME NEW e \in Executors, pc'[e] # "absent", At(e)',
             (manifest = "success" => Complete /\ pc[e] \in Quiet)'
      PROVE  SoleInv'
  <2>1. \A a \in Executors : a = e \/ pc'[a] = "absent"
    BY <1>1, SoleStays DEF Sole
  <2>2. QED
    BY <1>1, <2>1 DEF SoleInv
<1>2. ASSUME NEW e \in Executors
      PROVE  At(e) /\ (manifest = "success" => Complete /\ pc[e] \in Quiet)
  BY DEF SoleInv
\* Steps that leave the files and the manifest alone and stay out of the loop.
<1>3. ASSUME NEW e \in Executors, UNCHANGED <<files, manifest>>, pc'[e] # "absent",
             pc'[e] \in Quiet, manifest = "success" => pc[e] \in Quiet
      PROVE  SoleInv'
  <2>1. At(e)'
    BY <1>3
  <2>2. (manifest = "success" => Complete)'
    BY <1>2, <1>3 DEF Complete, HoldsShards
  <2>3. QED
    BY <1>1, <1>3, <2>1, <2>2
<1>4. ASSUME NEW e \in Executors, ReadManifest(e) PROVE SoleInv'
  <2>1. CASE manifest = "success"
    BY <1>2, <1>3, <1>4, <2>1 DEF ReadManifest, TypeOK
  <2>2. CASE manifest # "success"
    <3>1. pc'[e] = "miss" /\ manifest' = manifest
      BY <1>4, <2>2 DEF ReadManifest, TypeOK
    <3>2. QED
      BY <1>1, <2>2, <3>1
  <2>3. QED
    BY <2>1, <2>2
<1>5. ASSUME NEW e \in Executors, GlobShards(e) PROVE SoleInv'
  <2>1. CASE Present # {}
    BY <1>2, <1>3, <1>5, <2>1 DEF GlobShards, TypeOK
  <2>2. CASE Present = {}
    <3>1. manifest' # "success"
      BY <1>2, <1>5, <2>2, CompletePresent DEF GlobShards
    <3>2. pc'[e] \in {"miss", "failed"}
      BY <1>5, <2>2 DEF GlobShards, TypeOK
    <3>3. QED
      BY <1>1, <3>1, <3>2
  <2>3. QED
    BY <2>1, <2>2
<1>6. ASSUME NEW e \in Executors, CollectFile(e) PROVE SoleInv'
  <2>1. UNCHANGED <<files, manifest>> /\ pc'[e] \in {"scan", "failed"} /\ pc[e] = "scan"
    BY <1>6 DEF CollectFile, TypeOK
  <2>2. QED
    BY <1>3, <2>1
<1>7. ASSUME NEW e \in Executors, Serve(e) PROVE SoleInv'
  BY <1>3, <1>7 DEF Serve, TypeOK
<1>8. ASSUME NEW e \in Executors, RemoveLegacy(e) PROVE SoleInv'
  <2>1. pc[e] = "found" /\ pc'[e] \in {"unsign", "list", "unsaved"} /\ manifest' = manifest
    BY <1>8 DEF RemoveLegacy, AfterLegacy, TypeOK
  <2>2. files'[Legacy] = Absent
    BY <1>8, ConstantTypes DEF RemoveLegacy, Unlink, Legacy, Names
  <2>3. QED
    BY <1>1, <1>2, <2>1, <2>2
<1>9. ASSUME NEW e \in Executors, UnlinkStale(e) PROVE SoleInv'
  <2> DEFINE x == First(todo[e])
  <2>1. pc[e] = "clean" /\ manifest' = manifest /\ manifest # "success"
    BY <1>2, <1>9 DEF UnlinkStale
  <2>2. CASE x \in Present
    <3>1. /\ pc' = pc /\ todo'[e] = todo[e] \ {x}
          /\ files' = [y \in Names |-> IF y \in {x} THEN Absent ELSE files[y]]
      BY <1>9, <2>2 DEF UnlinkStale, Unlink, TypeOK
    <3>2. \A y \in Names : files'[y] # Absent => y \in todo'[e]
      BY <1>2, <2>1, <3>1
    <3>3. QED
      BY <1>1, <2>1, <3>1, <3>2
  <2>3. CASE x \notin Present
    <3>1. pc'[e] = "unsaved"
      BY <1>9, <2>3 DEF UnlinkStale, TypeOK
    <3>2. QED
      BY <1>1, <2>1, <3>1
  <2>4. QED
    BY <2>2, <2>3
<1>10. ASSUME NEW e \in Executors, SplitIntoShards(e) PROVE SoleInv'
  <2>1. UNCHANGED <<manifest, files>> /\ pc[e] = "clean" /\ manifest # "success"
    BY <1>2, <1>10 DEF SplitIntoShards
  <2>2. PICK n \in ShardCounts :
          /\ \/ SplitRaises(n) /\ Moves(e, "clean", "unsaved")
             \/ ~SplitRaises(n) /\ Moves(e, "clean", IF store = "s3" THEN "put" ELSE "open")
          /\ split' = [split EXCEPT ![e] = n]
    BY <1>10 DEF SplitIntoShards, TypeOK
  <2>3. next'[e] = 0 /\ todo[e] = {}
    BY <1>10 DEF SplitIntoShards, TypeOK
  <2>4. \A x \in Names : files[x] = Absent
    BY <1>2, <2>1, <2>3
  <2>5. HoldsShards(split[e], next[e])'
    BY <2>1, <2>3, <2>4 DEF HoldsShards
  <2>6. pc'[e] \in {"unsaved", "open", "put"}
    BY <2>2 DEF TypeOK
  <2>7. QED
    BY <1>1, <2>1, <2>5, <2>6
<1>11. ASSUME NEW e \in Executors, OpenShard(e) PROVE SoleInv'
  <2>0. pc[e] = "open" /\ manifest # "success"
    BY <1>2, <1>11 DEF OpenShard
  <2>1. /\ pc[e] = "open" /\ pc'[e] = "write" /\ manifest' = manifest
        /\ manifest # "success" /\ linked'[e]
        /\ files' = [files EXCEPT ![Part(next[e])] = Partial]
        /\ split' = split /\ next' = next
    BY <1>11, <2>0 DEF OpenShard, TypeOK
  <2>2. next[e] \in Nat
    BY DEF TypeOK
  <2>3. ASSUME NEW x \in Names
        PROVE  files'[x] = IF x \in 1..next[e] THEN Shard(split[e], x - 1)
                           ELSE IF x = Part(next[e]) THEN Partial ELSE Absent
    <3>1. files[x] = IF x \in 1..next[e] THEN Shard(split[e], x - 1) ELSE Absent
      BY <1>2, <2>1 DEF HoldsShards
    <3>2. x = Part(next[e]) => x \notin 1..next[e]
      BY <2>2 DEF Part
    <3>3. QED
      BY <2>1, <3>1, <3>2 DEF TypeOK
  <2>4. QED
    BY <1>1, <2>1, <2>3
<1>12. ASSUME NEW e \in Executors, CloseShard(e) PROVE SoleInv'
  <2>1. /\ pc[e] = "write" /\ pc'[e] \in {"open", "stat"} /\ manifest' = manifest
        /\ manifest # "success" /\ linked[e] /\ split' = split
        /\ files' = [files EXCEPT ![Part(next[e])] = Shard(split[e], next[e])]
        /\ next'[e] = next[e] + 1
    BY <1>2, <1>12 DEF CloseShard, TypeOK
  <2>2. /\ next[e] \in Nat /\ split[e] \in ShardCounts /\ split[e] \in 1..MaxParts
        /\ ~SplitRaises(split[e]) /\ next[e] < split[e]
    BY <2>1 DEF TypeOK, LoopInv
  <2>3. pc'[e] = "stat" => next[e] + 1 = split[e]
    BY <1>12, <2>2 DEF CloseShard, TypeOK
  <2>4. ASSUME NEW x \in Names
        PROVE  files'[x] = IF x \in 1..(next[e] + 1) THEN Shard(split[e], x - 1)
                           ELSE Absent
    <3>1. files[x] = IF x \in 1..next[e] THEN Shard(split[e], x - 1)
                     ELSE IF x = Part(next[e]) THEN Partial ELSE Absent
      BY <1>2, <2>1
    <3>2. x \in 1..(next[e] + 1) <=> x \in 1..next[e] \/ x = Part(next[e])
      BY <2>2 DEF Part, Names
    <3>3. CASE x = Part(next[e])
      <4>1. x - 1 = next[e]
        BY <2>2, <3>3 DEF Part
      <4>2. files'[x] = Shard(split[e], next[e])
        BY <2>1, <3>3 DEF TypeOK
      <4>3. QED
        BY <3>2, <3>3, <4>1, <4>2
    <3>4. CASE x # Part(next[e])
      <4>1. files'[x] = files[x]
        BY <2>1, <3>4 DEF TypeOK
      <4>2. QED
        BY <3>1, <3>2, <3>4, <4>1
    <3>5. QED
      BY <3>3, <3>4
  <2>5. HoldsShards(split[e], next[e])'
    BY <2>1, <2>4 DEF HoldsShards
  <2>6. pc'[e] = "stat" => HoldsShards(split[e], split[e])'
    BY <2>1, <2>3, <2>4 DEF HoldsShards
  <2>7. QED
    BY <1>1, <2>1, <2>2, <2>5, <2>6
<1>13. ASSUME NEW e \in Executors, StatShards(e) PROVE SoleInv'
  <2>1. /\ pc[e] = "stat" /\ pc'[e] \in {"sign", "unsaved"} /\ manifest # "success"
        /\ UNCHANGED <<manifest, files, split, next>>
    BY <1>2, <1>13 DEF StatShards, TypeOK
  <2>2. QED
    BY <1>1, <1>2, <2>1 DEF HoldsShards
<1>14. ASSUME NEW e \in Executors, OpenManifest(e) PROVE SoleInv'
  <2>1. /\ pc[e] = "sign" /\ pc'[e] = "signing" /\ manifest' = "partial"
        /\ UNCHANGED <<files, split, next>>
    BY <1>14 DEF OpenManifest, TypeOK
  <2>2. QED
    BY <1>1, <1>2, <2>1 DEF HoldsShards
<1>15. ASSUME NEW e \in Executors, CloseManifest(e) PROVE SoleInv'
  <2>1. pc[e] = "signing" /\ pc'[e] = "saved" /\ UNCHANGED files
    BY <1>15 DEF CloseManifest, TypeOK
  <2>2. Complete'
    BY <1>2, <2>1 DEF Complete, HoldsShards
  <2>3. QED
    BY <1>1, <2>1, <2>2
<1>16. ASSUME NEW e \in Executors, Return(e) PROVE SoleInv'
  <2>1. /\ pc[e] \in Quiet /\ pc'[e] = "idle" /\ UNCHANGED <<files, manifest>>
    BY <1>16 DEF Return, Ended, TypeOK
  <2>2. QED
    BY <1>3, <2>1
<1>17. ASSUME NEW e \in Executors, Crash(e) PROVE SoleInv'
  <2>1. pc'[e] = "idle" /\ UNCHANGED <<files, manifest>>
    BY <1>17 DEF Crash, TypeOK
  <2>2. QED
    BY <1>2, <1>3, <2>1
<1>18. ASSUME NEW e \in Executors, FindLegacy(e) \/ FindManifest(e) PROVE SoleInv'
  <2>1. /\ pc[e] \in {"miss", "unsign"} /\ pc'[e] \in {"found", "unsign", "retract", "list"}
        /\ UNCHANGED <<files, manifest>>
    BY <1>18 DEF FindLegacy, AfterLegacy, FindManifest, TypeOK
  <2>2. pc'[e] \in {"unsign", "retract", "list"} => files[Legacy] = Absent
    BY <1>2, <1>18, ConstantTypes DEF FindLegacy, AfterLegacy, FindManifest, TypeOK, Present
  <2>3. QED
    BY <1>1, <1>2, <2>1, <2>2
<1>19. ASSUME NEW e \in Executors, DeleteManifest(e) PROVE SoleInv'
  <2>1. /\ pc[e] = "retract" /\ pc'[e] \in {"unsaved", "list"} /\ manifest' = "absent"
        /\ files' = files
    BY <1>19 DEF DeleteManifest, TypeOK
  <2>2. QED
    BY <1>1, <1>2, <2>1
<1>20. ASSUME NEW e \in Executors, ListParts(e) PROVE SoleInv'
  <2>1. /\ pc[e] = "list" /\ pc'[e] = "clean" /\ UNCHANGED <<manifest, files>>
        /\ todo'[e] = PresentParts
    BY <1>20 DEF ListParts, TypeOK
  <2>2. QED
    BY <1>1, <1>2, <2>1 DEF PresentParts, Present
<1>21. ASSUME NEW e \in Executors, PutShard(e) PROVE SoleInv'
  <2>1. /\ pc[e] = "put" /\ pc'[e] \in {"put", "register"} /\ manifest' = manifest
        /\ manifest # "success" /\ split' = split
        /\ files' = [files EXCEPT ![Part(next[e])] = Shard(split[e], next[e])]
        /\ next'[e] = next[e] + 1
    BY <1>2, <1>21 DEF PutShard, TypeOK
  <2>2. /\ next[e] \in Nat /\ split[e] \in ShardCounts /\ split[e] \in 1..MaxParts
        /\ ~SplitRaises(split[e]) /\ next[e] < split[e]
    BY <2>1 DEF TypeOK, LoopInv
  <2>3. pc'[e] = "register" => next[e] + 1 = split[e]
    BY <1>21, <2>2 DEF PutShard, TypeOK
  <2>4. ASSUME NEW x \in Names
        PROVE  files'[x] = IF x \in 1..(next[e] + 1) THEN Shard(split[e], x - 1)
                           ELSE Absent
    <3>1. files[x] = IF x \in 1..next[e] THEN Shard(split[e], x - 1) ELSE Absent
      BY <1>2, <2>1 DEF HoldsShards
    <3>2. x \in 1..(next[e] + 1) <=> x \in 1..next[e] \/ x = Part(next[e])
      BY <2>2 DEF Part, Names
    <3>3. CASE x = Part(next[e])
      <4>1. x - 1 = next[e]
        BY <2>2, <3>3 DEF Part
      <4>2. files'[x] = Shard(split[e], next[e])
        BY <2>1, <3>3 DEF TypeOK
      <4>3. QED
        BY <3>2, <3>3, <4>1, <4>2
    <3>4. CASE x # Part(next[e])
      <4>1. files'[x] = files[x]
        BY <2>1, <3>4 DEF TypeOK
      <4>2. QED
        BY <3>1, <3>2, <3>4, <4>1
    <3>5. QED
      BY <3>3, <3>4
  <2>5. HoldsShards(split[e], next[e])'
    BY <2>1, <2>4 DEF HoldsShards
  <2>6. pc'[e] = "register" => HoldsShards(split[e], split[e])'
    BY <2>1, <2>3, <2>4 DEF HoldsShards
  <2>7. QED
    BY <1>1, <2>1, <2>2, <2>5, <2>6
<1>22. ASSUME NEW e \in Executors, PutManifest(e) PROVE SoleInv'
  <2>1. pc[e] = "register" /\ pc'[e] = "saved" /\ UNCHANGED files
    BY <1>22 DEF PutManifest, TypeOK
  <2>2. Complete'
    BY <1>2, <2>1 DEF Complete, HoldsShards
  <2>3. QED
    BY <1>1, <2>1, <2>2
<1>23. CASE UNCHANGED vars
  BY <1>23 DEF vars, SoleInv, Complete, HoldsShards
<1>24. QED
  BY <1>4, <1>5, <1>6, <1>7, <1>8, <1>9, <1>10, <1>11, <1>12, <1>13, <1>14,
     <1>15, <1>16, <1>17, <1>18, <1>19, <1>20, <1>21, <1>22, <1>23 DEF Next, Act

LEMMA SoleInvariant == Spec => [](TypeInv /\ (Sole => SoleInv))
<1>1. Init => TypeInv /\ SoleInv
  BY TypeInit, SoleInit
<1>2. TypeInv /\ (Sole => SoleInv) /\ [Next]_vars => (TypeInv /\ (Sole => SoleInv))'
  BY TypeStep, SoleStep, SoleStays DEF TypeInv
<1>3. QED
  BY <1>1, <1>2, PTL DEF Spec

\* An entry that one executor writes at a time only ever offers whole frames,
\* in a directory as on S3, whatever the shard counts and wherever its runs were
\* cut short (_read_cache, _write_cache).
THEOREM HitsAreWhole == Spec => []HitIsWhole
<1>1. TypeInv /\ (Sole => SoleInv) => HitIsWhole
  BY CompleteIsWhole DEF TypeInv, SoleInv, HitIsWhole, Hit
<1>2. QED
  BY <1>1, SoleInvariant, PTL

\* Under the same condition a hit is never withdrawn: an executor that finds
\* the entry leaves its files alone (_read_cache, _write_cache).
THEOREM HitsAreKept == Spec => HitIsNeverWithdrawn
<1> DEFINE Inv == TypeInv /\ (Sole => SoleInv)
<1>1. Inv /\ Inv' /\ [Next]_vars => [Sole /\ Hit => Hit']_vars
  <2> SUFFICES ASSUME Sole, TypeInv, SoleInv, Inv', [Next]_vars, Hit
               PROVE  Hit'
    OBVIOUS
  <2>1. Sole'
    BY SoleStays DEF TypeInv
  <2>2. \A e \in Executors : pc[e] \notin {"sign", "unsign", "retract"}
    BY DEF SoleInv, Hit, Quiet
  <2>3. manifest' = "success"
    BY <2>2 DEF Next, Act, vars, Hit, Moves, ReadManifest, GlobShards, CollectFile,
       Serve, RemoveLegacy, UnlinkStale, SplitIntoShards, OpenShard, CloseShard,
       StatShards, OpenManifest, CloseManifest, FindLegacy, AfterLegacy, FindManifest, DeleteManifest,
       ListParts, PutShard, PutManifest, Return, Crash
  <2>4. Complete' /\ TypeOK'
    BY <2>1, <2>3 DEF SoleInv, TypeInv
  <2>5. (Present # {})'
    BY <2>4, CompletePresent, PTL
  <2>6. QED
    BY <2>3, <2>5 DEF Hit
<1>2. QED
  BY <1>1, SoleInvariant, PTL DEF Spec, HitIsNeverWithdrawn

-----------------------------------------------------------------------------
(* What a reader collects *)

WholeFile == Holding(0, FrameRows)

\* The shards of a split that does not raise follow one another from the first
\* row to the last.
LEMMA ShardsTile ==
  ASSUME NEW n \in ShardCounts, ~SplitRaises(n), NEW ranges \in Seq(FileContents),
         Len(ranges) = n, \A i \in 1..n : ranges[i] = Shard(n, i - 1)
  PROVE  Tiles(ranges)
<1>1. n \in Nat \ {0}
  BY ShardCountsAssumption, FrameRowsAssumption
<1> DEFINE q == RowsPer(n)
<1>2. q \in Nat /\ FrameRows <= n * q
  BY <1>1, RowsPerCovers
<1>3. \A i \in 0..(n - 1) :
        /\ ShardFrom(n, i) = i * q /\ i * q \in Nat
        /\ ShardLength(n, i) = IF q <= FrameRows - i * q THEN q ELSE FrameRows - i * q
        /\ i * q <= FrameRows
  <2>1. SUFFICES ASSUME NEW i \in 0..(n - 1)
                 PROVE  /\ ShardFrom(n, i) = i * q /\ i * q \in Nat
                        /\ ShardLength(n, i) =
                             IF q <= FrameRows - i * q THEN q ELSE FrameRows - i * q
                        /\ i * q <= FrameRows
    OBVIOUS
  <2>2. ShardFrom(n, i) = i * q /\ i * q \in Nat
    BY <1>2 DEF ShardFrom
  <2>3. ShardLength(n, i) = IF q <= FrameRows - i * q THEN q ELSE FrameRows - i * q
    BY <2>2 DEF ShardLength
  <2>4. ShardFrom(n, i) <= FrameRows
    BY ShardBounds, FrameRowsAssumption
  <2>5. QED
    BY <2>2, <2>3, <2>4
<1>4. ASSUME NEW i \in 1..(n - 1) PROVE ranges[i].to = ranges[i + 1].from
  <2>1. i - 1 \in 0..(n - 1) /\ i \in 0..(n - 1) /\ i + 1 \in 1..n /\ i \in 1..n
    BY <1>1
  <2>2. i * q = (i - 1) * q + q
    BY <1>1, <1>2
  <2>3. ShardLength(n, i - 1) = q
    BY <1>2, <1>3, <2>1, <2>2, FrameRowsAssumption
  <2>4. ShardFrom(n, i - 1) + ShardLength(n, i - 1) = ShardFrom(n, i)
    BY <1>2, <1>3, <2>1, <2>2, <2>3
  <2>5. ranges[i].to = ShardFrom(n, i - 1) + ShardLength(n, i - 1)
    BY <2>1, ShardFields
  <2>6. ranges[i + 1].from = ShardFrom(n, i)
    <3>1. (i + 1) - 1 = i
      BY <2>1
    <3>2. QED
      BY <2>1, <3>1, ShardFields
  <2>7. QED
    BY <2>4, <2>5, <2>6
<1>5. ranges[1].from = 0
  <2>1. 1 \in 1..n /\ 1 - 1 = 0 /\ 0 \in 0..(n - 1) /\ 0 * q = 0
    BY <1>1, <1>2
  <2>2. ranges[1].from = ShardFrom(n, 0)
    BY <2>1, ShardFields
  <2>3. QED
    BY <1>3, <2>1, <2>2
<1>6. ranges[n].to = FrameRows
  <2>1. n \in 1..n /\ n - 1 \in 0..(n - 1) /\ n * q = (n - 1) * q + q
    BY <1>1, <1>2
  <2>2. ranges[n].to = ShardFrom(n, n - 1) + ShardLength(n, n - 1)
    BY <2>1, ShardFields
  <2> DEFINE p == (n - 1) * q
  <2>3. /\ ShardFrom(n, n - 1) = p /\ p \in Nat /\ p <= FrameRows
        /\ ShardLength(n, n - 1) = IF q <= FrameRows - p THEN q ELSE FrameRows - p
    BY <1>3, <2>1
  <2>4. FrameRows <= p + q
    BY <1>2, <2>1
  <2> HIDE DEF p, q
  <2>5. p + (IF q <= FrameRows - p THEN q ELSE FrameRows - p) = FrameRows
    BY <1>2, <2>3, <2>4, FrameRowsAssumption
  <2>6. QED
    BY <2>2, <2>3, <2>5
<1>7. ranges # <<>>
  BY <1>1
<1>8. QED
  BY <1>4, <1>5, <1>6, <1>7 DEF Tiles

\* One file with the whole frame is the frame.
LEMMA WholeFileTiles == Tiles(<<WholeFile>>)
BY DEF Tiles, WholeFile, Holding

LEMMA FirstOfRest ==
  ASSUME NEW n \in Nat, NEW k \in 0..(n - 1)
  PROVE  First((k + 1)..n) = k + 1
<1>1. k + 1 \in (k + 1)..n /\ \A y \in (k + 1)..n : k + 1 <= y
  OBVIOUS
<1>2. \A x \in (k + 1)..n : (\A y \in (k + 1)..n : x <= y) => x = k + 1
  BY <1>1
<1>3. QED
  BY <1>1, <1>2 DEF First

\* A reader has collected the whole file, or the first k shards of a split, and
\* the rest is still listed.
Scanned(e) ==
  \/ /\ files[Legacy] = WholeFile
     /\ \/ todo[e] = {Legacy} /\ got[e] = <<>>
        \/ todo[e] = {} /\ got[e] = <<WholeFile>>
  \/ \E n \in ShardCounts :
       /\ ~SplitRaises(n) /\ HoldsShards(n, n)
       /\ \E k \in 0..n :
            /\ todo[e] = (k + 1)..n /\ Len(got[e]) = k
            /\ \A i \in 1..k : got[e][i] = Shard(n, i - 1)

\* An executor that is about to read or reading holds on to a success manifest.
Reads(e) ==
  /\ pc[e] \in {"idle", "glob", "absent"} => got[e] = <<>>
  /\ pc[e] \in {"glob", "scan"} => manifest = "success"
  /\ pc[e] = "scan" => Scanned(e)
  /\ pc[e] = "served" => Tiles(got[e])

\* Listing complete files.
LEMMA ListedIsScanned ==
  \A e \in Executors :
    TypeOK /\ Complete /\ todo[e] = Present /\ got[e] = <<>> => Scanned(e)
<1> SUFFICES ASSUME NEW e \in Executors, TypeOK, Complete, todo[e] = Present,
                    got[e] = <<>>
             PROVE  Scanned(e)
  OBVIOUS
<1>1. CASE \A x \in Names :
             files[x] = IF x = Legacy THEN Holding(0, FrameRows) ELSE Absent
  <2>1. Present = {Legacy} /\ files[Legacy] = Holding(0, FrameRows)
    BY <1>1, ConstantTypes DEF Present, Holding, Absent
  <2>2. QED
    BY <2>1 DEF Scanned, WholeFile
<1>2. ASSUME NEW n \in ShardCounts, ~SplitRaises(n), HoldsShards(n, n)
      PROVE  Scanned(e)
  <2>1. n \in 1..MaxParts /\ n \in Nat
    BY ConstantTypes
  <2>2. Present = 1..n
    <3>1. \A x \in 1..n : x \in Names
      BY <2>1, ConstantTypes DEF Names
    <3>2. \A x \in 1..n : files[x] = Shard(n, x - 1) /\ Shard(n, x - 1) # Absent
      BY <1>2, <3>1 DEF HoldsShards, Shard, Holding, Absent
    <3>3. \A x \in Names : x \notin 1..n => files[x] = Absent
      BY <1>2 DEF HoldsShards
    <3>4. QED
      BY <3>1, <3>2, <3>3 DEF Present
  <2>3. 0 \in 0..n /\ todo[e] = (0 + 1)..n /\ Len(got[e]) = 0
    BY <2>1, <2>2
  <2>4. QED
    BY <1>2, <2>3 DEF Scanned
<1>3. QED
  BY <1>1, <1>2 DEF Complete

\* Collecting the next file.
LEMMA CollectedIsScanned ==
  ASSUME NEW e \in Executors, TypeOK, Scanned(e), CollectFile(e), pc'[e] = "scan"
  PROVE  Scanned(e)'
<1> DEFINE x == First(todo[e])
<1>1. /\ files[x].state = "closed" /\ got'[e] = Append(got[e], files[x])
      /\ todo'[e] = todo[e] \ {x} /\ files' = files /\ todo[e] # {}
  BY DEF CollectFile, Goto, TypeOK
<1>2. CASE files[Legacy] = WholeFile /\ todo[e] = {Legacy} /\ got[e] = <<>>
  <2>1. x = Legacy
    BY <1>2 DEF First, Legacy
  <2>2. got'[e] = Append(<<>>, WholeFile) /\ todo'[e] = {} /\ files'[Legacy] = WholeFile
    BY <1>1, <1>2, <2>1
  <2>3. Append(<<>>, WholeFile) = <<WholeFile>>
    OBVIOUS
  <2>4. QED
    BY <2>2, <2>3 DEF Scanned, WholeFile
<1>3. ASSUME NEW n \in ShardCounts, ~SplitRaises(n), HoldsShards(n, n),
             NEW k \in 0..n, todo[e] = (k + 1)..n, Len(got[e]) = k,
             \A i \in 1..k : got[e][i] = Shard(n, i - 1)
      PROVE  Scanned(e)'
  <2>1. n \in Nat /\ n \in 1..MaxParts
    BY ConstantTypes
  <2>2. k \in 0..(n - 1) /\ k + 1 \in 0..n /\ k + 1 \in 1..n /\ k + 1 \in Names
    BY <1>1, <1>3, <2>1, ConstantTypes DEF Names
  <2>3. x = k + 1
    BY <1>3, <2>1, <2>2, FirstOfRest
  <2>4. files[x] = Shard(n, k) /\ files[x] \in FileContents
    <3>1. (k + 1) - 1 = k
      BY <2>2
    <3>2. QED
      BY <1>3, <2>2, <2>3, <3>1 DEF HoldsShards, TypeOK
  <2>5. got[e] \in Seq(FileContents)
    BY DEF TypeOK
  <2>6. Len(got'[e]) = k + 1 /\ \A i \in 1..(k + 1) : got'[e][i] = Shard(n, i - 1)
    <3>1. got'[e] = Append(got[e], Shard(n, k))
      BY <1>1, <2>4
    <3>2. /\ Len(got'[e]) = k + 1 /\ got'[e][k + 1] = Shard(n, k)
          /\ \A i \in 1..k : got'[e][i] = got[e][i]
      BY <1>3, <2>4, <2>5, <3>1
    <3>3. (k + 1) - 1 = k /\ \A i \in 1..(k + 1) : i = k + 1 \/ i \in 1..k
      BY <2>2
    <3>4. QED
      BY <1>3, <3>2, <3>3
  <2>7. todo'[e] = ((k + 1) + 1)..n
    BY <1>1, <1>3, <2>1, <2>2, <2>3
  <2>8. HoldsShards(n, n)'
    BY <1>1, <1>3 DEF HoldsShards
  <2>9. QED
    BY <1>3, <2>2, <2>6, <2>7, <2>8 DEF Scanned
<1>4. QED
  BY <1>1, <1>2, <1>3 DEF Scanned

\* All that was listed has been collected.
LEMMA ScannedIsWhole ==
  ASSUME NEW e \in Executors, TypeOK, Scanned(e), todo[e] = {}
  PROVE  Tiles(got[e])
<1>1. CASE got[e] = <<WholeFile>>
  BY <1>1, WholeFileTiles
<1>2. ASSUME NEW n \in ShardCounts, ~SplitRaises(n),
             NEW k \in 0..n, todo[e] = (k + 1)..n, Len(got[e]) = k,
             \A i \in 1..k : got[e][i] = Shard(n, i - 1)
      PROVE  Tiles(got[e])
  <2>1. n \in Nat
    BY ConstantTypes
  <2>2. k = n
    <3>1. k + 1 \notin (k + 1)..n
      BY <1>2
    <3>2. QED
      BY <2>1, <3>1
  <2>3. got[e] \in Seq(FileContents)
    BY DEF TypeOK
  <2>4. QED
    BY <1>2, <2>2, <2>3, ShardsTile
<1>3. QED
  BY <1>1, <1>2 DEF Scanned

\* What every step but a reader's does to the executor that takes it.
LEMMA OtherSteps ==
  ASSUME NEW e \in Executors, TypeOK, Act(e) \/ Crash(e),
         ~ReadManifest(e), ~GlobShards(e), ~CollectFile(e), ~Serve(e)
  PROVE  /\ pc'[e] \notin {"glob", "scan", "served", "absent"}
         /\ pc'[e] = "idle" => got'[e] = <<>>
<1>1. CASE Return(e) \/ Crash(e)
  BY <1>1 DEF TypeOK, Return, Crash, Goto, Forget
<1>2. CASE ~(Return(e) \/ Crash(e))
  <2>1. pc'[e] \in {"found", "unsign", "retract", "list", "clean", "open", "write", "put", "stat", "sign",
                    "signing", "register", "saved", "unsaved"}
    BY <1>2 DEF TypeOK, Act, Moves, Goto, RemoveLegacy, UnlinkStale, SplitIntoShards,
       OpenShard, CloseShard, StatShards, OpenManifest, CloseManifest, FindLegacy, AfterLegacy,
       FindManifest, DeleteManifest, ListParts, PutShard, PutManifest
  <2>2. QED
    BY <2>1
<1>3. QED
  BY <1>1, <1>2

\* With nobody else taking part, the files a reader listed stay until it has read
\* them.
LEMMA SoleReads ==
  Sole /\ TypeInv /\ SoleInv /\ (\A e \in Executors : Reads(e)) /\ [Next]_vars =>
    (\A e \in Executors : Reads(e))'
<1> SUFFICES ASSUME Sole, TypeOK, LoopInv, SoleInv, \A e \in Executors : Reads(e),
                    [Next]_vars
             PROVE  (\A e \in Executors : Reads(e))'
  BY DEF TypeInv
<1>0. (\A e \in Executors :
         TypeOK /\ Complete /\ todo[e] = Present /\ got[e] = <<>> => Scanned(e))'
  BY ListedIsScanned, PTL
<1>1. CASE UNCHANGED vars
  BY <1>1 DEF vars, Reads, Scanned, HoldsShards
<1>2. ASSUME NEW e \in Executors, Act(e) \/ Crash(e)
      PROVE  \A a \in Executors : Reads(a)'
  <2>1. pc[e] # "absent"
    BY <1>2 DEF Act, Moves, ReadManifest, GlobShards, CollectFile, Serve,
       RemoveLegacy, UnlinkStale, SplitIntoShards, OpenShard, CloseShard, StatShards,
       OpenManifest, CloseManifest, FindLegacy, AfterLegacy, FindManifest, DeleteManifest, ListParts, PutShard,
       PutManifest, Return, Ended, Crash
  <2>2. \A a \in Executors : a # e => pc[a] = "absent" /\ pc'[a] = "absent" /\ got'[a] = got[a]
    <3>1. \A a \in Executors : a # e => pc[a] = "absent"
      BY <2>1 DEF Sole
    <3>2. \A a \in Executors : a # e => got'[a] = got[a]
      BY <1>2 DEF TypeOK, Act, ReadManifest, GlobShards, CollectFile, Serve,
         RemoveLegacy, UnlinkStale, SplitIntoShards, OpenShard, CloseShard, StatShards,
         OpenManifest, CloseManifest, FindLegacy, AfterLegacy, FindManifest, DeleteManifest, ListParts, PutShard,
         PutManifest, Return, Forget, Crash
    <3>3. QED
      BY <3>1, <3>2, PresenceStays
  <2>3. \A a \in Executors : a # e => Reads(a)'
    BY <2>2 DEF Reads
  <2>4. ASSUME ReadManifest(e) PROVE Reads(e)'
    BY <2>4 DEF ReadManifest, Moves, Goto, Reads, TypeOK
  <2>5. ASSUME GlobShards(e) PROVE Reads(e)'
    <3>1. /\ manifest = "success" /\ manifest' = manifest /\ got' = got /\ got[e] = <<>>
          /\ todo'[e] = Present /\ files' = files /\ Complete /\ Present # {}
      BY <2>5, CompletePresent DEF GlobShards, Moves, Goto, Reads, TypeOK, SoleInv
    <3>2. pc'[e] = "scan"
      BY <2>5, <3>1 DEF GlobShards, Moves, Goto, TypeOK
    <3>3. TypeOK'
      BY <1>2, TypeStep DEF TypeInv
    <3>4. Scanned(e)'
      <4>1. Complete' /\ todo'[e] = Present' /\ got'[e] = <<>>
        BY <3>1 DEF Complete, HoldsShards, Present
      <4>2. QED
        BY <1>0, <3>3, <4>1
    <3>5. QED
      BY <3>1, <3>2, <3>4 DEF Reads
  <2>6. ASSUME CollectFile(e) PROVE Reads(e)'
    <3>1. pc[e] = "scan" /\ pc'[e] \in {"scan", "failed"} /\ manifest' = manifest
      BY <2>6 DEF CollectFile, Goto, TypeOK
    <3>2. Scanned(e) /\ manifest = "success"
      BY <3>1 DEF Reads
    <3>3. pc'[e] = "scan" => Scanned(e)'
      BY <2>6, <3>2, CollectedIsScanned
    <3>4. QED
      BY <3>1, <3>2, <3>3 DEF Reads
  <2>7. ASSUME Serve(e) PROVE Reads(e)'
    <3>1. pc[e] = "scan" /\ pc'[e] = "served" /\ got' = got /\ todo[e] = {}
      BY <2>7 DEF Serve, Moves, Goto, TypeOK
    <3>2. Tiles(got[e])
      BY <3>1, ScannedIsWhole DEF Reads
    <3>3. QED
      BY <3>1, <3>2 DEF Reads, Tiles
  <2>8. ASSUME ~ReadManifest(e), ~GlobShards(e), ~CollectFile(e), ~Serve(e)
        PROVE  Reads(e)'
    BY <1>2, <2>8, OtherSteps DEF Reads
  <2>9. QED
    BY <2>3, <2>4, <2>5, <2>6, <2>7, <2>8
<1>3. QED
  BY <1>1, <1>2 DEF Next

-----------------------------------------------------------------------------
(* Executors that share an entry of one shard *)

InBudget == \A e \in Executors : budgets[e] \subseteq {1}

Writing == {"unsign", "retract", "list", "clean", "open", "write", "put", "stat", "sign",
            "signing", "register"}

\* There is one file at a time, and it holds the whole frame once it is closed.
OneFile ==
  /\ \A x \in Names : files[x] \in {Absent, Partial, WholeFile}
  /\ \A x \in Names \ {Legacy, 1} : files[x] = Absent
  /\ files[1] # Absent => files[Legacy] = Absent

ReadsOne(e) ==
  /\ pc[e] \in {"idle", "glob"} => got[e] = <<>>
  /\ pc[e] = "scan" => \/ todo[e] \in {{Legacy}, {1}} /\ got[e] = <<>>
                       \/ todo[e] = {} /\ got[e] = <<WholeFile>>
  /\ pc[e] = "served" => got[e] = <<WholeFile>>

\* A writer has removed the legacy file, which nobody writes, before it writes the
\* one shard.
WritesOne(e) ==
  /\ pc[e] \in Writing => files[Legacy] = Absent
  /\ pc[e] \in {"open", "write", "put"} => split[e] = 1 /\ next[e] = 0

BudgetInv == OneFile /\ \A e \in Executors : ReadsOne(e) /\ WritesOne(e)

LEMMA OnlyShard == Shard(1, 0) = WholeFile
<1>1. RowsPer(1) = FrameRows
  BY FrameRowsAssumption DEF RowsPer
<1>2. ShardFrom(1, 0) = 0 /\ ShardLength(1, 0) = FrameRows
  BY <1>1, FrameRowsAssumption DEF ShardFrom, ShardLength
<1>3. QED
  BY <1>2, FrameRowsAssumption DEF Shard, WholeFile

LEMMA States == /\ Absent # WholeFile /\ Absent # Partial /\ Partial # WholeFile
                /\ Absent.state # "closed" /\ Partial.state # "closed"
                /\ 1 \in Names /\ Legacy \in Names /\ Part(0) = 1 /\ Legacy # 1
BY ConstantTypes DEF Absent, Partial, WholeFile, Holding, Names, Part, Legacy

LEMMA BudgetInit == Init => BudgetInv
<1> SUFFICES ASSUME Init PROVE BudgetInv
  OBVIOUS
<1>1. OneFile
  BY States DEF Init, OneFile, WholeFile
<1>2. ASSUME NEW e \in Executors PROVE ReadsOne(e) /\ WritesOne(e)
  BY DEF Init, ReadsOne, WritesOne, Writing
<1>3. QED
  BY <1>1, <1>2 DEF BudgetInv

\* The executors that do not move see files that came to no harm.
LEMMA OthersKeep ==
  ASSUME TypeOK, BudgetInv, NEW e \in Executors, Act(e) \/ Crash(e),
         OneFile', files[Legacy] = Absent => files'[Legacy] = Absent,
         ReadsOne(e)', WritesOne(e)'
  PROVE  BudgetInv'
<1>1. ASSUME NEW a \in Executors, a # e
      PROVE  /\ pc'[a] = pc[a] /\ todo'[a] = todo[a] /\ got'[a] = got[a]
             /\ split'[a] = split[a] /\ next'[a] = next[a]
  BY <1>1 DEF TypeOK, Act, Moves, Goto, ReadManifest, GlobShards, CollectFile, Serve,
     RemoveLegacy, UnlinkStale, SplitIntoShards, OpenShard, CloseShard, StatShards,
     OpenManifest, CloseManifest, FindLegacy, AfterLegacy, FindManifest, DeleteManifest, ListParts, PutShard,
     PutManifest, Return, Forget, Crash
<1>2. ASSUME NEW a \in Executors, a # e PROVE ReadsOne(a)' /\ WritesOne(a)'
  BY <1>1, <1>2 DEF BudgetInv, ReadsOne, WritesOne
<1>3. QED
  BY <1>2 DEF BudgetInv

\* Removing files leaves at most one.
LEMMA UnlinkKeeps ==
  ASSUME TypeOK, OneFile, NEW names, Unlink(names)
  PROVE  /\ OneFile' /\ (files[Legacy] = Absent => files'[Legacy] = Absent)
         /\ Legacy \in names => files'[Legacy] = Absent
BY States DEF TypeOK, OneFile, Unlink

\* Writing the shard's file when the legacy file is gone leaves one.
LEMMA WriteKeeps ==
  ASSUME TypeOK, OneFile, files[Legacy] = Absent,
         NEW content \in {Absent, Partial, WholeFile},
         files' = [files EXCEPT ![1] = content]
  PROVE  OneFile' /\ files'[Legacy] = Absent
BY States DEF TypeOK, OneFile

LEMMA BudgetStep ==
  InBudget /\ TypeInv /\ BudgetInv /\ [Next]_vars => BudgetInv'
<1> SUFFICES ASSUME InBudget, TypeOK, LoopInv, BudgetInv, [Next]_vars
             PROVE  BudgetInv'
  BY DEF TypeInv
<1>1. CASE UNCHANGED vars
  BY <1>1 DEF vars, BudgetInv, OneFile, ReadsOne, WritesOne
<1>2. ASSUME NEW e \in Executors, Act(e) \/ Crash(e) PROVE BudgetInv'
  <2>1. OneFile /\ ReadsOne(e) /\ WritesOne(e)
    BY DEF BudgetInv
  \* Steps that leave the files alone.
  <2>2. ASSUME files' = files, ReadsOne(e)', WritesOne(e)' PROVE BudgetInv'
    <3>1. OneFile'
      BY <2>1, <2>2 DEF OneFile
    <3>2. QED
      BY <1>2, <2>2, <3>1, OthersKeep
  \* Steps that leave them alone and write nothing.
  <2>3. ASSUME files' = files, ReadsOne(e)', pc'[e] \notin Writing PROVE BudgetInv'
    <3>1. WritesOne(e)'
      BY <2>3 DEF WritesOne, Writing
    <3>2. QED
      BY <2>2, <2>3, <3>1
  \* Steps of a writer that leave them alone.
  <2>4. ASSUME files' = files, pc[e] \in Writing, pc'[e] \in Writing \union {"unsaved", "saved"},
               pc'[e] \notin {"open", "write", "put"}
        PROVE  BudgetInv'
    <3>1. WritesOne(e)' /\ ReadsOne(e)'
      BY <2>1, <2>4 DEF WritesOne, ReadsOne, Writing
    <3>2. QED
      BY <2>2, <2>4, <3>1
  <2>5. ASSUME ReadManifest(e) PROVE BudgetInv'
    BY <2>1, <2>3, <2>5 DEF ReadManifest, Moves, Goto, TypeOK, ReadsOne, Writing
  <2>6. ASSUME GlobShards(e) PROVE BudgetInv'
    <3>1. /\ pc'[e] \in {"scan", "miss", "failed"} /\ files' = files /\ got' = got
          /\ todo'[e] = Present /\ got[e] = <<>> /\ (pc'[e] = "scan" => Present # {})
      BY <2>1, <2>6 DEF GlobShards, Moves, Goto, TypeOK, ReadsOne
    <3>2. Present # {} => Present \in {{Legacy}, {1}}
      BY <2>1, States DEF OneFile, Present
    <3>3. QED
      BY <2>3, <3>1, <3>2 DEF ReadsOne, Writing
  <2>7. ASSUME CollectFile(e) PROVE BudgetInv'
    <3> DEFINE x == First(todo[e])
    <3>1. pc[e] = "scan" /\ todo[e] # {} /\ files' = files
      BY <2>7 DEF CollectFile
    <3>2. todo[e] = {x} /\ got[e] = <<>> /\ x \in Names
      BY <2>1, <3>1, States, ConstantTypes DEF ReadsOne, First, Names
    <3>3. CASE files[x].state = "closed"
      <4>1. files[x] = WholeFile
        BY <2>1, <3>2, <3>3, States DEF OneFile
      <4>2. /\ pc'[e] = "scan" /\ got'[e] = Append(<<>>, WholeFile) /\ todo'[e] = {}
        BY <2>7, <3>1, <3>2, <3>3, <4>1 DEF CollectFile, TypeOK
      <4>3. Append(<<>>, WholeFile) = <<WholeFile>>
        OBVIOUS
      <4>4. QED
        BY <2>3, <3>1, <4>2, <4>3 DEF ReadsOne, Writing
    <3>4. CASE files[x].state # "closed"
      <4>1. pc'[e] = "failed"
        BY <2>7, <3>4 DEF CollectFile, Goto, TypeOK
      <4>2. QED
        BY <2>3, <3>1, <4>1 DEF ReadsOne, Writing
    <3>5. QED
      BY <3>3, <3>4
  <2>8. ASSUME Serve(e) PROVE BudgetInv'
    <3>1. /\ pc[e] = "scan" /\ todo[e] = {} /\ pc'[e] = "served" /\ files' = files
          /\ got' = got
      BY <2>8 DEF Serve, Moves, Goto, TypeOK
    <3>2. QED
      BY <2>1, <2>3, <3>1 DEF ReadsOne, Writing
  <2>9. ASSUME RemoveLegacy(e) PROVE BudgetInv'
    <3>1. pc'[e] \in {"unsign", "list", "unsaved"} /\ Unlink({Legacy})
      BY <2>9 DEF RemoveLegacy, AfterLegacy, Moves, Goto, TypeOK
    <3>2. /\ OneFile' /\ files'[Legacy] = Absent
      BY <2>1, <3>1, UnlinkKeeps
    <3>3. QED
      BY <1>2, <3>1, <3>2, OthersKeep DEF ReadsOne, WritesOne
  <2>10. ASSUME UnlinkStale(e) PROVE BudgetInv'
    <3> DEFINE x == First(todo[e])
    <3>1. pc[e] = "clean"
      BY <2>10 DEF UnlinkStale
    <3>2. CASE x \in Present
      <4>1. pc' = pc /\ Unlink({x})
        BY <2>10, <3>2 DEF UnlinkStale
      <4>2. OneFile' /\ files'[Legacy] = Absent
        BY <2>1, <3>1, <4>1, UnlinkKeeps DEF WritesOne, Writing
      <4>3. QED
        BY <1>2, <3>1, <4>1, <4>2, OthersKeep DEF ReadsOne, WritesOne
    <3>3. CASE x \notin Present
      <4>1. pc'[e] = "unsaved" /\ files' = files
        BY <2>10, <3>3 DEF UnlinkStale, Goto, TypeOK
      <4>2. QED
        BY <2>4, <3>1, <4>1 DEF Writing
    <3>4. QED
      BY <3>2, <3>3
  <2>11. ASSUME SplitIntoShards(e) PROVE BudgetInv'
    <3>1. PICK n \in budgets[e] :
            /\ \/ SplitRaises(n) /\ Moves(e, "clean", "unsaved")
               \/ ~SplitRaises(n) /\ Moves(e, "clean", IF store = "s3" THEN "put" ELSE "open")
            /\ split' = [split EXCEPT ![e] = n]
      BY <2>11 DEF SplitIntoShards
    <3>2. n = 1
      BY <3>1 DEF InBudget
    <3>3. /\ pc[e] = "clean" /\ pc'[e] \in {"unsaved", "put", "open"} /\ files' = files
          /\ split'[e] = 1 /\ next'[e] = 0
      BY <2>11, <3>1, <3>2 DEF SplitIntoShards, Moves, Goto, TypeOK
    <3>4. QED
      BY <2>1, <2>2, <3>3 DEF ReadsOne, WritesOne, Writing
  <2>12. ASSUME OpenShard(e) PROVE BudgetInv'
    <3>1. /\ pc[e] = "open" /\ pc'[e] = "write" /\ split' = split /\ next' = next
          /\ files' = [files EXCEPT ![Part(next[e])] = Partial]
      BY <2>12 DEF OpenShard, Moves, Goto, TypeOK
    <3>2. next[e] = 0 /\ split[e] = 1 /\ files[Legacy] = Absent
      BY <2>1, <3>1 DEF WritesOne, Writing
    <3>3. OneFile' /\ files'[Legacy] = Absent
      BY <2>1, <3>1, <3>2, States, WriteKeeps
    <3>4. QED
      BY <1>2, <3>1, <3>2, <3>3, OthersKeep DEF ReadsOne, WritesOne
  <2>13. ASSUME CloseShard(e) PROVE BudgetInv'
    <3>1. /\ pc[e] = "write" /\ next[e] = 0 /\ split[e] = 1 /\ files[Legacy] = Absent
      BY <2>1, <2>13 DEF CloseShard, Moves, WritesOne, Writing
    <3>2. pc'[e] = "stat"
      BY <2>13, <3>1 DEF CloseShard, Moves, Goto, TypeOK
    <3>3. files' = files \/ files' = [files EXCEPT ![1] = WholeFile]
      BY <2>13, <3>1, States, OnlyShard DEF CloseShard
    <3>4. OneFile' /\ files'[Legacy] = Absent
      <4>1. CASE files' = files
        BY <2>1, <3>1, <4>1 DEF OneFile
      <4>2. CASE files' = [files EXCEPT ![1] = WholeFile]
        BY <2>1, <3>1, <4>2, WriteKeeps
      <4>3. QED
        BY <3>3, <4>1, <4>2
    <3>5. QED
      BY <1>2, <3>2, <3>4, OthersKeep DEF ReadsOne, WritesOne
  <2>14. ASSUME StatShards(e) \/ OpenManifest(e) \/ CloseManifest(e) \/ FindManifest(e)
                \/ DeleteManifest(e) \/ ListParts(e) \/ PutManifest(e)
         PROVE  BudgetInv'
    <3>1. /\ pc[e] \in Writing /\ files' = files
          /\ pc'[e] \in Writing \union {"unsaved", "saved"}
          /\ pc'[e] \notin {"open", "write", "put"}
      BY <2>14 DEF StatShards, OpenManifest, CloseManifest, FindManifest, DeleteManifest, ListParts,
         PutManifest, Moves, Goto, TypeOK, Writing
    <3>2. QED
      BY <2>4, <3>1
  <2>15. ASSUME FindLegacy(e) PROVE BudgetInv'
    <3>1. pc'[e] \in {"found", "unsign", "list"} /\ files' = files
      BY <2>15 DEF FindLegacy, AfterLegacy, Moves, Goto, TypeOK
    <3>2. pc'[e] # "found" => files[Legacy] = Absent
      BY <2>15, States DEF FindLegacy, Moves, Goto, TypeOK, Present
    <3>3. QED
      BY <2>2, <3>1, <3>2 DEF ReadsOne, WritesOne, Writing
  <2>16. ASSUME PutShard(e) PROVE BudgetInv'
    <3>1. pc[e] = "put" /\ next[e] = 0 /\ split[e] = 1 /\ files[Legacy] = Absent
      BY <2>1, <2>16 DEF PutShard, Moves, WritesOne, Writing
    <3>2. pc'[e] = "register" /\ files' = [files EXCEPT ![1] = WholeFile]
      <4>1. ~(next[e] + 1 < split[e])
        BY <3>1
      <4>2. pc'[e] = "register"
        BY <2>16, <4>1 DEF PutShard, Moves, Goto, TypeOK
      <4>3. files' = [files EXCEPT ![Part(0)] = Shard(1, 0)]
        BY <2>16, <3>1 DEF PutShard
      <4>4. QED
        BY <4>2, <4>3, States, OnlyShard
    <3>3. OneFile' /\ files'[Legacy] = Absent
      BY <2>1, <3>1, <3>2, WriteKeeps
    <3>4. QED
      BY <1>2, <3>2, <3>3, OthersKeep DEF ReadsOne, WritesOne
  <2>17. ASSUME Return(e) \/ Crash(e) PROVE BudgetInv'
    <3>1. pc'[e] = "idle" /\ got'[e] = <<>> /\ files' = files
      BY <2>17 DEF Return, Crash, Goto, Forget, TypeOK
    <3>2. QED
      BY <2>3, <3>1 DEF ReadsOne, Writing
  <2>18. QED
    BY <1>2, <2>5, <2>6, <2>7, <2>8, <2>9, <2>10, <2>11, <2>12, <2>13, <2>14, <2>15,
       <2>16, <2>17 DEF Act
<1>3. QED
  BY <1>1, <1>2 DEF Next

\* Frames read from the cache are whole and in order, with one executor and any
\* shard counts, crashes and writes in between, or with any number of executors
\* that the frame is one shard for (LocalExecutor._read_cache, _write_cache).
THEOREM FramesAreReadWhole == Spec => []ReadsWholeFrame
<1> DEFINE Inv == /\ TypeInv
                  /\ Sole => SoleInv /\ \A e \in Executors : Reads(e)
                  /\ InBudget => BudgetInv
<1>1. Init => Inv
  <2>1. Init => \A e \in Executors : Reads(e)
    BY DEF Init, Reads
  <2>2. QED
    BY <2>1, TypeInit, SoleInit, BudgetInit
<1>2. Inv /\ [Next]_vars => Inv'
  <2> SUFFICES ASSUME Inv, [Next]_vars PROVE Inv'
    OBVIOUS
  <2>1. TypeInv' /\ (Sole' <=> Sole)
    BY TypeStep, SoleStays DEF TypeInv
  <2>2. Sole => SoleInv' /\ (\A e \in Executors : Reads(e))'
    BY SoleStep, SoleReads
  <2>3. InBudget' <=> InBudget
    BY DEF InBudget, Next, vars
  <2>4. InBudget => BudgetInv'
    BY BudgetStep
  <2>5. QED
    BY <2>1, <2>2, <2>3, <2>4
<1>3. Inv => ReadsWholeFrame
  <2> SUFFICES ASSUME Inv, Sole \/ InBudget, NEW e \in Executors, pc[e] = "served"
               PROVE  Tiles(got[e])
    BY DEF ReadsWholeFrame, InBudget
  <2>1. CASE Sole
    BY <2>1 DEF Reads
  <2>2. CASE InBudget
    <3>1. got[e] = <<WholeFile>>
      BY <2>2 DEF BudgetInv, ReadsOne
    <3>2. QED
      BY <3>1, WholeFileTiles
  <2>3. QED
    BY <2>1, <2>2
<1>4. QED
  BY <1>1, <1>2, <1>3, PTL DEF Spec
=============================================================================
