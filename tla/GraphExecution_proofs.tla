------------------------ MODULE GraphExecution_proofs ------------------------
(* Proofs about GraphExecution, for every number of nodes and every set of    *)
(* declarations: its types; that the backward search selects exactly the      *)
(* nodes that are demanded; that cached frames are never replaced; that       *)
(* parents come first when no node is bound to live inference; that frames    *)
(* are predicted with runs that were not superseded; that inference sees what *)
(* the graph trained, and when it finds no model all the same.                *)
EXTENDS GraphExecution, SequenceTheorems, WellFoundedInduction, TLAPS

\* Nothing of an execution is left when the executor is idle.
Quiet ==
  pc = "idle" =>
    /\ graph = NoGraph /\ why = "" /\ begun = <<>>
    /\ queue = {} /\ required = {} /\ hits = {} /\ visited = {}

\* A graph holds the parents of its nodes, which are its terminals and what these
\* are bound to.
Closed == \A n \in graph.members : Parents(n) \subseteq graph.members
Ends ==
  /\ graph.terminals \subseteq graph.members
  /\ \A n \in graph.members : n \in graph.terminals \/ \E c \in graph.members : n \in Parents(c)

TypeInv == TypeOK /\ Quiet /\ Closed /\ Ends

-----------------------------------------------------------------------------
(* Graphs and frames *)

LEMMA ProgramTypes ==
  ASSUME prog \in Programs, NEW n \in Nodes
  PROVE  /\ Parents(n) \subseteq Nodes
         /\ \A p \in Parents(n) : p < n /\ ~IsTrainer(p)
BY ProgramsAssumption DEF Parents, IsTrainer

LEMMA MembersClosed ==
  ASSUME prog \in Programs, NEW roots \in SUBSET Nodes
  PROVE  /\ Members(roots) \subseteq Nodes
         /\ \A n \in Members(roots) : Parents(n) \subseteq Members(roots)
<1>1. Members(roots) \subseteq Nodes
  BY DEF Members, Reached
<1>2. ASSUME NEW n \in Members(roots), NEW p \in Parents(n)
      PROVE  p \in Members(roots)
  <2>1. p \in Nodes
    BY <1>1, <1>2, ProgramTypes
  <2>2. SUFFICES ASSUME NEW S \in SUBSET Nodes, roots \subseteq S,
                        \A c \in S \intersect Nodes : Parents(c) \subseteq S
                 PROVE  p \in S
    BY <2>1 DEF Members, Reached
  <2>3. n \in S
    BY <1>2, <2>2 DEF Members, Reached
  <2>4. QED
    BY <1>2, <2>2, <2>3
<1>3. QED
  BY <1>1, <1>2

\* Every node of a graph is one of its roots or a parent in it.
LEMMA MembersEnd ==
  ASSUME prog \in Programs, NEW roots \in SUBSET Nodes
  PROVE  /\ roots \subseteq Members(roots)
         /\ \A n \in Members(roots) :
              n \in roots \/ \E c \in Members(roots) : n \in Parents(c)
<1> DEFINE S == {n \in Members(roots) : n \in roots \/ \E c \in Members(roots) : n \in Parents(c)}
<1>1. roots \subseteq Members(roots)
  BY DEF Members, Reached
<1>2. S \subseteq Nodes /\ roots \subseteq S
  BY <1>1, MembersClosed
<1>3. \A c \in S \intersect Nodes : Parents(c) \subseteq S
  BY MembersClosed
<1> HIDE DEF S
<1>4. Members(roots) \subseteq S
  BY <1>2, <1>3 DEF Members, Reached
<1>5. QED
  BY <1>1, <1>4 DEF S

\* A set of numbers up to a bound that is not empty has a last one.
LEMMA LastOf ==
  ASSUME NEW bound \in Nat, NEW T \in SUBSET (1..bound), T # {}
  PROVE  \E m \in T : \A k \in T : k <= m
<1> DEFINE U == {bound - k : k \in T}
<1>1. U \subseteq Nat /\ U # {}
  <2>1. \A k \in T : bound - k \in Nat
    OBVIOUS
  <2>2. PICK k \in T : TRUE
    OBVIOUS
  <2>3. bound - k \in U
    OBVIOUS
  <2>4. QED
    BY <2>1, <2>3
<1>2. PICK u \in U : \A v \in U : <<v, u>> \notin OpToRel(<, Nat)
  <2> HIDE DEF U
  <2>1. QED
    BY <1>1, NatLessThanWellFounded, WFMin, Zenon
<1>3. \A v \in U : ~(v < u)
  <2> HIDE DEF U
  <2>1. QED
    BY <1>1, <1>2, Zenon DEF OpToRel
<1>4. PICK m \in T : u = bound - m
  OBVIOUS
<1>5. ASSUME NEW k \in T PROVE k <= m
  <2>1. ~(bound - k < bound - m)
    BY <1>3, <1>4
  <2>2. k \in Nat /\ m \in Nat
    OBVIOUS
  <2> HIDE DEF U
  <2>3. QED
    BY <2>1, <2>2
<1>6. QED
  BY <1>5

LEMMA FrameTypes ==
  /\ NoFrame \in Frames
  /\ \A rows \in SUBSET Times : /\ Lazy(rows) \in Frames /\ Lazy(rows) # NoFrame
                                /\ Lazy(rows).kind = "lazy" /\ Lazy(rows).rows = rows
  /\ \A us \in SUBSET Uses, rows \in SUBSET Times :
       /\ Frame(us, rows) \in Frames /\ Frame(us, rows) # NoFrame
       /\ Frame(us, rows).kind = "frame" /\ Frame(us, rows).uses = us
  /\ \A f \in Frames : /\ f.uses \subseteq Uses /\ f.rows \subseteq Times
                       /\ f.kind \in {"none", "lazy", "frame"}
                       /\ f.kind = "none" => f = NoFrame
                       /\ f.kind # "frame" => f.uses = {}
<1>1. NoFrame \in Frames /\ NoFrame.kind = "none"
  BY DEF Frames, NoFrame
<1>2. ASSUME NEW rows \in SUBSET Times
      PROVE  /\ Lazy(rows) \in Frames /\ Lazy(rows) # NoFrame
             /\ Lazy(rows).kind = "lazy" /\ Lazy(rows).rows = rows
  BY <1>1 DEF Frames, Lazy
<1>3. ASSUME NEW us \in SUBSET Uses, NEW rows \in SUBSET Times
      PROVE  /\ Frame(us, rows) \in Frames /\ Frame(us, rows) # NoFrame
             /\ Frame(us, rows).kind = "frame" /\ Frame(us, rows).uses = us
  BY <1>1 DEF Frames, Frame
<1>4. ASSUME NEW f \in Frames
      PROVE  /\ f.uses \subseteq Uses /\ f.rows \subseteq Times
             /\ f.kind \in {"none", "lazy", "frame"}
             /\ f.kind = "none" => f = NoFrame
             /\ f.kind # "frame" => f.uses = {}
  <2>1. f \in [kind : {"none", "lazy", "frame"}, uses : SUBSET Uses, rows : SUBSET Times]
        /\ (f.kind # "frame" => f.uses = {}) /\ (f.kind = "none" => f.rows = {})
    BY DEF Frames
  <2>2. f.kind = "none" => f = NoFrame
    BY <2>1 DEF NoFrame
  <2>3. QED
    BY <2>1, <2>2
<1>5. QED
  BY <1>1, <1>2, <1>3, <1>4

LEMMA RowTypes ==
  ASSUME TypeOK, NEW n \in Nodes
  PROVE  RowsOf(n, results) \subseteq Times
<1>1. 1..feed[n] \subseteq Times
  <2>1. feed[n] \in 0..MaxTime
    BY DEF TypeOK
  <2>2. QED
    BY <2>1, NAssumption DEF Times
<1>2. \A p \in Parents(n) : results[p].rows \subseteq Times
  BY ProgramTypes, FrameTypes DEF TypeOK
<1>3. QED
  BY <1>1, <1>2 DEF RowsOf

LEMMA RunTypes == \A run \in Runs : run.at \in Nat
BY ForeignAssumption, NAssumption DEF Runs, Own, Times

\* The runs the store holds.
Recorded == {store[i] : i \in 1..Len(store)}

LEMMA ResolvedTypes ==
  ASSUME TypeOK, NEW m \in Nodes, NEW rows \in SUBSET Times
  PROVE  Resolved(m, rows) \subseteq Uses
<1>1. {store[i] : i \in 1..Len(store)} \subseteq Runs
  <2>1. store \in Seq(Runs)
    BY DEF TypeOK
  <2>2. \A i \in 1..Len(store) : store[i] \in Runs
    BY <2>1
  <2>3. QED
    BY <2>2
<1>2. QED
  BY <1>1 DEF Resolved, Uses

LEMMA CollectedType ==
  ASSUME TypeOK, NEW n \in Nodes
  PROVE  Collected(n, results) \in Frames /\ Collected(n, results) # NoFrame
<1> DEFINE run == Pending(n, results)
           read == (UNION {Parents(m) : m \in run}) \ run
           inference == {m \in run : IsInference(m)}
           old == UNION {results[m].uses : m \in read}
           now == UNION {Resolved(m, RowsOf(m, results)) : m \in inference}
<1>1. run \subseteq Nodes /\ read \subseteq Nodes
  <2>1. run \subseteq Nodes
    BY DEF Pending
  <2> HIDE DEF run
  <2>2. prog \in Programs
    BY DEF TypeOK
  <2>3. \A m \in run : Parents(m) \subseteq Nodes
    BY <2>1, <2>2, ProgramTypes
  <2>4. QED
    BY <2>1, <2>3
<1> HIDE DEF run, read
<1>2. now \subseteq Uses
  BY <1>1, RowTypes, ResolvedTypes
<1>3. old \subseteq Uses
  <2>1. \A m \in read : results[m] \in Frames
    BY <1>1 DEF TypeOK
  <2>2. QED
    BY <2>1, FrameTypes
<1>4. Collected(n, results) = IF IsTrainer(n) THEN Frame({}, {})
                              ELSE Frame(old \union now, RowsOf(n, results))
  BY DEF Collected, run, read
<1> HIDE DEF now, old
<1>5. QED
  BY <1>2, <1>3, <1>4, FrameTypes, RowTypes

LEMMA NoRuns == \A S : <<>> \in Seq(S) /\ Len(<<>>) = 0
OBVIOUS

LEMMA InsertedTypes ==
  ASSUME NEW runs \in Seq(Runs), NEW k \in 0..Len(runs), NEW run \in Runs
  PROVE  /\ Inserted(runs, k, run) \in Seq(Runs)
         /\ Len(Inserted(runs, k, run)) = Len(runs) + 1
         /\ Inserted(runs, k, run)[k + 1] = run
         /\ \A i \in 1..k : Inserted(runs, k, run)[i] = runs[i]
         /\ \A i \in (k + 2)..(Len(runs) + 1) : Inserted(runs, k, run)[i] = runs[i - 1]
<1> DEFINE new == Inserted(runs, k, run)
           n == Len(runs)
<1>1. n \in Nat
  OBVIOUS
<1>2. \A i \in 1..n : runs[i] \in Runs
  OBVIOUS
<1>3. new \in [1..(n + 1) -> Runs]
  BY <1>1, <1>2 DEF Inserted
<1>4. new \in Seq(Runs) /\ Len(new) = n + 1
  BY <1>1, <1>3, LenProperties
<1>5. QED
  BY <1>1, <1>4 DEF Inserted

LEMMA InsertedIsSorted ==
  ASSUME NEW runs \in Seq(Runs), NEW k \in 0..Len(runs), NEW run \in Runs,
         GoesBehind(runs, k, run), Sorted(runs)
  PROVE  Sorted(Inserted(runs, k, run))
<1> DEFINE new == Inserted(runs, k, run)
           n == Len(runs)
<1>1. run.at \in Nat /\ n \in Nat /\ \A i \in 1..n : runs[i].at \in Nat
  BY RunTypes
<1>2. /\ Len(new) = n + 1 /\ new[k + 1] = run
      /\ \A i \in 1..k : new[i] = runs[i]
      /\ \A i \in (k + 2)..(n + 1) : new[i] = runs[i - 1]
  BY InsertedTypes, ZenonT(60)
<1>3. /\ \A i \in 1..k : runs[i].at <= run.at
      /\ \A i \in (k + 1)..n : run.at <= runs[i].at
  BY <1>1 DEF GoesBehind
<1>4. \A i, m \in 1..n : i < m => runs[i].at <= runs[m].at
  BY DEF Sorted
<1> HIDE DEF new
<1>0. k \in 0..n
  OBVIOUS
<1> HIDE DEF n
<1>5. \A i \in 1..(n + 1) :
        \/ i <= k /\ i \in 1..n /\ new[i] = runs[i]
        \/ i = k + 1 /\ new[i] = run
        \/ i > k + 1 /\ i - 1 \in 1..n /\ i - 1 > k /\ new[i] = runs[i - 1]
  <2>1. SUFFICES ASSUME NEW i \in 1..(n + 1)
                 PROVE  \/ i <= k /\ i \in 1..n /\ new[i] = runs[i]
                        \/ i = k + 1 /\ new[i] = run
                        \/ i > k + 1 /\ i - 1 \in 1..n /\ i - 1 > k /\ new[i] = runs[i - 1]
    OBVIOUS
  <2>2. i <= k \/ i = k + 1 \/ i > k + 1
    BY <1>0, <1>1
  <2>3. i <= k => i \in 1..k /\ i \in 1..n
    BY <1>0, <1>1
  <2>4. i > k + 1 => i \in (k + 2)..(n + 1) /\ i - 1 \in 1..n /\ i - 1 > k
    BY <1>0, <1>1
  <2>5. QED
    BY <1>2, <2>2, <2>3, <2>4
<1>6. SUFFICES ASSUME NEW a \in 1..(n + 1), NEW b \in 1..(n + 1), a < b
               PROVE  new[a].at <= new[b].at
  BY <1>2 DEF Sorted, new
<1>7. CASE a <= k
  <2>1. a \in 1..n /\ a \in 1..k /\ new[a] = runs[a]
    BY <1>0, <1>1, <1>5, <1>7
  <2>2. CASE b <= k
    <3>1. b \in 1..n /\ new[b] = runs[b]
      BY <1>0, <1>1, <1>5, <2>2
    <3>2. QED
      BY <1>4, <1>6, <2>1, <3>1
  <2>3. CASE b = k + 1
    <3>1. new[b] = run
      BY <1>0, <1>1, <1>5, <2>3
    <3>2. QED
      BY <1>3, <2>1, <3>1
  <2>4. CASE b > k + 1
    <3>1. b - 1 \in 1..n /\ a < b - 1 /\ new[b] = runs[b - 1]
      BY <1>0, <1>1, <1>5, <1>7, <2>4
    <3>2. QED
      BY <1>4, <2>1, <3>1
  <2>5. QED
    BY <1>0, <1>1, <2>2, <2>3, <2>4
<1>8. CASE a = k + 1
  <2>1. b - 1 \in (k + 1)..n /\ new[b] = runs[b - 1]
    BY <1>1, <1>5, <1>6, <1>8
  <2>2. QED
    BY <1>3, <1>5, <1>8, <2>1
<1>9. CASE a > k + 1
  <2>1. /\ a - 1 \in 1..n /\ b - 1 \in 1..n /\ a - 1 < b - 1
        /\ new[a] = runs[a - 1] /\ new[b] = runs[b - 1]
    BY <1>1, <1>5, <1>6, <1>9
  <2>2. QED
    BY <1>4, <2>1
<1>10. QED
  BY <1>1, <1>7, <1>8, <1>9

\* Saving a run keeps the listed ones, and their order.
LEMMA PublishTypes ==
  ASSUME TypeOK, NEW run \in Runs, Publish(run)
  PROVE  /\ store' \in Seq(Runs) /\ Recorded \subseteq Recorded' /\ run \in Recorded'
         /\ Sorted(store) => Sorted(store)'
<1>1. store \in Seq(Runs)
  BY DEF TypeOK
<1>2. CASE Listed(run) /\ UNCHANGED store
  BY <1>1, <1>2 DEF Recorded, Listed, Sorted
<1>3. CASE \E k \in 0..Len(store) : GoesBehind(store, k, run) /\ store' = Inserted(store, k, run)
  <2>1. PICK k \in 0..Len(store) : GoesBehind(store, k, run) /\ store' = Inserted(store, k, run)
    BY <1>3
  <2> DEFINE n == Len(store)
  <2>2. /\ store' \in Seq(Runs) /\ Len(store') = n + 1 /\ store'[k + 1] = run
        /\ \A i \in 1..k : store'[i] = store[i]
        /\ \A i \in (k + 2)..(n + 1) : store'[i] = store[i - 1]
    BY <1>1, <2>1, InsertedTypes, ZenonT(60)
  <2>3. n \in Nat
    BY <1>1
  <2>4. run \in Recorded'
    BY <2>1, <2>2, <2>3 DEF Recorded
  <2>5. ASSUME NEW i \in 1..n PROVE store[i] \in Recorded'
    <3>1. CASE i <= k
      BY <2>1, <2>2, <2>3, <3>1 DEF Recorded
    <3>2. CASE i > k
      <4>1. i + 1 \in (k + 2)..(n + 1) /\ (i + 1) - 1 = i
        BY <2>3, <3>2
      <4>2. store'[i + 1] = store[i] /\ i + 1 \in 1..(n + 1)
        BY <2>2, <2>3, <4>1
      <4>3. QED
        BY <2>2, <4>2 DEF Recorded
    <3>3. QED
      BY <2>1, <2>3, <3>1, <3>2
  <2>6. Sorted(store) => Sorted(store)'
    <3>1. Sorted(store) => Sorted(Inserted(store, k, run))
      BY <1>1, <2>1, InsertedIsSorted
    <3>2. QED
      BY <2>1, <3>1 DEF Sorted
  <2>7. QED
    BY <2>2, <2>4, <2>5, <2>6 DEF Recorded
<1>4. QED
  BY <1>2, <1>3 DEF Publish

-----------------------------------------------------------------------------
(* Types *)

LEMMA TypeInit == Init => TypeInv
<1> SUFFICES ASSUME Init PROVE TypeInv
  OBVIOUS
<1>1. TypeOK
  <2>1. NoGraph \in [members : SUBSET Nodes, terminals : SUBSET Nodes,
                     materialized : SUBSET Nodes]
    BY DEF NoGraph
  <2>2. store \in Seq(Runs) /\ begun \in Seq(Runs)
    BY NoRuns DEF Init
  <2>3. feed \in [Nodes -> 0..MaxTime]
    <3>1. 0 \in 0..MaxTime
      BY NAssumption
    <3>2. feed = [n \in Nodes |-> 0]
      BY DEF Init
    <3>3. QED
      BY <3>1, <3>2
  <2>4. QED
    BY <2>1, <2>2, <2>3, FrameTypes DEF Init, TypeOK
<1>2. Quiet
  BY DEF Init, Quiet
<1>3. Closed
  BY DEF Init, Closed, NoGraph
<1>4. Ends
  BY DEF Init, Ends, NoGraph
<1>5. QED
  BY <1>1, <1>2, <1>3, <1>4 DEF TypeInv

\* Steps within an execution leave the graph as it is.
LEMMA GraphStays ==
  ASSUME Closed, Ends, UNCHANGED <<prog, graph>>
  PROVE  Closed' /\ Ends'
BY DEF Closed, Ends, Parents

LEMMA ExecuteTypes ==
  ASSUME TypeInv, Execute
  PROVE  TypeInv'
<1> USE DEF TypeInv
<1>1. PICK listed \in SUBSET Nodes \ {{}}, mat \in SUBSET Nodes, on \in BOOLEAN :
        LET terminals == Terminals(listed)
            members == Members(terminals)
        IN
          /\ mat \subseteq members
          /\ graph' = [members |-> members, terminals |-> terminals, materialized |-> mat]
          /\ useCache' = on
          /\ IF on THEN /\ queue' = terminals /\ required' = {}
                        /\ pc' = "frontier"
             ELSE /\ queue' = {} /\ required' = members
                  /\ pc' = "evaluate"
  BY DEF Execute
<1>2. pc = "idle" /\ begun' = store
      /\ UNCHANGED <<prog, cache, feed, store, why, hits, visited, results, outputs>>
  BY DEF Execute
<1> DEFINE terminals == Terminals(listed)
           members == Members(terminals)
<1>3. prog \in Programs /\ terminals \in SUBSET Nodes
  BY DEF TypeOK, Terminals
<1>4. /\ graph'.members = members /\ graph'.terminals = terminals /\ graph'.materialized = mat
      /\ mat \subseteq members
      /\ graph' = [members |-> members, terminals |-> terminals, materialized |-> mat]
  BY <1>1
<1>5. /\ \/ queue' = terminals /\ required' = {} /\ pc' = "frontier"
         \/ queue' = {} /\ required' = members /\ pc' = "evaluate"
      /\ useCache' \in BOOLEAN
  BY <1>1
<1> HIDE DEF terminals
<1>6. /\ members \subseteq Nodes /\ terminals \subseteq members
      /\ \A n \in members : Parents(n) \subseteq members
      /\ \A n \in members : n \in terminals \/ \E c \in members : n \in Parents(c)
  BY <1>3, MembersClosed, MembersEnd
<1> HIDE DEF members
<1>7. hits = {} /\ visited = {}
  BY <1>2 DEF Quiet
<1>8. TypeOK'
  <2>1. graph' \in [members : SUBSET Nodes, terminals : SUBSET Nodes,
                    materialized : SUBSET Nodes]
    BY <1>3, <1>4, <1>6
  <2>2. queue' \subseteq graph'.members /\ required' \subseteq graph'.members
        /\ pc' \in {"frontier", "evaluate"}
    BY <1>4, <1>5, <1>6
  <2>3. hits' \subseteq required' /\ visited' \subseteq graph'.members
    BY <1>2, <1>7
  <2>4. QED
    BY <1>2, <1>5, <2>1, <2>2, <2>3 DEF TypeOK
<1>9. Quiet'
  BY <1>5 DEF Quiet
<1>10. Closed' /\ Ends'
  BY <1>2, <1>4, <1>6 DEF Closed, Ends, Parents
<1>11. QED
  BY <1>8, <1>9, <1>10

LEMMA SearchTypes ==
  ASSUME TypeInv, NEW n \in Nodes, SearchNode(n)
  PROVE  TypeInv'
<1> USE DEF TypeInv
<1>1. n \in graph.members /\ Parents(n) \subseteq graph.members
  BY DEF SearchNode, TypeOK, Closed
<1>2. TypeOK'
  BY <1>1 DEF SearchNode, TypeOK
<1>3. Quiet'
  BY DEF SearchNode, Quiet
<1>4. QED
  BY <1>2, <1>3, GraphStays DEF SearchNode

\* A trainer publishes nothing, or a run trained at a time of its rows.
LEMMA TrainPublishes ==
  ASSUME TypeOK, NEW n \in Nodes, Train(n)
  PROVE  \/ RowsOf(n, results) = {} /\ UNCHANGED store
         \/ \E end \in Times : /\ IsLast(end, RowsOf(n, results)) /\ Publish(Own(end))
                               /\ Own(end) \in Runs
BY RowTypes DEF Train, Runs

\* The loop over the ordered nodes.
LEMMA EvaluateTypes ==
  ASSUME TypeInv, NEW n \in Nodes,
         \/ SkipNode(n) \/ UseHit(n) \/ MissParent(n) \/ FailCollect(n)
         \/ Train(n) \/ Materialize(n) \/ Lower(n)
  PROVE  TypeInv'
<1> USE DEF TypeInv
<1>1. n \in graph.members /\ pc = "evaluate"
  BY DEF SkipNode, UseHit, MissParent, FailCollect, Train, Materialize, Lower,
         Evaluates, IsNext
<1>2. ASSUME NEW result \in Frames, Visit(n, result), store' \in Seq(Runs),
             cache' \in [Nodes -> Frames]
      PROVE  TypeInv'
  <2>1. TypeOK'
    BY <1>1, <1>2 DEF Visit, TypeOK
  <2>2. Quiet'
    BY <1>1, <1>2 DEF Visit, Quiet
  <2>3. QED
    BY <1>2, <2>1, <2>2, GraphStays DEF Visit
<1>3. ASSUME NEW reason \in {"parent", "model"}, Fail(reason)
      PROVE  TypeInv'
  <2>1. TypeOK'
    BY <1>1, <1>3 DEF Fail, TypeOK
  <2>2. Quiet'
    BY <1>1, <1>3 DEF Fail, Quiet
  <2>3. QED
    BY <1>3, <2>1, <2>2, GraphStays DEF Fail
<1>4. CASE SkipNode(n)
  BY <1>2, <1>4, FrameTypes DEF SkipNode, TypeOK
<1>5. CASE UseHit(n)
  BY <1>2, <1>5 DEF UseHit, TypeOK
<1>6. CASE MissParent(n)
  BY <1>3, <1>6 DEF MissParent
<1>7. CASE FailCollect(n)
  BY <1>3, <1>7 DEF FailCollect
<1>8. CASE Train(n)
  <2>1. Collected(n, results) \in Frames
    BY <1>8, CollectedType
  <2>2. store' \in Seq(Runs)
    BY <1>8, TrainPublishes, PublishTypes DEF TypeOK
  <2>3. QED
    BY <1>2, <1>8, <2>1, <2>2 DEF Train, TypeOK
<1>9. CASE Materialize(n)
  <2>1. Collected(n, results) \in Frames
    BY <1>9, CollectedType
  <2>2. cache' \in [Nodes -> Frames]
    BY <1>9, <2>1 DEF Materialize, TypeOK
  <2>3. QED
    BY <1>2, <1>9, <2>1, <2>2 DEF Materialize, TypeOK
<1>10. CASE Lower(n)
  BY <1>2, <1>10, FrameTypes, RowTypes DEF Lower, TypeOK
<1>11. QED
  BY <1>4, <1>5, <1>6, <1>7, <1>8, <1>9, <1>10

\* Collecting the terminals.
LEMMA CollectTypes ==
  ASSUME TypeInv, NEW n \in Nodes, FailTerminal(n) \/ CollectTerminal(n)
  PROVE  TypeInv'
<1> USE DEF TypeInv
<1>1. CASE FailTerminal(n)
  <2>1. TypeOK'
    BY <1>1 DEF FailTerminal, Fail, TypeOK
  <2>2. Quiet'
    BY <1>1 DEF FailTerminal, Fail, Quiet
  <2>3. QED
    BY <1>1, <2>1, <2>2, GraphStays DEF FailTerminal, Fail
<1>2. CASE CollectTerminal(n)
  <2>1. TerminalFrame(n) \in Frames
    BY <1>2, CollectedType DEF CollectTerminal, TerminalFrame, TypeOK
  <2>2. cache' \in [Nodes -> Frames]
    BY <1>2, <2>1 DEF CollectTerminal, TypeOK
  <2>3. TypeOK'
    BY <1>2, <2>1, <2>2 DEF CollectTerminal, TypeOK
  <2>4. Quiet'
    BY <1>2 DEF CollectTerminal, Quiet
  <2>5. QED
    BY <1>2, <2>3, <2>4, GraphStays DEF CollectTerminal
<1>3. QED
  BY <1>1, <1>2

LEMMA TypeStep == TypeInv /\ [Next]_vars => TypeInv'
<1> SUFFICES ASSUME TypeInv, [Next]_vars PROVE TypeInv'
  OBVIOUS
<1> USE DEF TypeInv
<1>1. CASE Execute
  BY <1>1, ExecuteTypes
<1>2. CASE \E n \in Nodes : Step(n)
  BY <1>2, SearchTypes, EvaluateTypes, CollectTypes DEF Step
<1>3. CASE StartEvaluation \/ StartCollection \/ Finish
  <2>1. TypeOK'
    BY <1>3 DEF StartEvaluation, StartCollection, Finish, TypeOK, Ends
  <2>2. Quiet'
    BY <1>3 DEF StartEvaluation, StartCollection, Finish, Quiet
  <2>3. QED
    BY <1>3, <2>1, <2>2, GraphStays DEF StartEvaluation, StartCollection, Finish
<1>4. CASE Return
  <2>1. graph' = NoGraph /\ graph'.members = {} /\ graph'.terminals = {}
    BY <1>4 DEF Return, NoGraph
  <2>2. NoGraph \in [members : SUBSET Nodes, terminals : SUBSET Nodes,
                     materialized : SUBSET Nodes]
    BY DEF NoGraph
  <2>3. begun' \in Seq(Runs)
    BY <1>4, NoRuns DEF Return
  <2>4. TypeOK'
    <3>1. results' \in [Nodes -> Frames] /\ outputs' \in [Nodes -> Frames]
      BY <1>4, FrameTypes DEF Return
    <3>2. /\ UNCHANGED <<prog, cache, feed, store>> /\ pc' = "idle" /\ why' = ""
          /\ useCache' = FALSE
          /\ queue' = {} /\ required' = {} /\ hits' = {} /\ visited' = {}
      BY <1>4 DEF Return
    <3>3. QED
      BY <2>1, <2>2, <2>3, <3>1, <3>2 DEF TypeOK
  <2>5. Quiet' /\ Closed' /\ Ends'
    BY <1>4, <2>1 DEF Return, Quiet, Closed, Ends
  <2>6. QED
    BY <2>4, <2>5
<1>5. CASE TrainElsewhere
  <2>1. store' \in Seq(Runs)
    BY <1>5, PublishTypes DEF TrainElsewhere, Runs
  <2>2. TypeOK'
    BY <1>5, <2>1 DEF TrainElsewhere, TypeOK
  <2>3. Quiet'
    BY <1>5 DEF TrainElsewhere, Quiet
  <2>4. QED
    BY <1>5, <2>2, <2>3, GraphStays DEF TrainElsewhere
<1>6. CASE ChangeModelDir
  <2>1. store' \in Seq(Runs)
    BY <1>6, NoRuns DEF ChangeModelDir
  <2>2. TypeOK'
    BY <1>6, <2>1 DEF ChangeModelDir, TypeOK
  <2>3. Quiet'
    BY <1>6 DEF ChangeModelDir, Quiet
  <2>4. QED
    BY <1>6, <2>2, <2>3, GraphStays DEF ChangeModelDir
<1>7. CASE Grow
  <2>1. feed' \in [Nodes -> 0..MaxTime]
    <3>1. PICK n \in Nodes : feed[n] < MaxTime /\ feed' = [feed EXCEPT ![n] = @ + 1]
      BY <1>7 DEF Grow
    <3>2. feed \in [Nodes -> 0..MaxTime]
      BY DEF TypeOK
    <3>3. feed[n] + 1 \in 0..MaxTime
      BY <3>1, <3>2, NAssumption
    <3>4. QED
      BY <3>1, <3>2, <3>3
  <2>2. TypeOK'
    BY <1>7, <2>1 DEF Grow, TypeOK
  <2>3. Quiet'
    BY <1>7 DEF Grow, Quiet
  <2>4. QED
    BY <1>7, <2>2, <2>3, GraphStays DEF Grow
<1>8. CASE UNCHANGED vars
  <2>1. TypeOK' /\ Quiet'
    BY <1>8 DEF vars, TypeOK, Quiet
  <2>2. QED
    BY <1>8, <2>1, GraphStays DEF vars
<1>9. QED
  BY <1>1, <1>2, <1>3, <1>4, <1>5, <1>6, <1>7, <1>8 DEF Next, Proceed

\* Every variable keeps its type, and the search and the evaluation stay within
\* the graph that is executed (LocalExecutor, _resolve_cache_frontier).
THEOREM TypeCorrect == Spec => []TypeOK
<1>1. TypeInv => TypeOK
  BY DEF TypeInv
<1>2. QED
  BY TypeInit, TypeStep, <1>1, PTL DEF Spec

-----------------------------------------------------------------------------
(* The backward search *)

\* Nodes the search has decided to ask for.
Asked == required \union (IF pc = "frontier" THEN queue ELSE {})

\* The terminals and the parents of nodes that did not hit are asked for, and
\* nothing else is.  Hits stand for frames that are still in the cache.
SearchInv ==
  pc # "idle" =>
    /\ graph.terminals \subseteq Asked
    /\ \A n \in required \ hits : Parents(n) \subseteq Asked
    /\ \A n \in Asked : n \in graph.terminals \/ \E c \in required \ hits : n \in Parents(c)
    /\ \A n \in hits : cache[n] # NoFrame

LEMMA SearchInit == Init => SearchInv
BY DEF Init, SearchInv

\* Outside the search the nodes asked for do not change.
LEMMA AskedStays ==
  ASSUME SearchInv, pc # "idle", pc # "frontier", pc' # "frontier",
         UNCHANGED <<prog, graph, required, hits>>,
         \A n \in hits : cache[n] # NoFrame => cache'[n] # NoFrame
  PROVE  SearchInv'
BY DEF SearchInv, Asked, Parents

LEMMA SearchStep == TypeInv /\ SearchInv /\ [Next]_vars => SearchInv'
<1> SUFFICES ASSUME TypeInv, SearchInv, [Next]_vars PROVE SearchInv'
  OBVIOUS
<1> USE DEF TypeInv
<1>1. CASE Execute
  <2>1. PICK listed \in SUBSET Nodes \ {{}}, mat \in SUBSET Nodes, on \in BOOLEAN :
          LET terminals == Terminals(listed)
              members == Members(terminals)
          IN
            /\ mat \subseteq members
            /\ graph' = [members |-> members, terminals |-> terminals, materialized |-> mat]
            /\ useCache' = on
            /\ IF on THEN /\ queue' = terminals /\ required' = {}
                          /\ pc' = "frontier"
               ELSE /\ queue' = {} /\ required' = members
                    /\ pc' = "evaluate"
    BY <1>1 DEF Execute
  <2> DEFINE terminals == Terminals(listed)
             members == Members(terminals)
  <2>2. prog \in Programs /\ terminals \in SUBSET Nodes
    BY DEF TypeOK, Terminals
  <2>3. hits' = {} /\ prog' = prog
    BY <1>1 DEF Execute, Quiet
  <2>4. graph'.terminals = terminals
    BY <2>1
  <2>5. \/ queue' = terminals /\ required' = {} /\ pc' = "frontier"
        \/ required' = members /\ pc' = "evaluate"
    BY <2>1
  <2> HIDE DEF terminals
  <2>6. /\ members \subseteq Nodes /\ terminals \subseteq members
        /\ \A n \in members : Parents(n) \subseteq members
        /\ \A n \in members : n \in terminals \/ \E c \in members : n \in Parents(c)
    BY <2>2, MembersClosed, MembersEnd
  <2> HIDE DEF members
  <2>7. CASE queue' = terminals /\ required' = {} /\ pc' = "frontier"
    BY <2>3, <2>4, <2>7 DEF SearchInv, Asked, Parents
  <2>8. CASE required' = members /\ pc' = "evaluate"
    BY <2>3, <2>4, <2>6, <2>8 DEF SearchInv, Asked, Parents
  <2>9. QED
    BY <2>5, <2>7, <2>8
<1>2. ASSUME NEW n \in Nodes, SearchNode(n)
      PROVE  SearchInv'
  <2>1. pc = "frontier" /\ pc' = "frontier" /\ n \in queue
        /\ required' = required \union {n}
        /\ UNCHANGED <<prog, graph, cache>>
    BY <1>2 DEF SearchNode
  <2>2. CASE n \in required /\ queue' = queue \ {n} /\ hits' = hits
    BY <2>1, <2>2 DEF SearchInv, Asked, Parents
  <2>3. CASE n \notin required /\ cache[n] # NoFrame /\ hits' = hits \union {n}
             /\ queue' = queue \ {n}
    BY <2>1, <2>3 DEF SearchInv, Asked, Parents
  <2>4. CASE n \notin required /\ queue' = (queue \ {n}) \union Parents(n) /\ hits' = hits
    <3>1. n \notin hits
      BY <2>4 DEF TypeOK
    <3>2. QED
      BY <2>1, <2>4, <3>1 DEF SearchInv, Asked, Parents
  <2>5. QED
    BY <1>2, <2>2, <2>3, <2>4 DEF SearchNode
<1>3. CASE StartEvaluation
  BY <1>3 DEF StartEvaluation, SearchInv, Asked, Parents
<1>4. ASSUME NEW n \in Nodes,
             \/ SkipNode(n) \/ UseHit(n) \/ MissParent(n) \/ FailCollect(n)
             \/ Train(n) \/ Lower(n) \/ FailTerminal(n)
      PROVE  SearchInv'
  <2>1. pc \in {"evaluate", "collect"} /\ pc' \in {"evaluate", "failed"}
        /\ UNCHANGED <<prog, graph, required, hits, cache>>
    BY <1>4 DEF SkipNode, UseHit, MissParent, FailCollect, Train, Lower, FailTerminal,
                Visit, Fail, Evaluates, IsNext
  <2>2. QED
    BY <2>1, AskedStays
<1>5. ASSUME NEW n \in Nodes, Materialize(n)
      PROVE  SearchInv'
  <2>1. Collected(n, results) # NoFrame /\ cache \in [Nodes -> Frames]
    BY CollectedType DEF TypeOK
  <2>2. \A m \in hits : cache[m] # NoFrame => cache'[m] # NoFrame
    BY <1>5, <2>1 DEF Materialize, TypeOK
  <2>3. pc = "evaluate" /\ pc' = pc /\ UNCHANGED <<prog, graph, required, hits>>
    BY <1>5 DEF Materialize, Evaluates, IsNext, Visit
  <2>4. QED
    BY <2>2, <2>3, AskedStays
<1>6. ASSUME NEW n \in Nodes, CollectTerminal(n)
      PROVE  SearchInv'
  <2>1. \A m \in hits : cache[m] # NoFrame => cache'[m] # NoFrame
    BY <1>6 DEF CollectTerminal, TypeOK
  <2>2. pc = "collect" /\ pc' = pc /\ UNCHANGED <<prog, graph, required, hits>>
    BY <1>6 DEF CollectTerminal
  <2>3. QED
    BY <2>1, <2>2, AskedStays
<1>7. CASE StartCollection \/ Finish
  <2>1. pc \in {"evaluate", "collect"} /\ pc' \in {"collect", "done"}
        /\ UNCHANGED <<prog, graph, required, hits, cache>>
    BY <1>7 DEF StartCollection, Finish
  <2>2. QED
    BY <2>1, AskedStays
<1>8. CASE Return
  BY <1>8 DEF Return, SearchInv
<1>9. CASE TrainElsewhere \/ ChangeModelDir \/ Grow \/ UNCHANGED vars
  BY <1>9 DEF TrainElsewhere, ChangeModelDir, Grow, vars, SearchInv, Asked, Parents
<1>10. QED
  BY <1>1, <1>2, <1>3, <1>4, <1>5, <1>6, <1>7, <1>8, <1>9 DEF Next, Proceed, Step

\* Once the search is over, the nodes asked for are the demanded ones: by
\* induction from the last node towards the first.
LEMMA SearchDone ==
  ASSUME TypeInv, SearchInv, pc \in {"evaluate", "collect", "done"}
  PROVE  required = Demanded
<1> USE DEF TypeInv
<1>1. /\ graph.terminals \subseteq required /\ required \subseteq Nodes
      /\ \A n \in required \ hits : Parents(n) \subseteq required
      /\ \A n \in required : n \in graph.terminals \/ \E c \in required \ hits : n \in Parents(c)
  BY DEF SearchInv, Asked, TypeOK
<1>2. Demanded \subseteq required
  BY <1>1 DEF Demanded, Reached
<1>3. ASSUME NEW S \in SUBSET Nodes, graph.terminals \subseteq S,
             \A c \in S \intersect (Nodes \ hits) : Parents(c) \subseteq S
      PROVE  required \subseteq S
  <2>1. SUFFICES ASSUME required \ S # {} PROVE FALSE
    OBVIOUS
  <2>2. PICK m \in required \ S : \A k \in required \ S : k <= m
    BY <1>1, <2>1, NAssumption, LastOf DEF Nodes
  <2>3. PICK c \in required \ hits : m \in Parents(c)
    BY <1>1, <1>3, <2>2
  <2>4. m < c
    BY <1>1, <2>3, ProgramTypes DEF TypeOK
  <2>5. c \in S
    <3>1. m \in Nodes /\ c \in Nodes
      BY <1>1
    <3>2. ~(c <= m)
      BY <2>4, <3>1 DEF Nodes
    <3>3. QED
      BY <2>2, <3>2
  <2>6. QED
    BY <1>1, <1>3, <2>2, <2>3, <2>5
<1>4. QED
  BY <1>1, <1>2, <1>3 DEF Demanded, Reached

\* The search stops exactly at the hits: it never prunes a node that another
\* branch needs and never keeps a superseded one (_resolve_cache_frontier).
THEOREM FrontierCorrect == Spec => []FrontierIsDemanded
<1>1. TypeInv /\ SearchInv => FrontierIsDemanded
  BY SearchDone DEF FrontierIsDemanded
<1>2. QED
  BY TypeInit, TypeStep, SearchInit, SearchStep, <1>1, PTL DEF Spec

-----------------------------------------------------------------------------
(* Parents come first *)

\* No node is bound to the output of an inference node of a group that a
\* trainer of the same declaration publishes.
NoLiveConsumers ==
  \A g \in Programs : \A i, t, c \in Nodes :
    g.role[i] = "inference" /\ g.role[t] = "trainer" => i \notin g.parents[c]

\* The nodes the loop is past that were asked for have a result.
EvalInv ==
  /\ pc = "frontier" => visited = {}
  /\ pc = "evaluate" => \A n \in visited \intersect required : results[n] # NoFrame
  /\ ParentsAreReady

LEMMA EvalInit == Init => EvalInv
BY DEF Init, EvalInv, ParentsAreReady

\* Live inference moves to the end, and nothing that comes before it needs it.
LEMMA NextIsReady ==
  ASSUME NoLiveConsumers, TypeInv, SearchInv, EvalInv, NEW n \in Nodes, Evaluates(n)
  PROVE  InputsReady(n)
<1> USE DEF TypeInv
<1>1. SUFFICES ASSUME NEW p \in Parents(n) PROVE results[p] # NoFrame
  BY DEF InputsReady
<1>2. /\ pc = "evaluate" /\ n \in required \ hits /\ n \in graph.members
      /\ \A m \in graph.members \ visited : m = n \/ Precedes(n, m)
  BY DEF Evaluates, IsNext
<1>3. p \in graph.members /\ p \in Nodes /\ p < n /\ p \in required
  BY <1>1, <1>2, ProgramTypes DEF Closed, TypeOK, SearchInv, Asked
<1>4. p \notin LiveInference
  BY <1>1, <1>3 DEF LiveInference, NoLiveConsumers, TypeOK, IsInference, IsTrainer, Parents
<1>5. ~Precedes(n, p) /\ p # n
  BY <1>3, <1>4 DEF Precedes, Nodes
<1>6. p \in visited
  BY <1>2, <1>3, <1>5
<1>7. QED
  BY <1>2, <1>3, <1>6 DEF EvalInv

LEMMA EvalStep ==
  ASSUME NoLiveConsumers
  PROVE  TypeInv /\ SearchInv /\ EvalInv /\ [Next]_vars => EvalInv'
<1> SUFFICES ASSUME TypeInv, SearchInv, EvalInv, [Next]_vars PROVE EvalInv'
  OBVIOUS
<1> USE DEF TypeInv, ParentsAreReady
<1>1. CASE Execute
  BY <1>1 DEF Execute, EvalInv, Quiet
<1>2. ASSUME NEW n \in Nodes, SearchNode(n) PROVE EvalInv'
  BY <1>2 DEF SearchNode, EvalInv
<1>3. CASE StartEvaluation \/ StartCollection \/ Finish \/ Return
  BY <1>3 DEF StartEvaluation, StartCollection, Finish, Return, EvalInv
<1>4. ASSUME NEW n \in Nodes, NEW result, IsNext(n), Visit(n, result),
             n \in required => result # NoFrame
      PROVE  EvalInv'
  BY <1>4 DEF IsNext, Visit, EvalInv, TypeOK
<1>5. ASSUME NEW n \in Nodes, SkipNode(n) PROVE EvalInv'
  BY <1>4, <1>5 DEF SkipNode
<1>6. ASSUME NEW n \in Nodes, UseHit(n) PROVE EvalInv'
  BY <1>4, <1>6 DEF UseHit, IsNext, SearchInv
<1>7. ASSUME NEW n \in Nodes, MissParent(n) PROVE EvalInv'
  BY <1>7, NextIsReady DEF MissParent
<1>8. ASSUME NEW n \in Nodes, FailCollect(n) \/ FailTerminal(n) PROVE EvalInv'
  BY <1>8 DEF FailCollect, FailTerminal, Fail, EvalInv
<1>9. ASSUME NEW n \in Nodes, Train(n) \/ Materialize(n) PROVE EvalInv'
  <2>1. Collected(n, results) # NoFrame
    BY CollectedType
  <2>2. IsNext(n) /\ Visit(n, Collected(n, results))
    BY <1>9 DEF Train, Materialize, Evaluates
  <2>3. QED
    BY <1>4, <2>1, <2>2
<1>10. ASSUME NEW n \in Nodes, Lower(n) PROVE EvalInv'
  BY <1>4, <1>10, FrameTypes, RowTypes DEF Lower, Evaluates
<1>11. ASSUME NEW n \in Nodes, CollectTerminal(n) PROVE EvalInv'
  BY <1>11 DEF CollectTerminal, EvalInv
<1>12. CASE TrainElsewhere \/ ChangeModelDir \/ Grow \/ UNCHANGED vars
  BY <1>12 DEF TrainElsewhere, ChangeModelDir, Grow, vars, EvalInv
<1>13. QED
  BY <1>1, <1>2, <1>3, <1>5, <1>6, <1>7, <1>8, <1>9, <1>10, <1>11, <1>12
  DEF Next, Proceed, Step

\* When no node is bound to live inference, the evaluation reaches every node
\* after its parents, whatever is cached: moving live inference behind the
\* trainers is safe (_evaluate_to_terminals_with_hits).
THEOREM ParentsComeFirst == NoLiveConsumers => (Spec => []ParentsAreReady)
<1> SUFFICES ASSUME NoLiveConsumers PROVE Spec => []ParentsAreReady
  OBVIOUS
<1>1. EvalInv => ParentsAreReady
  BY DEF EvalInv
<1>2. TypeInv /\ SearchInv /\ EvalInv /\ [Next]_vars => EvalInv'
  BY EvalStep
<1>3. QED
  BY TypeInit, TypeStep, SearchInit, SearchStep, EvalInit, <1>1, <1>2, PTL DEF Spec

-----------------------------------------------------------------------------
(* Cached frames stand *)

\* Whatever an execution may still write has no cached frame.
CacheInv ==
  /\ pc = "collect" => queue \subseteq graph.terminals
  /\ useCache /\ pc \in {"frontier", "evaluate", "collect"} =>
       \A n \in required \ hits :
         \/ IsSource(n) \/ cache[n] = NoFrame
         \/ pc = "evaluate" /\ n \in visited /\ ~IsTerminal(n)
         \/ pc = "collect" /\ n \notin queue

LEMMA CacheInit == Init => CacheInv
BY DEF Init, CacheInv

LEMMA CacheStep == TypeInv /\ SearchInv /\ CacheInv /\ [Next]_vars => CacheInv'
<1> SUFFICES ASSUME TypeInv, SearchInv, CacheInv, [Next]_vars PROVE CacheInv'
  OBVIOUS
<1> USE DEF TypeInv
<1>1. CASE Execute
  BY <1>1 DEF Execute, CacheInv
<1>2. ASSUME NEW n \in Nodes, SearchNode(n) PROVE CacheInv'
  BY <1>2 DEF SearchNode, CacheInv, IsSource
<1>3. CASE StartEvaluation
  BY <1>3 DEF StartEvaluation, CacheInv, IsSource
<1>4. ASSUME NEW n \in Nodes,
             \/ SkipNode(n) \/ UseHit(n) \/ Train(n) \/ Lower(n)
      PROVE  CacheInv'
  BY <1>4 DEF SkipNode, UseHit, Train, Lower, Visit, Evaluates, IsNext, CacheInv,
              IsSource, IsTerminal
<1>5. ASSUME NEW n \in Nodes, Materialize(n) PROVE CacheInv'
  <2>1. /\ ~IsTerminal(n) /\ n \in visited'
        /\ \A m \in Nodes \ {n} : cache'[m] = cache[m]
    BY <1>5 DEF Materialize, CollectsNow, Visit, TypeOK
  <2>2. /\ pc = "evaluate" /\ visited \subseteq visited'
        /\ UNCHANGED <<prog, pc, graph, useCache, queue, required, hits>>
    BY <1>5 DEF Materialize, Evaluates, IsNext, Visit
  <2>3. required \subseteq Nodes
    BY DEF TypeOK
  <2>4. QED
    BY <2>1, <2>2, <2>3 DEF CacheInv, IsSource, IsTerminal
<1>6. CASE StartCollection
  <2>1. queue' = graph.terminals /\ pc = "evaluate" /\ pc' = "collect"
        /\ UNCHANGED <<prog, cache, graph, useCache, required, hits>>
    BY <1>6 DEF StartCollection
  <2>2. QED
    BY <2>1 DEF CacheInv, IsSource, IsTerminal
<1>7. ASSUME NEW n \in Nodes, CollectTerminal(n) PROVE CacheInv'
  <2>1. /\ pc = "collect" /\ queue' = queue \ {n}
        /\ \A m \in Nodes \ {n} : cache'[m] = cache[m]
        /\ UNCHANGED <<prog, pc, graph, useCache, required, hits>>
    BY <1>7 DEF CollectTerminal, TypeOK
  <2>2. required \subseteq Nodes
    BY DEF TypeOK
  <2>3. QED
    BY <2>1, <2>2 DEF CacheInv, IsSource
<1>8. ASSUME NEW n \in Nodes, MissParent(n) \/ FailCollect(n) \/ FailTerminal(n)
      PROVE  CacheInv'
  BY <1>8 DEF MissParent, FailCollect, FailTerminal, Fail, CacheInv
<1>9. CASE Finish \/ Return
  BY <1>9 DEF Finish, Return, CacheInv
<1>10. CASE TrainElsewhere \/ ChangeModelDir \/ Grow \/ UNCHANGED vars
  BY <1>10 DEF TrainElsewhere, ChangeModelDir, Grow, vars, CacheInv, IsSource, IsTerminal
<1>11. QED
  BY <1>1, <1>2, <1>3, <1>4, <1>5, <1>6, <1>7, <1>8, <1>9, <1>10 DEF Next, Proceed, Step

\* The step form of CachedFramesStand.
FramesKept == \A n \in Nodes : cache[n] # NoFrame => cache'[n] = cache[n]

LEMMA FramesKeptStep == TypeInv /\ SearchInv /\ CacheInv /\ [Next]_vars => FramesKept
<1> SUFFICES ASSUME TypeInv, SearchInv, CacheInv, [Next]_vars PROVE FramesKept
  OBVIOUS
<1> USE DEF TypeInv, FramesKept
<1>1. ASSUME NEW n \in Nodes, Materialize(n) PROVE FramesKept
  <2>1. pc = "evaluate" /\ n \in required \ hits /\ n \notin visited
    BY <1>1 DEF Materialize, Evaluates, IsNext
  <2>2. Written(n) => cache[n] = NoFrame
    BY <2>1 DEF CacheInv, Written
  <2>3. QED
    BY <1>1, <2>2 DEF Materialize, TypeOK
<1>2. ASSUME NEW n \in Nodes, CollectTerminal(n) PROVE FramesKept
  <2>1. pc = "collect" /\ n \in queue
    BY <1>2 DEF CollectTerminal
  <2>2. n \notin hits => n \in required
    BY <2>1 DEF SearchInv, Asked, CacheInv
  <2>3. Written(n) /\ n \notin hits => cache[n] = NoFrame
    BY <2>1, <2>2 DEF CacheInv, Written
  <2>4. QED
    BY <1>2, <2>3 DEF CollectTerminal, TypeOK
<1>3. CASE UNCHANGED cache
  BY <1>3
<1>4. CASE ~(\E n \in Nodes : Materialize(n) \/ CollectTerminal(n))
  BY <1>3, <1>4 DEF Next, Proceed, Step, Execute, SearchNode, SkipNode, UseHit, MissParent,
     FailCollect, Train, Lower, FailTerminal, StartEvaluation, StartCollection, Finish,
     Return, TrainElsewhere, ChangeModelDir, Grow, Visit, Fail, vars
<1>5. QED
  BY <1>1, <1>2, <1>4

\* No execution replaces or drops a frame that an earlier one cached, so a lazy
\* scan handed out for a hit stays valid (_read_cache, _write_cache).
THEOREM CacheIsAppendOnly == Spec => CachedFramesStand
<1>1. TypeInv /\ SearchInv /\ CacheInv /\ [Next]_vars =>
        [\A n \in Nodes : cache[n] # NoFrame => cache'[n] = cache[n]]_vars
  BY FramesKeptStep DEF FramesKept
<1>2. QED
  BY TypeInit, TypeStep, SearchInit, SearchStep, CacheInit, CacheStep, <1>1, PTL
  DEF Spec, CachedFramesStand
-----------------------------------------------------------------------------
(* What frames are predicted with *)

\* The store lists runs by trained_at, and those of the execution's beginning still.
StoreInv == Sorted(store) /\ \A i \in 1..Len(begun) : begun[i] \in Recorded

\* The results of all parents are there.
Settled(n) == \A p \in Parents(n) : results[p] # NoFrame

\* No cached frame of this execution stands in for an inference.
NoInferenceHit == \A h \in hits : ~Infers(h)
HitUses == UNION {results[h].uses : h \in hits}

\* Not older than what the graph's trainer left, when that is not too late.
Sees(u) ==
  \A t \in graph.members \ hits : IsTrainer(t) =>
    /\ t \in visited /\ Settled(t)
    /\ (\A row \in RowsOf(t, results) : row <= u.end) =>
         \A row \in RowsOf(t, results) : row <= u.run.at
Good(u) == NotSuperseded(u) /\ Sees(u)

\* A frame that outlives its execution.
Kept(frame, n) == frame.kind = "frame" /\ (frame.uses # {} => Infers(n))

\* Every inference that was given rows has predicted its part of the frame.
Complete(frame, n) ==
  \A m \in Members({n}) : IsInference(m) =>
    Settled(m) /\ (RowsOf(m, results) # {} => \E u \in frame.uses : u.node = m)

\* A frame of n, predicted with runs that this execution may use.
Sound(frame, n) ==
  /\ Kept(frame, n)
  /\ \A u \in frame.uses : u \in HitUses \/ Good(u)
  /\ NoInferenceHit /\ ~IsTrainer(n) => Complete(frame, n)

\* Every result was computed from the results of its parents.
ResultInv ==
  /\ pc \in {"idle", "frontier"} => visited = {}
  /\ \A n \in Nodes : cache[n] # NoFrame => Kept(cache[n], n)
  /\ \A n \in Nodes : results[n] # NoFrame => n \in visited /\ pc # "frontier"
  /\ pc \in {"evaluate", "collect"} =>
       \A n \in visited \intersect required : results[n] # NoFrame
  /\ pc = "collect" => graph.members \subseteq visited
  /\ \A n \in Nodes : results[n].kind = "lazy" => Settled(n)
  /\ \A n \in Nodes : results[n].kind = "frame" => Sound(results[n], n)

OutputInv ==
  /\ pc = "collect" => \A t \in graph.terminals \ queue : Sound(outputs[t], t)
  /\ pc = "done" => \A t \in graph.terminals : Sound(outputs[t], t)

\* A trainer that was evaluated has left a run of the time of its last row.
TrainedFor(t) ==
  RowsOf(t, results) = {} \/ \E run \in Recorded : IsLast(run.at, RowsOf(t, results))

\* Live inference follows the trainers.
TrainInv ==
  /\ \A t \in visited \ hits : IsTrainer(t) => Settled(t) /\ TrainedFor(t)
  /\ visited \intersect LiveInference # {} => graph.members \ LiveInference \subseteq visited

LEMMA MembersNest ==
  ASSUME prog \in Programs, NEW n \in Nodes
  PROVE  /\ n \in Members({n}) /\ Members({n}) \subseteq Nodes
         /\ \A m \in Members({n}) : Members({m}) \subseteq Members({n})
<1>1. n \in Members({n}) /\ Members({n}) \subseteq Nodes
  BY DEF Members, Reached
<1>2. ASSUME NEW m \in Members({n}), NEW x \in Members({m}) PROVE x \in Members({n})
  <2>1. SUFFICES ASSUME NEW S \in SUBSET Nodes, {n} \subseteq S,
                        \A c \in S \intersect Nodes : Parents(c) \subseteq S
                 PROVE  x \in S
    BY <1>2 DEF Members, Reached
  <2>2. m \in S
    BY <1>2, <2>1 DEF Members, Reached
  <2>3. QED
    BY <1>2, <2>1, <2>2 DEF Members, Reached
<1>3. QED
  BY <1>1, <1>2

\* Inference stands at n or above one of its parents.
LEMMA InfersAbove ==
  ASSUME prog \in Programs, NEW n \in Nodes
  PROVE  /\ IsInference(n) => Infers(n)
         /\ \A m \in Members({n}) : Infers(m) => Infers(n)
BY MembersNest DEF Infers

\* The functions that run for n are its own and those of lazy ancestors, and take
\* in the results of their other parents.
LEMMA PendingReads ==
  ASSUME prog \in Programs, NEW n \in Nodes, NEW res
  PROVE  /\ n \in Pending(n, res) /\ Pending(n, res) \subseteq Members({n})
         /\ \A m \in Pending(n, res) : m = n \/ res[m].kind = "lazy"
         /\ \A c \in Pending(n, res) : \A m \in Parents(c) :
              m \in Members({n}) /\ (m \in Pending(n, res) \/ res[m].kind # "lazy")
<1> DEFINE lazy == {n} \union {m \in Nodes : res[m].kind = "lazy"}
           all == Reached({n}, lazy)
<1>1. Pending(n, res) = all \intersect lazy
  BY DEF Pending
<1>2. n \in all
  BY DEF Reached
<1>3. all \subseteq Members({n})
  BY DEF Reached, Members
<1>4. ASSUME NEW c \in all \intersect lazy, NEW m \in Parents(c) PROVE m \in all
  <2>1. m \in Nodes /\ c \in Nodes
    BY <1>4, ProgramTypes DEF Reached
  <2>2. QED
    BY <1>4, <2>1 DEF Reached
<1>5. ASSUME NEW c \in all \intersect lazy, NEW m \in Parents(c)
      PROVE  m \in Members({n}) /\ (m \in all \intersect lazy \/ res[m].kind # "lazy")
  <2>1. m \in all /\ m \in Nodes
    BY <1>4, <1>5, ProgramTypes DEF Reached
  <2>2. QED
    BY <1>3, <2>1
<1> HIDE DEF all
<1>6. QED
  BY <1>1, <1>2, <1>3, <1>5

LEMMA StoreTypes == TypeOK => store \in Seq(Runs) /\ Len(store) \in Nat
<1> SUFFICES ASSUME TypeOK PROVE store \in Seq(Runs) /\ Len(store) \in Nat
  OBVIOUS
<1>1. store \in Seq(Runs)
  BY DEF TypeOK
<1>2. QED
  BY <1>1

\* No run that is listed and early enough for a batch is newer than the selected one.
LEMMA ResolvedIsNewest ==
  ASSUME TypeOK, StoreInv, NEW m \in Nodes, NEW rows \in SUBSET Times,
         NEW u \in Resolved(m, rows)
  PROVE  /\ u \in Uses /\ u.node = m /\ u.run.at <= u.end
         /\ \A run \in Recorded : run.at <= u.end => run.at <= u.run.at
         /\ NotSuperseded(u)
<1>1. u \in Uses
  BY ResolvedTypes
<1>2. u.node = m /\ u.end \in Times
  BY DEF Resolved
<1>3. PICK i \in 1..Len(store) : store[i] = u.run /\ Selects(store, u.end, i)
  BY DEF Resolved
<1>4. store \in Seq(Runs) /\ Len(store) \in Nat
  BY StoreTypes
<1>5. \A k \in 1..Len(store) : store[k].at \in Nat
  BY <1>4, RunTypes
<1>6. u.end \in Nat
  BY <1>2, NAssumption DEF Times
<1>7. ASSUME NEW k \in 1..Len(store), store[k].at <= u.end PROVE store[k].at <= u.run.at
  <2>1. ~(k > i)
    <3>1. SUFFICES ASSUME k > i PROVE FALSE
      OBVIOUS
    <3>2. k \in (i + 1)..Len(store)
      BY <1>4, <3>1
    <3>3. store[k].at > u.end
      BY <1>3, <3>2 DEF Selects
    <3>4. QED
      BY <1>5, <1>6, <1>7, <3>3
  <2>2. k < i \/ k = i
    BY <1>4, <2>1
  <2>3. k < i => store[k].at <= store[i].at
    BY DEF StoreInv, Sorted
  <2>4. QED
    BY <1>3, <1>5, <2>2, <2>3
<1>8. u.run.at <= u.end
  BY <1>3 DEF Selects
<1>9. \A run \in Recorded : run.at <= u.end => run.at <= u.run.at
  BY <1>7 DEF Recorded
<1>10. NotSuperseded(u)
  BY <1>8, <1>9 DEF NotSuperseded, StoreInv
<1>11. QED
  BY <1>1, <1>2, <1>8, <1>9, <1>10

\* A listed run that is early enough is enough to find one.
LEMMA ResolvedExists ==
  ASSUME TypeOK, NEW m \in Nodes, NEW rows \in SUBSET Times, NEW end \in rows,
         IsLast(end, rows), NEW run \in Recorded, run.at <= end
  PROVE  Resolved(m, rows) # {}
<1> DEFINE T == {i \in 1..Len(store) : store[i].at <= end}
<1>1. store \in Seq(Runs) /\ Len(store) \in Nat
  BY StoreTypes
<1>2. \A k \in 1..Len(store) : store[k].at \in Nat
  BY <1>1, RunTypes
<1>3. end \in Nat
  BY NAssumption DEF Times
<1>4. T # {} /\ T \in SUBSET (1..Len(store))
  BY DEF Recorded
<1>5. PICK i \in T : \A k \in T : k <= i
  <2> HIDE DEF T
  <2>1. QED
    BY <1>1, <1>4, LastOf
<1>6. i \in 1..Len(store) /\ store[i].at <= end
  BY <1>5
<1>7. ASSUME NEW k \in (i + 1)..Len(store) PROVE store[k].at > end
  <2>1. k \in 1..Len(store) /\ ~(k <= i)
    BY <1>1, <1>6
  <2>2. k \notin T
    BY <1>5, <2>1
  <2>3. QED
    BY <1>2, <1>3, <2>1, <2>2
<1>8. Selects(store, end, i)
  BY <1>6, <1>7 DEF Selects
<1> DEFINE u == [node |-> m, run |-> store[i], end |-> end]
<1>9. u \in Resolved(m, rows)
  <2>1. u \in [node : {m}, run : {store[k] : k \in 1..Len(store)}, end : rows]
    BY <1>6
  <2>2. u.end = end /\ u.run = store[i]
    OBVIOUS
  <2> HIDE DEF u
  <2>3. QED
    BY <1>6, <1>8, <2>1, <2>2 DEF Resolved
<1>10. QED
  BY <1>9

\* Nothing is bound to a trainer, so it is a terminal, and terminals are asked for.
LEMMA TrainersAreAskedFor ==
  ASSUME TypeInv, SearchInv, pc = "evaluate", NEW t \in graph.members, IsTrainer(t)
  PROVE  t \in required
<1>1. graph.members \subseteq Nodes /\ prog \in Programs
  BY DEF TypeInv, TypeOK
<1>2. t \in graph.terminals
  BY <1>1, ProgramTypes DEF TypeInv, Ends
<1>3. QED
  BY <1>2 DEF SearchInv, Asked

\* When live inference is next, everything else is done.
LEMMA LiveComesLast ==
  ASSUME NEW n \in LiveInference, IsNext(n)
  PROVE  graph.members \ LiveInference \subseteq visited \ {n}
BY DEF IsNext, Precedes

\* Inference that is collected comes after the trainers.
LEMMA TrainersAreVisited ==
  ASSUME TypeInv, ResultInv, TrainInv, NEW n \in graph.members,
         IsNext(n) \/ graph.members \subseteq visited,
         NEW m \in Pending(n, results), IsInference(m),
         NEW t \in graph.members, IsTrainer(t)
  PROVE  t \in visited
<1>1. /\ prog \in Programs /\ visited \subseteq graph.members /\ graph.members \subseteq Nodes
      /\ n \in Nodes
  BY DEF TypeInv, TypeOK
<1>2. t \notin LiveInference
  BY DEF LiveInference, IsInference, IsTrainer
<1>3. m \in Members({n}) /\ (m = n \/ results[m].kind = "lazy")
  BY <1>1, PendingReads
<1>4. CASE results[m].kind = "lazy"
  <2>1. results[m] # NoFrame /\ m \in Nodes
    <3>1. NoFrame.kind # "lazy"
      BY DEF NoFrame
    <3>2. QED
      BY <1>1, <1>3, <1>4, <3>1, MembersNest
  <2>2. m \in visited
    BY <2>1 DEF ResultInv
  <2>3. m \in LiveInference
    BY <1>1, <2>2 DEF LiveInference
  <2>4. QED
    BY <1>2, <2>2, <2>3 DEF TrainInv
<1>5. CASE m = n /\ IsNext(n)
  <2>1. n \in LiveInference
    BY <1>5 DEF LiveInference
  <2>2. QED
    BY <1>2, <1>5, <2>1, LiveComesLast
<1>6. QED
  BY <1>3, <1>4, <1>5

\* What is resolved now is good.
LEMMA ResolvedIsGood ==
  ASSUME TypeInv, StoreInv, ResultInv, TrainInv, NEW n \in graph.members,
         IsNext(n) \/ graph.members \subseteq visited,
         NEW m \in Pending(n, results), IsInference(m),
         NEW u \in Resolved(m, RowsOf(m, results))
  PROVE  Good(u)
<1>1. /\ TypeOK /\ prog \in Programs /\ visited \subseteq graph.members
      /\ graph.members \subseteq Nodes /\ m \in Nodes
  BY DEF TypeInv, TypeOK, Pending
<1>2. /\ u \in Uses /\ NotSuperseded(u)
      /\ \A run \in Recorded : run.at <= u.end => run.at <= u.run.at
  <2>1. RowsOf(m, results) \in SUBSET Times
    BY <1>1, RowTypes
  <2>2. QED
    BY <1>1, <2>1, ResolvedIsNewest
<1>3. ASSUME NEW t \in graph.members \ hits, IsTrainer(t)
      PROVE  /\ t \in visited /\ Settled(t)
             /\ (\A row \in RowsOf(t, results) : row <= u.end) =>
                  \A row \in RowsOf(t, results) : row <= u.run.at
  <2>1. t \in visited
    BY <1>3, TrainersAreVisited
  <2>2. Settled(t) /\ TrainedFor(t)
    BY <1>3, <2>1 DEF TrainInv
  <2>3. ASSUME \A row \in RowsOf(t, results) : row <= u.end, NEW row \in RowsOf(t, results)
        PROVE  row <= u.run.at
    <3>1. PICK run \in Recorded : IsLast(run.at, RowsOf(t, results))
      BY <2>2, <2>3 DEF TrainedFor
    <3>2. run.at <= u.end /\ row <= run.at
      BY <2>3, <3>1 DEF IsLast
    <3>3. run.at <= u.run.at
      BY <1>2, <3>1, <3>2
    <3>4. row \in Int /\ run.at \in Int /\ u.run.at \in Int
      <4>1. row \in Times /\ run.at \in Times
        BY <1>1, <1>3, <2>3, <3>1, RowTypes DEF IsLast
      <4>2. u.run \in Runs
        BY <1>2 DEF Uses
      <4>3. QED
        BY <4>1, <4>2, RunTypes DEF Times
    <3>5. QED
      BY <3>2, <3>3, <3>4
  <2>4. QED
    BY <2>1, <2>2, <2>3
<1>4. QED
  BY <1>2, <1>3 DEF Good, Sees

\* A frame is as sound as what it is collected from.
LEMMA CollectedIsSound ==
  ASSUME TypeInv, StoreInv, ResultInv, TrainInv, NEW n \in graph.members, Settled(n),
         ~ModelMissing(n, results), IsNext(n) \/ graph.members \subseteq visited
  PROVE  Sound(Collected(n, results), n)
<1> DEFINE run == Pending(n, results)
           read == (UNION {Parents(m) : m \in run}) \ run
           inference == {m \in run : IsInference(m)}
           old == UNION {results[m].uses : m \in read}
           now == UNION {Resolved(m, RowsOf(m, results)) : m \in inference}
<1>1. /\ TypeOK /\ prog \in Programs /\ results \in [Nodes -> Frames]
      /\ graph.members \subseteq Nodes /\ n \in Nodes
  BY DEF TypeInv, TypeOK
<1>2. /\ n \in run /\ run \subseteq Members({n}) /\ Members({n}) \subseteq Nodes
      /\ \A m \in run : m = n \/ results[m].kind = "lazy"
      /\ \A c \in run : \A m \in Parents(c) :
           m \in Members({n}) /\ (m \in run \/ results[m].kind # "lazy")
  BY <1>1, PendingReads, MembersNest
<1>3. Collected(n, results) = IF IsTrainer(n) THEN Frame({}, {})
                              ELSE Frame(old \union now, RowsOf(n, results))
  BY DEF Collected
<1>4. \A m \in inference : RowsOf(m, results) # {} => Resolved(m, RowsOf(m, results)) # {}
  BY DEF ModelMissing
<1>5. \A m \in inference : \A u \in Resolved(m, RowsOf(m, results)) : Good(u) /\ u.node = m
  <2>1. ASSUME NEW m \in inference, NEW u \in Resolved(m, RowsOf(m, results))
        PROVE  Good(u) /\ u.node = m
    <3>1. u.node = m
      BY DEF Resolved
    <3>2. QED
      BY <2>1, <3>1, ResolvedIsGood
  <2>2. QED
    BY <2>1
<1> HIDE DEF run
<1>6. ASSUME NEW m \in read
      PROVE  m \in Members({n}) /\ m \in Nodes /\ Sound(results[m], m) /\ ~IsTrainer(m)
  <2>1. PICK c \in run : m \in Parents(c) /\ m \notin run
    BY <1>6
  <2>2. m \in Members({n}) /\ m \in Nodes /\ results[m].kind # "lazy" /\ c \in Nodes
    BY <1>2, <2>1
  <2>3. results[m] # NoFrame
    BY <1>2, <2>1 DEF ResultInv, Settled
  <2>4. results[m].kind = "frame"
    BY <1>1, <2>2, <2>3, FrameTypes
  <2>5. ~IsTrainer(m)
    BY <1>1, <2>1, <2>2, ProgramTypes
  <2>6. QED
    BY <2>2, <2>4, <2>5 DEF ResultInv
<1>7. \A u \in old \union now : u \in HitUses \/ Good(u)
  BY <1>5, <1>6 DEF Sound
<1>8. old \union now # {} => Infers(n)
  <2>1. ASSUME NEW m \in read, results[m].uses # {} PROVE Infers(n)
    BY <1>1, <1>6, <2>1, InfersAbove DEF Sound, Kept
  <2>2. ASSUME NEW m \in inference PROVE Infers(n)
    BY <1>2, <2>2 DEF Infers
  <2>3. QED
    BY <2>1, <2>2
<1>9. ASSUME NoInferenceHit, NEW a \in Members({n}), IsInference(a)
      PROVE  Settled(a) /\ (RowsOf(a, results) # {} => \E u \in old \union now : u.node = a)
  <2> DEFINE T == run \union UNION {Members({m}) : m \in read}
  <2>1. a \in T
    <3>1. T \subseteq Nodes /\ n \in T
      <4>1. \A m \in read : Members({m}) \subseteq Nodes
        BY <1>1, <1>6, MembersNest
      <4> HIDE DEF read
      <4>2. QED
        BY <1>2, <4>1
    <3>2. ASSUME NEW c \in T, NEW p \in Parents(c) PROVE p \in T
      <4>1. CASE c \in run
        <5>1. p \in run \/ p \in read
          BY <3>2, <4>1
        <5>2. p \in read => p \in Members({p})
          BY <1>1, <1>6, MembersNest
        <5>3. QED
          BY <5>1, <5>2
      <4>2. ASSUME NEW m \in read, c \in Members({m}) PROVE p \in T
        <5>1. p \in Members({m})
          BY <1>1, <1>6, <3>2, <4>2, MembersClosed
        <5>2. QED
          BY <5>1
      <4>3. QED
        BY <4>1, <4>2
    <3> HIDE DEF T
    <3>3. \A c \in T \intersect Nodes : Parents(c) \subseteq T
      BY <3>2
    <3>4. QED
      BY <1>9, <3>1, <3>3 DEF Members, Reached
  <2>2. CASE a \in run
    <3>1. Settled(a)
      BY <1>2, <2>2 DEF ResultInv
    <3>2. RowsOf(a, results) # {} => \E u \in now : u.node = a
      BY <1>4, <1>5, <1>9, <2>2
    <3>3. QED
      BY <3>1, <3>2
  <2>3. ASSUME NEW m \in read, a \in Members({m})
        PROVE  Settled(a) /\ (RowsOf(a, results) # {} => \E u \in old \union now : u.node = a)
    <3>1. Complete(results[m], m)
      BY <1>6, <1>9 DEF Sound
    <3>2. Settled(a) /\ (RowsOf(a, results) # {} => \E u \in results[m].uses : u.node = a)
      BY <1>9, <2>3, <3>1 DEF Complete
    <3>3. QED
      BY <3>2
  <2>4. QED
    BY <2>1, <2>2, <2>3
<1> HIDE DEF old, now
<1>10. /\ Frame(old \union now, RowsOf(n, results)).kind = "frame"
       /\ Frame(old \union now, RowsOf(n, results)).uses = old \union now
       /\ Frame({}, {}).kind = "frame" /\ Frame({}, {}).uses = {}
  BY DEF Frame
<1>11. CASE IsTrainer(n)
  BY <1>3, <1>10, <1>11 DEF Sound, Kept
<1>12. CASE ~IsTrainer(n)
  BY <1>3, <1>7, <1>8, <1>9, <1>10, <1>12 DEF Sound, Kept, Complete
<1>13. QED
  BY <1>11, <1>12
-----------------------------------------------------------------------------
(* Sound frames stay sound *)

\* A step within an execution keeps the results that are there.
Alive == /\ UNCHANGED <<prog, feed, graph, hits, begun>>
         /\ visited \subseteq visited'
         /\ \A n \in Nodes : results[n] # NoFrame => results'[n] = results[n]

LEMMA AliveFacts ==
  ASSUME TypeOK, Alive
  PROVE  /\ \A n \in Nodes : /\ Infers(n)' <=> Infers(n)
                             /\ Members({n})' = Members({n})
                             /\ Parents(n)' = Parents(n)
                             /\ IsInference(n)' <=> IsInference(n)
                             /\ IsTrainer(n)' <=> IsTrainer(n)
         /\ \A n \in Nodes : Settled(n) =>
              Settled(n)' /\ RowsOf(n, results)' = RowsOf(n, results)
         /\ NoInferenceHit' <=> NoInferenceHit
         /\ HitUses \subseteq HitUses'
<1>1. UNCHANGED <<prog, feed, hits>>
  BY DEF Alive
<1>2. \A n \in Nodes : /\ Infers(n)' <=> Infers(n)
                       /\ Members({n})' = Members({n})
                       /\ Parents(n)' = Parents(n)
                       /\ IsInference(n)' <=> IsInference(n)
                       /\ IsTrainer(n)' <=> IsTrainer(n)
  BY <1>1 DEF Infers, Members, Reached, Parents, IsInference, IsTrainer
<1>3. hits \subseteq Nodes /\ prog \in Programs
  BY DEF TypeOK
<1>4. ASSUME NEW n \in Nodes, Settled(n)
      PROVE  Settled(n)' /\ RowsOf(n, results)' = RowsOf(n, results)
  <2>1. Parents(n) \subseteq Nodes
    BY <1>3, ProgramTypes
  <2>2. Parents(n)' = Parents(n) /\ \A p \in Parents(n) : results'[p] = results[p]
    BY <1>2, <1>4, <2>1 DEF Settled, Alive
  <2>3. RowsOf(n, results)' = RowsOf(n, results)
    BY <1>1, <2>2 DEF RowsOf, IsSource
  <2>4. Settled(n)'
    BY <1>4, <2>2 DEF Settled
  <2>5. QED
    BY <2>3, <2>4
<1>5. NoInferenceHit' <=> NoInferenceHit
  BY <1>1, <1>2, <1>3 DEF NoInferenceHit
<1>6. HitUses \subseteq HitUses'
  <2>1. ASSUME NEW h \in hits, NEW u \in results[h].uses PROVE u \in results'[h].uses
    <3>1. NoFrame.uses = {}
      BY DEF NoFrame
    <3>2. results'[h] = results[h]
      BY <1>3, <2>1, <3>1 DEF Alive
    <3>3. QED
      BY <2>1, <3>2
  <2>2. QED
    BY <1>1, <2>1 DEF HitUses
<1>7. QED
  BY <1>2, <1>4, <1>5, <1>6

LEMMA GoodStays ==
  ASSUME TypeOK, Alive, NEW u, Good(u)
  PROVE  Good(u)'
<1>1. graph.members \subseteq Nodes
  BY DEF TypeOK
<1>2. graph' = graph /\ hits' = hits /\ begun' = begun /\ visited \subseteq visited'
  BY DEF Alive
<1>3. NotSuperseded(u)'
  BY <1>2 DEF Good, NotSuperseded
<1>4. ASSUME NEW t \in graph.members \ hits, IsTrainer(t)'
      PROVE  /\ t \in visited' /\ Settled(t)'
             /\ (\A row \in RowsOf(t, results)' : row <= u.end) =>
                  \A row \in RowsOf(t, results)' : row <= u.run.at
  <2>1. IsTrainer(t) /\ t \in Nodes
    BY <1>1, <1>4, AliveFacts
  <2>2. /\ t \in visited /\ Settled(t)
        /\ (\A row \in RowsOf(t, results) : row <= u.end) =>
             \A row \in RowsOf(t, results) : row <= u.run.at
    BY <1>4, <2>1 DEF Good, Sees
  <2>3. Settled(t)' /\ RowsOf(t, results)' = RowsOf(t, results)
    BY <2>1, <2>2, AliveFacts
  <2>4. QED
    BY <1>2, <2>2, <2>3
<1>5. Sees(u)'
  BY <1>2, <1>4 DEF Sees
<1>6. QED
  BY <1>3, <1>5 DEF Good

LEMMA SoundKeeps ==
  ASSUME TypeOK, Alive, NEW f, NEW n \in Nodes, Sound(f, n)
  PROVE  /\ f.kind = "frame" /\ (f.uses # {} => Infers(n)')
         /\ \A u \in f.uses : u \in HitUses' \/ Good(u)'
         /\ NoInferenceHit' /\ ~IsTrainer(n)' =>
              \A m \in Members({n})' : IsInference(m)' =>
                /\ Settled(m)'
                /\ RowsOf(m, results)' # {} => \E u \in f.uses : u.node = m
<1>1. f.kind = "frame" /\ (f.uses # {} => Infers(n)')
  BY AliveFacts DEF Sound, Kept
<1>2. \A u \in f.uses : u \in HitUses' \/ Good(u)'
  <2>1. \A u : Good(u) => Good(u)'
    BY GoodStays
  <2>2. HitUses \subseteq HitUses'
    BY AliveFacts
  <2>3. QED
    BY <2>1, <2>2 DEF Sound
<1>3. ASSUME NoInferenceHit', ~IsTrainer(n)', NEW m \in Members({n})', IsInference(m)'
      PROVE  Settled(m)' /\ (RowsOf(m, results)' # {} => \E u \in f.uses : u.node = m)
  <2>1. prog \in Programs
    BY DEF TypeOK
  <2>2. Members({n}) \subseteq Nodes
    BY <2>1, MembersNest
  <2>3. NoInferenceHit /\ ~IsTrainer(n) /\ m \in Members({n}) /\ m \in Nodes /\ IsInference(m)
    BY <1>3, <2>2, AliveFacts
  <2>4. Settled(m) /\ (RowsOf(m, results) # {} => \E u \in f.uses : u.node = m)
    BY <2>3 DEF Sound, Complete
  <2>5. Settled(m)' /\ RowsOf(m, results)' = RowsOf(m, results)
    BY <2>3, <2>4, AliveFacts
  <2>6. QED
    BY <2>4, <2>5
<1>4. QED
  BY <1>1, <1>2, <1>3

\* What was sound stays so.
LEMMA SoundStays ==
  ASSUME TypeOK, Alive, NEW n \in Nodes
  PROVE  /\ results'[n] = results[n] /\ Sound(results[n], n) => Sound(results[n], n)'
         /\ outputs'[n] = outputs[n] /\ Sound(outputs[n], n) => Sound(outputs[n], n)'
<1>1. ASSUME results'[n] = results[n], Sound(results[n], n) PROVE Sound(results[n], n)'
  <2> DEFINE f == results[n]
  <2>1. Sound(f, n) /\ f = results'[n]
    BY <1>1
  <2> HIDE DEF f
  <2>2. /\ f.kind = "frame" /\ (f.uses # {} => Infers(n)')
        /\ \A u \in f.uses : u \in HitUses' \/ Good(u)'
        /\ NoInferenceHit' /\ ~IsTrainer(n)' =>
             \A m \in Members({n})' : IsInference(m)' =>
               /\ Settled(m)'
               /\ RowsOf(m, results)' # {} => \E u \in f.uses : u.node = m
    BY <2>1, SoundKeeps
  <2>3. QED
    BY <2>1, <2>2 DEF Sound, Kept, Complete
<1>2. ASSUME outputs'[n] = outputs[n], Sound(outputs[n], n) PROVE Sound(outputs[n], n)'
  <2> DEFINE f == outputs[n]
  <2>1. Sound(f, n) /\ f = outputs'[n]
    BY <1>2
  <2> HIDE DEF f
  <2>2. /\ f.kind = "frame" /\ (f.uses # {} => Infers(n)')
        /\ \A u \in f.uses : u \in HitUses' \/ Good(u)'
        /\ NoInferenceHit' /\ ~IsTrainer(n)' =>
             \A m \in Members({n})' : IsInference(m)' =>
               /\ Settled(m)'
               /\ RowsOf(m, results)' # {} => \E u \in f.uses : u.node = m
    BY <2>1, SoundKeeps
  <2>3. QED
    BY <2>1, <2>2 DEF Sound, Kept, Complete
<1>3. QED
  BY <1>1, <1>2

\* Nothing is evaluated before an execution begins or after it ended.
LEMMA NothingYet ==
  ASSUME TypeOK, ResultInv, UNCHANGED <<prog, cache>>, visited' = {},
         \A n \in Nodes : results'[n] = NoFrame, pc' \in {"idle", "frontier", "evaluate"}
  PROVE  ResultInv'
<1>1. \A n \in Nodes : Infers(n)' <=> Infers(n)
  BY DEF Infers, Members, Reached, Parents, IsInference
<1>2. \A n \in Nodes : cache'[n] # NoFrame => Kept(cache[n], n)'
  BY <1>1 DEF ResultInv, Kept
<1>3. NoFrame.kind = "none"
  BY DEF NoFrame
<1>4. QED
  BY <1>2, <1>3 DEF ResultInv

\* Steps that keep the results and the cache.
LEMMA ResultsStay ==
  ASSUME TypeOK, ResultInv,
         UNCHANGED <<prog, feed, graph, hits, begun, cache, results, visited, required>>,
         pc' \in {"idle", "frontier"} => pc' = pc,
         pc' \in {"evaluate", "collect"} =>
           \/ visited = {} /\ pc' = "evaluate"
           \/ pc = "evaluate" /\ (pc' = "collect" => graph.members \subseteq visited)
           \/ pc = "collect"
  PROVE  ResultInv'
<1>0. Alive
  BY DEF Alive
<1>1. \A n \in Nodes : cache'[n] # NoFrame => Kept(cache[n], n)'
  BY <1>0, AliveFacts DEF ResultInv, Kept
<1>2. \A n \in Nodes : results'[n].kind = "frame" => Sound(results[n], n)'
  BY <1>0, SoundStays DEF ResultInv
<1>3. \A n \in Nodes : results'[n].kind = "lazy" => Settled(n)'
  BY <1>0, AliveFacts DEF ResultInv
<1>4. /\ \A n \in Nodes : results'[n] # NoFrame => n \in visited' /\ pc' # "frontier"
      /\ pc' \in {"evaluate", "collect"} =>
           \A n \in visited' \intersect required' : results'[n] # NoFrame
      /\ pc' = "collect" => graph'.members \subseteq visited'
      /\ pc' \in {"idle", "frontier"} => visited' = {}
  BY DEF ResultInv
<1>5. QED
  BY <1>1, <1>2, <1>3, <1>4 DEF ResultInv

LEMMA VisitIsAlive ==
  ASSUME TypeInv, ResultInv, NEW n \in Nodes, NEW result, IsNext(n), Visit(n, result)
  PROVE  Alive
<1>1. results[n] = NoFrame
  BY DEF IsNext, ResultInv
<1>2. results \in [Nodes -> Frames]
  BY DEF TypeInv, TypeOK
<1>3. QED
  BY <1>1, <1>2 DEF Alive, Visit

\* The evaluation loop gives a node its result.
LEMMA VisitKeeps ==
  ASSUME TypeInv, ResultInv, NEW n \in Nodes, NEW result, IsNext(n), Visit(n, result),
         n \in required => result # NoFrame,
         result.kind = "lazy" => Settled(n),
         result.kind = "frame" => Kept(result, n) /\ (n \in hits \/ Sound(result, n)),
         \A m \in Nodes : \/ cache'[m] = cache[m]
                          \/ m = n /\ cache'[m] = result /\ result.kind = "frame"
  PROVE  ResultInv'
<1>1. /\ pc = "evaluate" /\ n \notin visited /\ results \in [Nodes -> Frames]
      /\ results' = [results EXCEPT ![n] = result] /\ visited' = visited \union {n}
      /\ UNCHANGED <<prog, pc, graph, required, hits>>
  BY DEF IsNext, Visit, TypeInv, TypeOK
<1>2. TypeOK /\ prog \in Programs /\ Alive
  BY VisitIsAlive DEF TypeInv, TypeOK
<1>3. results'[n] = result /\ \A m \in Nodes : m # n => results'[m] = results[m]
  BY <1>1
<1>4. ASSUME NEW m \in Nodes, cache'[m] # NoFrame PROVE Kept(cache[m], m)'
  <2>1. CASE cache'[m] = cache[m]
    BY <1>2, <1>4, <2>1, AliveFacts DEF ResultInv, Kept
  <2>2. CASE m = n /\ cache'[m] = result /\ result.kind = "frame"
    BY <1>2, <2>2, AliveFacts DEF Kept
  <2>3. QED
    BY <2>1, <2>2
<1>5. ASSUME NEW m \in Nodes, results'[m].kind = "frame" PROVE Sound(results[m], m)'
  <2>1. CASE m # n
    BY <1>2, <1>3, <1>5, <2>1, SoundStays DEF ResultInv
  <2>2. CASE m = n /\ Sound(result, n)
    BY <1>2, <1>3, <2>2, SoundKeeps DEF Sound, Kept, Complete
  <2>3. CASE m = n /\ n \in hits
    <3>1. Kept(result, n) /\ result.kind = "frame"
      BY <1>3, <1>5, <2>3
    <3>2. Kept(results[n], n)'
      BY <1>2, <1>3, <3>1, AliveFacts DEF Kept
    <3>3. results'[n].uses \subseteq HitUses'
      BY <1>1, <2>3 DEF HitUses
    <3>4. NoInferenceHit' => Complete(results[n], n)'
      BY <1>1, <2>3 DEF NoInferenceHit, Complete, Infers
    <3>5. QED
      BY <2>3, <3>2, <3>3, <3>4 DEF Sound
  <2>4. QED
    BY <1>3, <1>5, <2>1, <2>2, <2>3
<1>6. ASSUME NEW m \in Nodes, results'[m].kind = "lazy" PROVE Settled(m)'
  <2>1. Settled(m)
    BY <1>3, <1>6 DEF ResultInv
  <2>2. QED
    BY <1>2, <2>1, AliveFacts
<1>7. /\ \A m \in Nodes : results'[m] # NoFrame => m \in visited' /\ pc' # "frontier"
      /\ pc' \in {"evaluate", "collect"} =>
           \A m \in visited' \intersect required' : results'[m] # NoFrame
  BY <1>1, <1>2, <1>3 DEF ResultInv, TypeOK
<1>8. pc' = "evaluate"
  BY <1>1
<1>9. QED
  BY <1>4, <1>5, <1>6, <1>7, <1>8 DEF ResultInv
\* What a terminal is collected to.
LEMMA TerminalIsSound ==
  ASSUME TypeInv, SearchInv, StoreInv, ResultInv, TrainInv, NEW n \in Nodes,
         CollectTerminal(n), n \in graph.terminals
  PROVE  Sound(TerminalFrame(n), n)
<1>1. /\ TypeOK /\ pc = "collect" /\ n \in required /\ n \in graph.members
      /\ graph.members \subseteq visited
  BY DEF TypeInv, CollectTerminal, SearchInv, Asked, TypeOK, Ends, ResultInv
<1>2. results[n] # NoFrame /\ results[n] \in Frames
  BY <1>1 DEF ResultInv, TypeOK
<1>3. CASE results[n].kind = "lazy"
  <2>1. ~ModelMissing(n, results) /\ Settled(n)
    BY <1>3 DEF CollectTerminal, ResultInv
  <2>2. QED
    BY <1>1, <1>3, <2>1, CollectedIsSound DEF TerminalFrame
<1>4. CASE results[n].kind # "lazy"
  <2>1. results[n].kind = "frame"
    BY <1>2, <1>4, FrameTypes
  <2>2. QED
    BY <1>4, <2>1 DEF TerminalFrame, ResultInv
<1>5. QED
  BY <1>3, <1>4

-----------------------------------------------------------------------------
(* Every step keeps these invariants *)

LEMMA FreshInit == Init => StoreInv /\ ResultInv /\ OutputInv /\ TrainInv
<1> SUFFICES ASSUME Init PROVE StoreInv /\ ResultInv /\ OutputInv /\ TrainInv
  OBVIOUS
<1>1. /\ pc = "idle" /\ visited = {} /\ store = <<>> /\ begun = <<>>
      /\ \A n \in Nodes : cache[n] = NoFrame /\ results[n] = NoFrame
  BY DEF Init
<1>2. NoFrame.kind = "none"
  BY DEF NoFrame
<1>3. StoreInv
  BY <1>1 DEF StoreInv, Sorted
<1>4. QED
  BY <1>1, <1>2, <1>3 DEF ResultInv, OutputInv, TrainInv

\* Training publishes in order and drops no run.
LEMMA StoreStep == TypeInv /\ StoreInv /\ [Next]_vars => StoreInv'
<1> SUFFICES ASSUME TypeInv, StoreInv, [Next]_vars PROVE StoreInv'
  OBVIOUS
<1>1. TypeOK
  BY DEF TypeInv
<1>2. ASSUME NEW run \in Runs, Publish(run), UNCHANGED begun PROVE StoreInv'
  BY <1>1, <1>2, PublishTypes DEF StoreInv
<1>3. CASE UNCHANGED <<store, begun>>
  BY <1>3 DEF StoreInv, Recorded, Sorted
<1>4. CASE Execute
  BY <1>4 DEF Execute, StoreInv, Recorded, Sorted
<1>5. CASE Return
  <2>1. store' = store /\ begun' = <<>>
    BY <1>5 DEF Return
  <2>2. 1..Len(begun') = {}
    BY <2>1
  <2>3. QED
    BY <2>1, <2>2 DEF StoreInv, Sorted
<1>6. CASE ChangeModelDir
  <2>1. store' = <<>> /\ begun' = <<>>
    BY <1>6 DEF ChangeModelDir, TypeInv, Quiet
  <2>2. QED
    BY <2>1 DEF StoreInv, Sorted
<1>7. CASE TrainElsewhere
  BY <1>2, <1>7 DEF TrainElsewhere, Runs
<1>8. ASSUME NEW n \in Nodes, Train(n) PROVE StoreInv'
  <2>1. UNCHANGED begun
    BY <1>8 DEF Train, Visit
  <2>2. QED
    BY <1>1, <1>2, <1>3, <1>8, <2>1, TrainPublishes
<1>9. ASSUME NEW n \in Nodes, Step(n), ~Train(n) PROVE UNCHANGED <<store, begun>>
  BY <1>9 DEF Step, SearchNode, SkipNode, UseHit, MissParent, FailCollect, Materialize, Lower,
     FailTerminal, CollectTerminal, Visit, Fail
<1>10. CASE StartEvaluation \/ StartCollection \/ Finish \/ Grow \/ UNCHANGED vars
  BY <1>3, <1>10 DEF StartEvaluation, StartCollection, Finish, Grow, vars
<1>11. QED
  BY <1>3, <1>4, <1>5, <1>6, <1>7, <1>8, <1>9, <1>10 DEF Next, Proceed

LEMMA ResultStep ==
  TypeInv /\ SearchInv /\ CacheInv /\ StoreInv /\ ResultInv /\ TrainInv /\ [Next]_vars
    => ResultInv'
<1> SUFFICES ASSUME TypeInv, SearchInv, CacheInv, StoreInv, ResultInv, TrainInv, [Next]_vars
             PROVE  ResultInv'
  OBVIOUS
<1>1. /\ TypeOK /\ Quiet /\ graph.members \subseteq Nodes
      /\ pc \in {"idle", "frontier"} => visited = {} /\ \A n \in Nodes : results[n] = NoFrame
  BY DEF TypeInv, ResultInv, TypeOK
<1>2. CASE Execute \/ ChangeModelDir \/ Grow
  <2>1. /\ pc = "idle" /\ pc' \in {"idle", "frontier", "evaluate"}
        /\ UNCHANGED <<prog, cache, visited, results>>
    BY <1>2 DEF Execute, ChangeModelDir, Grow
  <2>2. QED
    BY <1>1, <2>1, NothingYet
<1>3. ASSUME NEW n \in Nodes, SearchNode(n) PROVE ResultInv'
  BY <1>1, <1>3, NothingYet DEF SearchNode
<1>4. CASE Return
  BY <1>1, <1>4, NothingYet DEF Return
<1>5. CASE StartEvaluation \/ StartCollection \/ Finish
  <2>1. UNCHANGED <<prog, feed, graph, hits, begun, cache, results, visited, required>>
    BY <1>5 DEF StartEvaluation, StartCollection, Finish
  <2>2. /\ pc' \in {"evaluate", "collect", "done"}
        /\ pc' = "evaluate" => visited = {}
        /\ pc' = "collect" => pc = "evaluate" /\ graph.members \subseteq visited
    BY <1>1, <1>5 DEF StartEvaluation, StartCollection, Finish
  <2>3. QED
    BY <1>1, <2>1, <2>2, ResultsStay
<1>6. ASSUME NEW n \in Nodes, MissParent(n) \/ FailCollect(n) \/ FailTerminal(n)
      PROVE  ResultInv'
  <2>1. UNCHANGED <<prog, feed, graph, hits, begun, cache, results, visited, required>>
        /\ pc' = "failed"
    BY <1>6 DEF MissParent, FailCollect, FailTerminal, Fail
  <2>2. QED
    BY <1>1, <2>1, ResultsStay
<1>7. CASE TrainElsewhere \/ UNCHANGED vars
  <2>1. UNCHANGED <<prog, feed, graph, hits, begun, cache, results, visited, required, pc>>
    BY <1>7 DEF TrainElsewhere, vars
  <2>2. QED
    BY <1>1, <2>1, ResultsStay DEF ResultInv
<1>8. ASSUME NEW n \in Nodes, SkipNode(n) PROVE ResultInv'
  <2>1. IsNext(n) /\ n \notin required /\ Visit(n, NoFrame) /\ cache' = cache
    BY <1>8 DEF SkipNode
  <2>2. NoFrame.kind = "none"
    BY DEF NoFrame
  <2>3. QED
    BY <2>1, <2>2, VisitKeeps
<1>9. ASSUME NEW n \in Nodes, UseHit(n) PROVE ResultInv'
  <2>1. IsNext(n) /\ n \in hits /\ Visit(n, cache[n]) /\ cache' = cache
    BY <1>9 DEF UseHit
  <2>2. cache[n] # NoFrame
    BY <2>1 DEF SearchInv, IsNext
  <2>3. Kept(cache[n], n)
    BY <2>2 DEF ResultInv
  <2>4. cache[n].kind = "frame"
    BY <2>3 DEF Kept
  <2>5. QED
    BY <2>1, <2>2, <2>3, <2>4, VisitKeeps
<1>10. ASSUME NEW n \in Nodes, Train(n) \/ Materialize(n) PROVE ResultInv'
  <2> DEFINE frame == Collected(n, results)
  <2>1. /\ IsNext(n) /\ Visit(n, frame) /\ n \in graph.members
        /\ InputsReady(n) /\ ~ModelMissing(n, results)
        /\ cache' = cache \/ cache' = [cache EXCEPT ![n] = frame]
    BY <1>10 DEF Train, Materialize, Evaluates, IsNext
  <2>2. Sound(frame, n) /\ frame # NoFrame
    BY <1>1, <2>1, CollectedIsSound, CollectedType DEF InputsReady, Settled
  <2>3. Kept(frame, n) /\ frame.kind = "frame"
    BY <2>2 DEF Sound, Kept
  <2> HIDE DEF frame
  <2>4. \A m \in Nodes : \/ cache'[m] = cache[m]
                         \/ m = n /\ cache'[m] = frame
    BY <1>1, <2>1 DEF TypeOK
  <2>5. QED
    BY <2>1, <2>2, <2>3, <2>4, VisitKeeps
<1>11. ASSUME NEW n \in Nodes, Lower(n) PROVE ResultInv'
  <2> DEFINE frame == Lazy(RowsOf(n, results))
  <2>1. IsNext(n) /\ Visit(n, frame) /\ cache' = cache /\ Settled(n)
    BY <1>11 DEF Lower, Evaluates, InputsReady, Settled
  <2>2. frame.kind = "lazy" /\ frame # NoFrame
    BY <1>1, RowTypes, FrameTypes
  <2> HIDE DEF frame
  <2>3. QED
    BY <2>1, <2>2, VisitKeeps
<1>12. ASSUME NEW n \in Nodes, CollectTerminal(n) PROVE ResultInv'
  <2>1. /\ pc = "collect" /\ pc' = pc /\ n \in queue
        /\ UNCHANGED <<prog, feed, graph, hits, begun, results, visited, required>>
        /\ cache' = cache \/ cache' = [cache EXCEPT ![n] = TerminalFrame(n)]
    BY <1>12 DEF CollectTerminal
  <2>2. Sound(TerminalFrame(n), n)
    <3>1. n \in graph.terminals
      BY <2>1 DEF CacheInv
    <3>2. QED
      BY <1>12, <3>1, TerminalIsSound
  <2>3. Alive
    BY <2>1 DEF Alive
  <2>4. ASSUME NEW m \in Nodes, cache'[m] # NoFrame PROVE Kept(cache[m], m)'
    <3>1. CASE cache'[m] = cache[m]
      BY <1>1, <2>3, <2>4, <3>1, AliveFacts DEF ResultInv, Kept
    <3>2. CASE cache'[m] # cache[m]
      <4>1. m = n /\ cache'[m] = TerminalFrame(n)
        BY <1>1, <2>1, <3>2 DEF TypeOK
      <4>2. QED
        BY <1>1, <2>2, <2>3, <4>1, AliveFacts DEF Kept, Sound
    <3>3. QED
      BY <3>1, <3>2
  <2>5. \A m \in Nodes : results'[m].kind = "frame" => Sound(results[m], m)'
    BY <1>1, <2>1, <2>3, SoundStays DEF ResultInv
  <2>6. \A m \in Nodes : results'[m].kind = "lazy" => Settled(m)'
    BY <1>1, <2>1, <2>3, AliveFacts DEF ResultInv
  <2>7. QED
    BY <2>1, <2>4, <2>5, <2>6 DEF ResultInv
<1>13. QED
  BY <1>2, <1>3, <1>4, <1>5, <1>6, <1>7, <1>8, <1>9, <1>10, <1>11, <1>12
     DEF Next, Proceed, Step

\* What an execution returns is sound.
LEMMA OutputStep ==
  TypeInv /\ SearchInv /\ CacheInv /\ StoreInv /\ ResultInv /\ TrainInv /\ OutputInv
    /\ [Next]_vars => OutputInv'
<1> SUFFICES ASSUME TypeInv, SearchInv, CacheInv, StoreInv, ResultInv, TrainInv, OutputInv,
                    [Next]_vars
             PROVE  OutputInv'
  OBVIOUS
<1>1. TypeOK /\ graph.terminals \subseteq Nodes
  BY DEF TypeInv, TypeOK
<1>2. ASSUME NEW n \in Nodes, CollectTerminal(n) PROVE OutputInv'
  <2>1. /\ pc = "collect" /\ pc' = pc /\ n \in queue /\ queue' = queue \ {n}
        /\ outputs' = [outputs EXCEPT ![n] = TerminalFrame(n)]
        /\ UNCHANGED <<prog, feed, graph, hits, begun, visited, results>>
    BY <1>2 DEF CollectTerminal
  <2>2. n \in graph.terminals /\ outputs \in [Nodes -> Frames]
    BY <1>1, <2>1 DEF CacheInv, TypeOK
  <2>3. Sound(TerminalFrame(n), n) /\ Alive
    BY <1>2, <2>1, <2>2, TerminalIsSound DEF Alive
  <2>4. ASSUME NEW t \in graph.terminals \ queue' PROVE Sound(outputs[t], t)'
    <3>1. CASE t = n
      <4> DEFINE f == TerminalFrame(n)
      <4>1. outputs'[t] = f /\ Sound(f, n)
        BY <2>1, <2>2, <2>3, <3>1
      <4> HIDE DEF f
      <4>2. /\ f.kind = "frame" /\ (f.uses # {} => Infers(n)')
            /\ \A u \in f.uses : u \in HitUses' \/ Good(u)'
            /\ NoInferenceHit' /\ ~IsTrainer(n)' =>
                 \A m \in Members({n})' : IsInference(m)' =>
                   /\ Settled(m)'
                   /\ RowsOf(m, results)' # {} => \E u \in f.uses : u.node = m
        BY <1>1, <2>3, <4>1, SoundKeeps
      <4>3. QED
        BY <3>1, <4>1, <4>2 DEF Sound, Kept, Complete
    <3>2. CASE t # n
      <4>1. t \in graph.terminals \ queue /\ outputs'[t] = outputs[t] /\ t \in Nodes
        BY <1>1, <2>1, <2>2, <2>4, <3>2
      <4>2. Sound(outputs[t], t)
        BY <2>1, <4>1 DEF OutputInv
      <4>3. QED
        BY <1>1, <2>3, <4>1, <4>2, SoundStays
    <3>3. QED
      BY <3>1, <3>2
  <2>5. QED
    BY <2>1, <2>4 DEF OutputInv
<1>3. CASE StartCollection
  BY <1>3 DEF StartCollection, OutputInv
<1>4. ASSUME UNCHANGED <<prog, feed, graph, hits, begun, visited, results, outputs>>,
             \/ pc = "collect" /\ queue = {} /\ pc' = "done"
             \/ UNCHANGED <<pc, queue>>
      PROVE  OutputInv'
  <2>1. Alive
    BY <1>4 DEF Alive
  <2>2. ASSUME NEW t \in graph.terminals, Sound(outputs[t], t) PROVE Sound(outputs[t], t)'
    BY <1>1, <1>4, <2>1, <2>2, SoundStays
  <2>3. QED
    BY <1>4, <2>2 DEF OutputInv
<1>5. CASE Finish \/ TrainElsewhere \/ UNCHANGED vars
  BY <1>4, <1>5 DEF Finish, TrainElsewhere, vars
<1>6. CASE pc' \notin {"collect", "done"}
  BY <1>6 DEF OutputInv
<1>7. QED
  <2>1. ASSUME NEW n \in Nodes,
               \/ SearchNode(n) \/ SkipNode(n) \/ UseHit(n) \/ MissParent(n)
               \/ FailCollect(n) \/ Train(n) \/ Materialize(n) \/ Lower(n) \/ FailTerminal(n)
        PROVE  pc' \notin {"collect", "done"}
    BY <2>1 DEF SearchNode, SkipNode, UseHit, MissParent, FailCollect, Train, Materialize,
       Lower, FailTerminal, Evaluates, IsNext, Visit, Fail
  <2>2. Execute \/ StartEvaluation \/ Return \/ ChangeModelDir \/ Grow =>
          pc' \notin {"collect", "done"}
    BY DEF Execute, StartEvaluation, Return, ChangeModelDir, Grow
  <2>3. QED
    BY <1>2, <1>3, <1>5, <1>6, <2>1, <2>2 DEF Next, Proceed, Step

LEMMA TrainStep ==
  TypeInv /\ SearchInv /\ ResultInv /\ TrainInv /\ [Next]_vars => TrainInv'
<1> SUFFICES ASSUME TypeInv, SearchInv, ResultInv, TrainInv, [Next]_vars PROVE TrainInv'
  OBVIOUS
<1>1. TypeOK /\ Quiet /\ visited \subseteq Nodes /\ graph.members \subseteq Nodes
  BY DEF TypeInv, TypeOK
<1>2. CASE visited' = {}
  BY <1>2 DEF TrainInv
\* Steps that visit no node keep the runs.
<1>3. ASSUME UNCHANGED <<prog, feed, graph, hits, begun, visited, results>>,
             Recorded \subseteq Recorded'
      PROVE  TrainInv'
  <2>1. Alive
    BY <1>3 DEF Alive
  <2>2. \A t \in visited \ hits : IsTrainer(t)' => Settled(t)' /\ TrainedFor(t)'
    BY <1>1, <1>3, <2>1, AliveFacts DEF TrainInv, TrainedFor
  <2>3. LiveInference' = LiveInference
    BY <1>3 DEF LiveInference, IsInference, IsTrainer
  <2>4. QED
    BY <1>3, <2>2, <2>3 DEF TrainInv
\* Steps that visit one.
<1>4. ASSUME NEW n \in Nodes, NEW result, IsNext(n), Visit(n, result),
             Recorded \subseteq Recorded',
             IsTrainer(n) /\ n \notin hits =>
               /\ Settled(n)
               /\ \/ RowsOf(n, results) = {}
                  \/ \E run \in Recorded' : IsLast(run.at, RowsOf(n, results))
      PROVE  TrainInv'
  <2>1. visited' = visited \union {n} /\ UNCHANGED <<prog, graph, hits>> /\ Alive
    BY <1>4, VisitIsAlive DEF Visit
  <2>2. ASSUME NEW t \in visited' \ hits, IsTrainer(t)' PROVE Settled(t)' /\ TrainedFor(t)'
    <3>1. t \in Nodes /\ IsTrainer(t)
      BY <1>1, <2>1, <2>2, AliveFacts
    <3>2. /\ Settled(t)
          /\ \/ RowsOf(t, results) = {}
             \/ \E run \in Recorded' : IsLast(run.at, RowsOf(t, results))
      BY <1>4, <2>1, <2>2, <3>1 DEF TrainInv, TrainedFor
    <3>3. Settled(t)' /\ RowsOf(t, results)' = RowsOf(t, results)
      BY <1>1, <2>1, <3>1, <3>2, AliveFacts
    <3>4. QED
      BY <3>2, <3>3 DEF TrainedFor
  <2>3. LiveInference' = LiveInference
    BY <2>1 DEF LiveInference, IsInference, IsTrainer
  <2>4. visited' \intersect LiveInference' # {} =>
          graph'.members \ LiveInference' \subseteq visited'
    <3>1. CASE n \in LiveInference
      BY <1>4, <2>1, <2>3, <3>1, LiveComesLast
    <3>2. CASE n \notin LiveInference
      BY <2>1, <2>3, <3>2 DEF TrainInv
    <3>3. QED
      BY <3>1, <3>2
  <2>5. QED
    BY <2>1, <2>2, <2>4 DEF TrainInv
<1>5. UNCHANGED store => Recorded' = Recorded
  BY DEF Recorded
<1>6. CASE Execute \/ ChangeModelDir \/ Grow \/ Return
  BY <1>1, <1>2, <1>6 DEF Execute, ChangeModelDir, Grow, Return, Quiet
<1>7. ASSUME NEW n \in Nodes,
             \/ MissParent(n) \/ FailCollect(n) \/ FailTerminal(n) \/ CollectTerminal(n)
      PROVE  TrainInv'
  BY <1>3, <1>5, <1>7 DEF MissParent, FailCollect, FailTerminal, Fail, CollectTerminal
<1>8. ASSUME NEW n \in Nodes, SearchNode(n) PROVE TrainInv'
  BY <1>2, <1>8 DEF SearchNode, ResultInv
<1>9. CASE StartEvaluation \/ StartCollection \/ Finish \/ UNCHANGED vars
  BY <1>3, <1>5, <1>9 DEF StartEvaluation, StartCollection, Finish, vars
<1>10. CASE TrainElsewhere
  <2>1. Recorded \subseteq Recorded'
    BY <1>1, <1>10, PublishTypes DEF TrainElsewhere, Runs
  <2>2. QED
    BY <1>3, <1>10, <2>1 DEF TrainElsewhere
<1>11. ASSUME NEW n \in Nodes, SkipNode(n) PROVE TrainInv'
  <2>1. /\ IsNext(n) /\ Visit(n, NoFrame) /\ UNCHANGED store /\ n \notin required
        /\ pc = "evaluate" /\ n \in graph.members
    BY <1>11 DEF SkipNode, IsNext
  <2>2. ~IsTrainer(n)
    BY <2>1, TrainersAreAskedFor
  <2>3. QED
    BY <1>4, <1>5, <2>1, <2>2
<1>12. ASSUME NEW n \in Nodes, UseHit(n) PROVE TrainInv'
  BY <1>4, <1>5, <1>12 DEF UseHit
<1>13. ASSUME NEW n \in Nodes, Train(n) PROVE TrainInv'
  <2>1. IsNext(n) /\ Visit(n, Collected(n, results)) /\ Settled(n)
    BY <1>13 DEF Train, Evaluates, InputsReady, Settled
  <2>2. CASE RowsOf(n, results) = {} /\ UNCHANGED store
    BY <1>4, <1>5, <2>1, <2>2
  <2>3. ASSUME NEW end \in Times, IsLast(end, RowsOf(n, results)), Publish(Own(end)),
               Own(end) \in Runs
        PROVE  TrainInv'
    <3>1. Recorded \subseteq Recorded' /\ Own(end) \in Recorded'
      BY <1>1, <2>3, PublishTypes
    <3>2. Own(end).at = end
      BY DEF Own
    <3>3. QED
      BY <1>4, <2>1, <2>3, <3>1, <3>2
  <2>4. QED
    BY <1>1, <1>13, <2>2, <2>3, TrainPublishes
<1>14. ASSUME NEW n \in Nodes, Materialize(n) PROVE TrainInv'
  <2>1. IsNext(n) /\ Visit(n, Collected(n, results)) /\ UNCHANGED store /\ ~IsTrainer(n)
    BY <1>14 DEF Materialize, Evaluates
  <2>2. QED
    BY <1>4, <1>5, <2>1
<1>15. ASSUME NEW n \in Nodes, Lower(n) PROVE TrainInv'
  <2>1. IsNext(n) /\ Visit(n, Lazy(RowsOf(n, results))) /\ UNCHANGED store /\ ~IsTrainer(n)
    BY <1>15 DEF Lower, Evaluates, CollectsNow
  <2>2. QED
    BY <1>4, <1>5, <2>1
<1>16. QED
  BY <1>6, <1>7, <1>8, <1>9, <1>10, <1>11, <1>12, <1>13, <1>14, <1>15 DEF Next, Proceed, Step

\* The invariants together.
ExecInv ==
  TypeInv /\ SearchInv /\ CacheInv /\ StoreInv /\ ResultInv /\ TrainInv /\ OutputInv

LEMMA ExecInvHolds == Spec => []ExecInv
<1>1. Init => ExecInv
  BY TypeInit, SearchInit, CacheInit, FreshInit DEF ExecInv
<1>2. ExecInv /\ [Next]_vars => ExecInv'
  BY TypeStep, SearchStep, CacheStep, StoreStep, ResultStep, TrainStep, OutputStep DEF ExecInv
<1>3. QED
  BY <1>1, <1>2, PTL DEF Spec

\* Unless a hit stands in for an inference, executions return frames that every
\* inference function with rows predicted, none of them with a run later than its
\* batch, nor one that another run had superseded when the execution began: for any
\* graphs, feeds that grow, runs that other graphs publish in between, in any order
\* of trained_at, and model directories (LocalExecutor.execute, ModelStore.select_run).
THEOREM ReturnsFreshFrames == Spec => []FreshUnlessHit
<1>1. ExecInv => FreshUnlessHit
  <2> SUFFICES ASSUME ExecInv, pc = "done", \A h \in hits : ~Infers(h),
                      NEW t \in graph.terminals
               PROVE  IsFresh(outputs[t], t)
    BY DEF FreshUnlessHit
  <2>1. Sound(outputs[t], t) /\ NoInferenceHit /\ TypeOK
    BY DEF ExecInv, OutputInv, NoInferenceHit, TypeInv
  <2>2. HitUses = {}
    <3>1. ASSUME NEW h \in hits PROVE results[h].uses = {}
      <4>1. results[h] \in Frames /\ h \in Nodes
        BY <2>1 DEF TypeOK
      <4>2. CASE results[h].kind = "frame"
        BY <3>1, <4>1, <4>2 DEF ExecInv, ResultInv, Sound, Kept
      <4>3. CASE results[h].kind # "frame"
        BY <4>1, <4>3, FrameTypes
      <4>4. QED
        BY <4>2, <4>3
    <3>2. QED
      BY <3>1 DEF HitUses
  <2>3. \A u \in outputs[t].uses : NotSuperseded(u)
    BY <2>1, <2>2 DEF Sound, Good
  <2>4. QED
    BY <2>1, <2>3 DEF Sound, Kept, Complete, IsFresh
<1>2. QED
  BY <1>1, ExecInvHolds, PTL

\* What an execution infers itself, after it retrained the group on data that end no
\* later than the batch, is predicted with a run that is no older than these data:
\* the trainer comes first and its run wins, whatever other graphs publish
\* (_evaluate_to_terminals, _is_live_inference, ModelStore.select_run).
THEOREM InferenceIsUpToDate == Spec => []InferenceSeesTraining
<1>1. ExecInv => InferenceSeesTraining
  <2> SUFFICES ASSUME ExecInv, pc = "done", NEW t \in graph.members \ hits, IsTrainer(t),
                      NEW o \in graph.terminals, NEW u \in Predictions(o),
                      \A row \in RowsOf(t, results) : row <= u.end
               PROVE  \A row \in RowsOf(t, results) : row <= u.run.at
    BY DEF InferenceSeesTraining
  <2>1. Sound(outputs[o], o)
    BY DEF ExecInv, OutputInv
  <2>2. u \in outputs[o].uses /\ u \notin HitUses
    BY DEF Predictions, HitUses
  <2>3. Good(u)
    BY <2>1, <2>2 DEF Sound
  <2>4. QED
    BY <2>3 DEF Good, Sees
<1>2. QED
  BY <1>1, ExecInvHolds, PTL

-----------------------------------------------------------------------------
(* When inference finds no model *)

\* A trainer that ran has left a run that is early enough, or had no rows, or was
\* trained on data that reach beyond the batch.
LEMMA MissingMeansTooLate ==
  ASSUME TypeInv, ResultInv, TrainInv, NEW n \in Nodes,
         FailCollect(n) \/ FailTerminal(n), NEW t \in graph.members \ hits, IsTrainer(t)
  PROVE  \/ RowsOf(t, results) = {}
         \/ \E m \in graph.members : \E row \in RowsOf(t, results) :
              IsInference(m) /\ RowsOf(m, results) # {}
                /\ \A own \in RowsOf(m, results) : own < row
<1>1. /\ TypeOK /\ prog \in Programs /\ graph.members \subseteq Nodes
      /\ graph.terminals \subseteq graph.members /\ queue \subseteq graph.members
  BY DEF TypeInv, TypeOK, Ends
<1>2. n \in graph.members /\ (IsNext(n) \/ graph.members \subseteq visited)
  BY <1>1 DEF FailCollect, FailTerminal, Evaluates, IsNext, ResultInv
<1>3. PICK m \in Pending(n, results) :
        IsInference(m) /\ RowsOf(m, results) # {} /\ Resolved(m, RowsOf(m, results)) = {}
  BY DEF FailCollect, FailTerminal, ModelMissing
<1>4. t \in visited /\ t \in Nodes
  BY <1>1, <1>2, <1>3, TrainersAreVisited
<1>5. SUFFICES ASSUME RowsOf(t, results) # {}
               PROVE  \E row \in RowsOf(t, results) : \A own \in RowsOf(m, results) : own < row
  <2>1. Members({n}) \subseteq graph.members
    <3>1. \A c \in graph.members \intersect Nodes : Parents(c) \subseteq graph.members
      BY DEF TypeInv, Closed
    <3>2. QED
      BY <1>1, <1>2, <3>1 DEF Members, Reached
  <2>2. m \in graph.members
    BY <1>1, <1>2, <1>3, <2>1, PendingReads
  <2>3. QED
    BY <1>3, <2>2
<1>6. PICK run \in Recorded : IsLast(run.at, RowsOf(t, results))
  BY <1>4, <1>5 DEF TrainInv, TrainedFor
<1>7. m \in Nodes /\ RowsOf(m, results) \in SUBSET Times /\ RowsOf(t, results) \in SUBSET Times
  BY <1>1, <1>4, RowTypes DEF Pending
<1>8. PICK end \in RowsOf(m, results) : \A own \in RowsOf(m, results) : own <= end
  BY <1>3, <1>7, NAssumption, LastOf DEF Times
<1>9. run.at \in RowsOf(t, results) /\ run.at \in Times /\ end \in Times
  BY <1>6, <1>7 DEF IsLast
<1>10. ~(run.at <= end)
  <2>1. IsLast(end, RowsOf(m, results))
    BY <1>8 DEF IsLast
  <2>2. QED
    BY <1>1, <1>3, <1>7, <2>1, ResolvedExists
<1>11. ASSUME NEW own \in RowsOf(m, results) PROVE own < run.at
  <2>1. own \in Times /\ own <= end
    BY <1>7, <1>8
  <2>2. QED
    BY <1>9, <1>10, <2>1 DEF Times
<1>12. QED
  BY <1>9, <1>11

\* Nothing goes on after a failure.
MissingInv == (why = "model" => pc = "failed") /\ TrainedBeforeInference

LEMMA MissingStep == ExecInv /\ MissingInv /\ [Next]_vars => MissingInv'
<1> SUFFICES ASSUME ExecInv, MissingInv, [Next]_vars, why' = "model"
             PROVE  pc' = "failed" /\ TrainedBeforeInference'
  BY DEF MissingInv, TrainedBeforeInference
<1> USE DEF ExecInv, MissingInv
<1>1. \/ why = "model" /\ UNCHANGED <<pc, prog, feed, graph, hits, results>>
      \/ /\ \E n \in Nodes : FailCollect(n) \/ FailTerminal(n)
         /\ pc' = "failed" /\ UNCHANGED <<prog, feed, graph, hits, results>>
  <2>1. CASE why = "model"
    <3>1. pc = "failed"
      BY <2>1
    <3>2. ASSUME NEW n \in Nodes PROVE ~Step(n)
      BY <3>1 DEF Step, SearchNode, SkipNode, UseHit, MissParent, FailCollect, Train,
         Materialize, Lower, FailTerminal, CollectTerminal, Evaluates, IsNext
    <3>3. QED
      BY <2>1, <3>1, <3>2 DEF Next, Proceed, Execute, StartEvaluation, StartCollection, Finish,
         Return, TrainElsewhere, ChangeModelDir, Grow, vars
  <2>2. CASE why # "model"
    <3>1. ASSUME NEW n \in Nodes, Step(n), ~FailCollect(n), ~FailTerminal(n)
          PROVE  why' # "model"
      BY <2>2, <3>1 DEF Step, SearchNode, SkipNode, UseHit, MissParent, Train,
         Materialize, Lower, CollectTerminal, Visit, Fail
    <3>2. ASSUME NEW n \in Nodes, FailCollect(n) \/ FailTerminal(n)
          PROVE  pc' = "failed" /\ UNCHANGED <<prog, feed, graph, hits, results>>
      BY <3>2 DEF FailCollect, FailTerminal, Fail
    <3>3. QED
      BY <2>2, <3>1, <3>2 DEF Next, Proceed, Execute, StartEvaluation, StartCollection, Finish,
         Return, TrainElsewhere, ChangeModelDir, Grow, vars
  <2>3. QED
    BY <2>1, <2>2
<1>2. SUFFICES ASSUME NEW t \in graph'.members \ hits', IsTrainer(t)'
               PROVE  \/ RowsOf(t, results)' = {}
                      \/ \E m \in graph'.members : \E row \in RowsOf(t, results)' :
                           IsInference(m)' /\ RowsOf(m, results)' # {}
                             /\ \A own \in RowsOf(m, results)' : own < row
  BY <1>1 DEF TrainedBeforeInference
<1>3. t \in graph.members \ hits /\ IsTrainer(t)
  BY <1>1, <1>2 DEF IsTrainer
<1>4. \/ RowsOf(t, results) = {}
      \/ \E m \in graph.members : \E row \in RowsOf(t, results) :
           IsInference(m) /\ RowsOf(m, results) # {}
             /\ \A own \in RowsOf(m, results) : own < row
  BY <1>1, <1>3, MissingMeansTooLate DEF TrainedBeforeInference
<1>5. \A m : RowsOf(m, results)' = RowsOf(m, results) /\ (IsInference(m)' <=> IsInference(m))
  BY <1>1 DEF RowsOf, IsSource, IsInference, Parents
<1>6. QED
  BY <1>1, <1>4, <1>5

\* A graph that retrains its group finds a model when it infers, unless the trainer was
\* given no rows or a batch ends before the data it was trained on, whatever the store
\* held and other graphs publish (_evaluate_to_terminals_with_hits, _is_live_inference,
\* ModelStore.select_run).
THEOREM TrainersComeFirst == Spec => []TrainedBeforeInference
<1>1. Init => MissingInv
  BY DEF Init, MissingInv, TrainedBeforeInference
<1>2. MissingInv => TrainedBeforeInference
  BY DEF MissingInv
<1>3. QED
  BY <1>1, <1>2, ExecInvHolds, MissingStep, PTL DEF Spec
=============================================================================
